----------------------------- MODULE UploadProofs -----------------------------
(***************************************************************************)
(* What records, sessions and objects add up to, for every number of       *)
(* attempts, requests and bytes, whatever fails: a record that says        *)
(* "uploaded" has its object, a record that was deleted is not written     *)
(* again, a session belongs to one record, the bytes of the live uploads   *)
(* stay reserved but for those that Redis failed to record, and, when      *)
(* every attempt has a path of its own, no object is left without its      *)
(* record.                                                                 *)
(***************************************************************************)
EXTENDS Upload, FiniteSetTheorems, WellFoundedInduction, TLAPS

-----------------------------------------------------------------------------
(* Records and what the requests remember of them.                          *)

\* A record, or a copy of one: its session was opened, and its object is there if it says so.
RecordOK(r) == mpu[r.mpu] # "none" /\ (r.st = "uploaded" => r.path \in objects)

RowsOK == \A id \in Attempt : Present(id) => mpu[id] # "none" /\ RecordOK(row[id])

\* The sessions that p knows of.
Knows(p, m) ==
  \/ req[p].seen # Absent /\ req[p].seen.mpu = m
  \/ req[p].write.row # Absent /\ req[p].write.row.mpu = m
  \/ \E t \in req[p].todo : t.row.mpu = m

\* An attempt whose session is not opened yet.
Starting(p) == req[p].pc \in {"i_reserve", "i_slot", "i_store"}
\* The same, or one that has failed to open it.
Trying(p) == Starting(p) \/ At(p, "i_undo")

\* An attempt that has inserted a record and not committed it: nobody else knows of it.
New(p) ==
  LET u == req[p].id
  IN  /\ At(p, "commit") /\ u \in Attempt
      /\ req[p].write.id = u /\ req[p].write.row # Absent /\ req[p].write.row.mpu = u
      /\ ~ Present(u) /\ mpu[u] = "open"
      /\ \A id \in Attempt : Present(id) => row[id].mpu # u

\* Where an operation is says which operation it is.
OpOK(p) ==
  LET r == req[p]
  IN  /\ r.pc \in {"c_store", "c_update", "c_finalize", "c_catch"} => r.op = "complete"
      /\ r.pc \in {"next", "k_delete"} => r.op \in {"clear", "cleanup"}
      /\ r.pc \in {"a_delete", "a_commit", "a_refund"} => r.op \in {"abort", "complete", "clear", "cleanup"}

\* What p remembers are records, and what its transaction has written is there or new.
RequestOK(p) ==
  LET r == req[p]
  IN  /\ OpOK(p)
      /\ Starting(p) => r.id \in Attempt /\ mpu[r.id] = "none" /\ r.todo = {} /\ r.write = NoWrite
      /\ r.pc \in {"i_reserve", "i_slot"} => r.seen = Absent
      /\ r.pc = "i_refund" => r.id \in Attempt
      /\ r.pc \in {"next", "k_delete"} => r.write = NoWrite
      /\ r.pc \in {"i_store", "i_undo"} =>
           /\ r.id \in Attempt /\ r.todo = {} /\ r.write = NoWrite
           /\ r.seen # Absent /\ r.seen.mpu = r.id /\ r.seen.st = "uploading"
      /\ r.pc \notin {"i_store", "i_undo"} /\ r.seen # Absent => RecordOK(r.seen)
      /\ r.write.row # Absent => RecordOK(r.write.row)
      /\ \A t \in r.todo : RecordOK(t.row)
      /\ r.pc \in {"c_store", "c_update", "c_finalize", "c_catch", "a_delete", "a_commit", "h_update",
                   "k_delete", "a_refund"} =>
           r.seen # Absent /\ r.id \in Attempt
      /\ r.pc = "c_update" => r.seen.path \in objects
      /\ r.write.id = None => r.write.row = Absent
      /\ r.write.id # None => Present(r.write.id) \/ New(p)
      /\ r.pc = "a_commit" => r.write.id = r.id /\ r.id \in Attempt
      /\ r.pc \in {"commit", "c_finalize", "c_release"} /\ r.tx = "open" => r.write.row # Absent

\* No two requests start the same attempt or write the same record, and what is new is unknown to others.
Apart(p, q) ==
  /\ Trying(p) /\ Trying(q) => req[p].id # req[q].id
  /\ req[p].write.id # None => req[q].write.id # req[p].write.id
  /\ New(p) => ~ Knows(q, req[p].id)

Inv ==
  /\ TypeOK /\ RowsOK
  /\ \A p \in Process : RequestOK(p)
  /\ \A p, q \in Process : p # q => Apart(p, q)

-----------------------------------------------------------------------------
(* Attempts with paths of their own.                                        *)

OwnPath == \A u, v \in Attempt : Wanted[u] = Wanted[v] => u = v

\* The record of id is at its path, with its session, and so is every copy of it.
OwnRow(id, r) == r.mpu = id /\ r.path = Wanted[id]
OwnRequest(p) ==
  LET r == req[p]
  IN  /\ r.seen # Absent => r.id \in Attempt /\ OwnRow(r.id, r.seen)
      /\ r.write.row # Absent => OwnRow(r.write.id, r.write.row)
      /\ \A t \in r.todo : OwnRow(t.id, t.row)

\* While a request completes or aborts an upload, it holds the lock of the file.
Guards(p) == req[p].pc \in {"c_store", "c_update", "c_finalize", "c_catch", "a_delete", "a_commit"}

\* What is deleted was not completed, and what can be completed is there.
Deletes(p) ==
  LET id == req[p].id
  IN  /\ Guards(p) => id \in Attempt /\ fileLock[id] = p
      /\ At(p, "a_commit") => mpu[id] # "completed"
      /\ At(p, "k_delete") => mpu[id] = "aborted"
      /\ At(p, "c_store") /\ mpu[id] = "open" => Present(id)

Objects ==
  /\ \A id \in Attempt : mpu[id] = "completed" <=> Wanted[id] \in objects
  /\ \A path \in objects : \E id \in Attempt : path = Wanted[id]
  /\ \A id \in Attempt : mpu[id] = "completed" => Present(id)

OwnInv ==
  /\ \A id \in Attempt : Present(id) => OwnRow(id, row[id])
  /\ Objects
  /\ \A p \in Process : OwnRequest(p) /\ Deletes(p)

-----------------------------------------------------------------------------
(* What a step of p may do to the others.                                   *)

\* The sessions and objects only come, but for sessions p knows of; a record that somebody
\* else has written stays; a record that comes, or changes its session, is one p knows of.
Onwards(p) ==
  /\ \A q \in Process \ {p} : req'[q] = req[q]
  /\ objects \subseteq objects'
  /\ \A m \in Attempt : mpu'[m] = mpu[m] \/ (mpu'[m] # "none" /\ Knows(p, m))
  /\ \A id \in Attempt : row[id] # Absent /\ row'[id] = Absent =>
       \A q \in Process \ {p} : req[q].write.id # id
  /\ \A id \in Attempt : row'[id] # Absent =>
       /\ row[id] # Absent \/ req[p].write.id = id
       /\ (row[id] # Absent /\ row'[id].mpu = row[id].mpu) \/ Knows(p, row'[id].mpu)

\* What p itself takes up: an attempt nobody has, a record nobody writes, sessions of records.
TakesUp(p) ==
  /\ Trying(p)' => \/ Trying(p) /\ req'[p].id = req[p].id
                   \/ \A q \in Process \ {p} : req[q].id # req'[p].id
  /\ \/ req'[p].write.id \in {None, req[p].write.id}
     \/ \A q \in Process \ {p} : req[q].write.id # req'[p].write.id
  /\ New(p)' => \A q \in Process \ {p} : ~ Knows(q, req'[p].id)
  /\ \A m \in Attempt : Knows(p, m)' =>
       Knows(p, m) \/ mpu[m] = "none" \/ \E id \in Attempt : Present(id) /\ row[id].mpu = m

\* Whoever knows a session that was not opened is about to open it.
LEMMA KnownIsOpened ==
  ASSUME Inv, NEW p \in Process, NEW m \in Attempt, Knows(p, m), mpu[m] = "none"
  PROVE  Trying(p) /\ req[p].id = m
BY DEF Inv, RequestOK, Knows, RecordOK, Trying, Starting, At, NoWrite

LEMMA Rows ==
  ASSUME TypeOK, NEW p \in Process
  PROVE  /\ req[p] \in Operation /\ req[p].seen \in Row \cup {Absent} /\ req[p].write \in Write
         /\ req[p].write.row \in Row \cup {Absent} /\ req[p].write.id \in Attempt \cup {None}
         /\ req[p].id \in Attempt \cup {None}
         /\ \A t \in req[p].todo : t.id \in Attempt /\ t.row \in Row
         /\ \A r \in Row : r.mpu \in Attempt /\ r.path \in Attempt
BY DEF TypeOK, Operation, Write, Row

\* The new record of q stays new, and a record that q writes stays.
LEMMA NewStays ==
  ASSUME Inv, TypeOK', NEW p \in Process, NEW q \in Process, p # q, Onwards(p)
  PROVE  /\ New(q) => New(q)'
         /\ New(q)' => New(q)
<1>1. req'[q] = req[q]
  BY DEF Onwards
<1>2. Apart(p, q) /\ Apart(q, p) /\ RequestOK(q)
  BY DEF Inv
<1>3. ASSUME New(q) PROVE New(q)'
  <2> DEFINE u == req[q].id
  <2>1. /\ u \in Attempt /\ req[q].write.id = u /\ u # None
        /\ row[u] = Absent /\ mpu[u] = "open" /\ \A id \in Attempt : row[id] # Absent => row[id].mpu # u
    BY <1>3, SetAssumption DEF New, Present
  <2>2. ~ Knows(p, u) /\ req[p].write.id # u
    BY <1>2, <1>3, <2>1 DEF Apart
  <2>3. mpu'[u] = "open" /\ row'[u] = Absent
    BY <2>1, <2>2 DEF Onwards
  <2>4. \A id \in Attempt : row'[id] # Absent => row'[id].mpu # u
    BY <2>1, <2>2 DEF Onwards
  <2> QED
    BY <1>1, <1>3, <2>1, <2>3, <2>4 DEF New, Present, At
<1>4. ASSUME New(q)' PROVE New(q)
  <2> DEFINE u == req[q].id
  <2>1. /\ u \in Attempt /\ req[q].write.id = u /\ u # None /\ row'[u] = Absent
    BY <1>1, <1>4, SetAssumption DEF New, Present
  <2>2. row[u] = Absent
    BY <2>1 DEF Onwards
  <2> QED
    BY <1>2, <2>1, <2>2 DEF RequestOK, Present
<1> QED
  BY <1>3, <1>4

\* Nobody else is disturbed.
LEMMA OthersStay ==
  ASSUME Inv, TypeOK', NEW p \in Process, NEW q \in Process, p # q, Onwards(p)
  PROVE  RequestOK(q)'
<1>1. req'[q] = req[q] /\ TypeOK
  BY DEF Onwards, Inv
<1>2. Apart(p, q) /\ Apart(q, p) /\ RequestOK(q)
  BY DEF Inv
<1>3. \A r \in Row : RecordOK(r) => mpu'[r.mpu] # "none" /\ (r.st = "uploaded" => r.path \in objects')
  BY <1>1, Rows DEF RecordOK, Onwards
<1>4. ASSUME Starting(q) PROVE mpu'[req[q].id] = "none"
  <2>1. req[q].id \in Attempt /\ mpu[req[q].id] = "none" /\ Trying(q)
    BY <1>2, <1>4 DEF RequestOK, Trying
  <2>2. ~ Knows(p, req[q].id)
    BY <1>2, <2>1, KnownIsOpened DEF Apart
  <2> QED
    BY <2>1, <2>2 DEF Onwards
<1>5. ASSUME req[q].write.id # None PROVE row'[req[q].write.id] # Absent \/ New(q)'
  <2>1. CASE New(q)
    BY <2>1, NewStays
  <2>2. CASE ~ New(q)
    <3>1. row[req[q].write.id] # Absent /\ req[q].write.id \in Attempt
      BY <1>1, <1>2, <1>5, <2>2, Rows DEF RequestOK, Present
    <3> QED
      BY <3>1 DEF Onwards
  <2> QED
    BY <2>1, <2>2
<1>6. /\ req[q].seen \in Row \cup {Absent} /\ req[q].write.row \in Row \cup {Absent}
      /\ \A t \in req[q].todo : t.row \in Row
  BY <1>1, Rows
<1> QED
  BY <1>1, <1>2, <1>3, <1>4, <1>5, <1>6 DEF RequestOK, OpOK, RecordOK, Starting, Present, Onwards

\* The step keeps the invariant, if what p does itself is in order.
LEMMA Keeper ==
  ASSUME Inv, NEW p \in Process, TypeOK', RowsOK', RequestOK(p)', Onwards(p), TakesUp(p)
  PROVE  Inv'
<1>1. \A q \in Process : RequestOK(q)'
  BY OthersStay
<1>2. ASSUME NEW q \in Process, NEW s \in Process, q # s PROVE Apart(q, s)'
  <2>1. Apart(q, s) /\ TypeOK
    BY <1>2 DEF Inv
  <2>2. CASE q # p /\ s # p
    <3>1. req'[q] = req[q] /\ req'[s] = req[s] /\ (New(q)' => New(q))
      BY <2>2, NewStays DEF Onwards
    <3> QED
      BY <2>1, <3>1 DEF Apart, Trying, Starting, At, Knows
  <2>3. CASE q = p
    <3>1. req'[s] = req[s]
      BY <1>2, <2>3 DEF Onwards
    <3> QED
      BY <1>2, <2>1, <2>3, <3>1 DEF Apart, Trying, Starting, At, Knows, TakesUp
  <2>4. CASE s = p /\ q # p
    <3>1. req'[q] = req[q] /\ (New(q)' => New(q)) /\ Apart(p, q)
      BY <1>2, <2>4, NewStays DEF Onwards, Inv
    <3>2. \A u \in Attempt : New(q) /\ u = req[q].id => ~ Knows(p, u)'
      <4>1. ASSUME NEW u \in Attempt, New(q), u = req[q].id, Knows(p, u)' PROVE FALSE
        <5>1. ~ Knows(p, u)
          BY <2>1, <2>4, <4>1 DEF Apart
        <5> QED
          BY <4>1, <5>1 DEF TakesUp, New
      <4> QED
        BY <4>1
    <3>5. New(q)' => req'[q].id \in Attempt /\ \A u \in Attempt : u = req'[q].id => ~ Knows(p, u)'
      <4>1. New(q)' => req'[q].id \in Attempt
        BY DEF New
      <4> QED
        BY <3>1, <3>2, <4>1
    <3>3. Trying(q)' /\ Trying(p)' => req[q].id # req'[p].id
      BY <2>1, <2>4, <3>1 DEF Apart, Trying, Starting, At, TakesUp
    <3>4. req[q].write.id # None => req'[p].write.id # req[q].write.id
      BY <2>1, <2>4, <3>1 DEF Apart, TakesUp
    <3> QED
      BY <2>4, <3>1, <3>5, <3>3, <3>4 DEF Apart, Knows
  <2> QED
    BY <2>2, <2>3, <2>4
<1> QED
  BY <1>1, <1>2 DEF Inv

-----------------------------------------------------------------------------
(* Forms: the counters, and what becomes of a request.                      *)

LEMMA Counters ==
  ASSUME NEW k \in Key, NEW d \in Nat
  PROVE  /\ Missing \in Key /\ Acquired(k) \in Key /\ Released(k) \in Key
         /\ Decremented(k, d) \in Key /\ Adjusted(k, d) \in Key
<1>1. Missing \in Key /\ Acquired(k) \in Key /\ Adjusted(k, d) \in Key
  BY DEF Key, Missing, Acquired, Adjusted
<1>2. Released(k) \in Key
  BY <1>1 DEF Key, Released
<1>3. Decremented(k, d) \in Key
  BY <1>1 DEF Key, Decremented
<1> QED
  BY <1>1, <1>2, <1>3

\* A record, as completions and heartbeats write it back and time changes it.
LEMMA Written ==
  ASSUME NEW r \in Row
  PROVE  /\ [r EXCEPT !.st = "uploaded", !.age = 0] \in Row
         /\ [r EXCEPT !.st = "uploaded", !.age = 0].mpu = r.mpu /\ [r EXCEPT !.st = "uploaded", !.age = 0].path = r.path
         /\ [r EXCEPT !.age = 0] \in Row /\ [r EXCEPT !.age = 0].mpu = r.mpu
         /\ [r EXCEPT !.age = 0].path = r.path /\ [r EXCEPT !.age = 0].st = r.st
         /\ r.age < 2 => [r EXCEPT !.age = r.age + 1] \in Row
         /\ [r EXCEPT !.age = r.age + 1].mpu = r.mpu /\ [r EXCEPT !.age = r.age + 1].path = r.path
         /\ [r EXCEPT !.age = r.age + 1].st = r.st
<1>1. 0 \in 0..2 /\ (r.age < 2 => r.age + 1 \in 0..2) /\ r.age \in 0..2
  BY DEF Row
<1>2. [r EXCEPT !.st = "uploaded", !.age = 0] \in Row
  BY <1>1 DEF Row
<1>3. [r EXCEPT !.age = 0] \in Row
  BY <1>1 DEF Row
<1>4. r.age < 2 => [r EXCEPT !.age = r.age + 1] \in Row
  BY <1>1 DEF Row
<1>5. [r EXCEPT !.st = "uploaded", !.age = 0].mpu = r.mpu /\ [r EXCEPT !.st = "uploaded", !.age = 0].path = r.path
  BY DEF Row
<1>6. \A n : /\ [r EXCEPT !.age = n].mpu = r.mpu /\ [r EXCEPT !.age = n].path = r.path
             /\ [r EXCEPT !.age = n].st = r.st
  BY DEF Row
<1> QED
  BY <1>2, <1>3, <1>4, <1>5, <1>6

LEMMA IdleForm ==
  /\ Idle \in Operation
  /\ Idle.pc = "idle" /\ Idle.op = "none" /\ Idle.id = None /\ Idle.seen = Absent /\ Idle.tx = "none"
  /\ Idle.write = NoWrite /\ Idle.todo = {} /\ Idle.failed = FALSE
  /\ NoWrite.id = None /\ NoWrite.row = Absent /\ NoWrite \in Write
BY DEF Idle, NoWrite, Operation, Location, Write

LEMMA EndsForm ==
  ASSUME TypeOK, NEW p \in Process, Ends(p)
  PROVE  /\ req' \in [Process -> Operation] /\ req'[p] = Idle
         /\ \A q \in Process \ {p} : req'[q] = req[q]
BY IdleForm DEF TypeOK, Ends

LEMMA GotoForm ==
  ASSUME TypeOK, NEW p \in Process, NEW pc \in Location, Goto(p, pc)
  PROVE  /\ req' \in [Process -> Operation] /\ \A q \in Process \ {p} : req'[q] = req[q]
         /\ req'[p].pc = pc /\ req'[p].op = req[p].op /\ req'[p].id = req[p].id /\ req'[p].seen = req[p].seen
         /\ req'[p].tx = req[p].tx /\ req'[p].write = req[p].write /\ req'[p].todo = req[p].todo
         /\ req'[p].failed = req[p].failed
<1>1. req \in [Process -> Operation] /\ req[p] \in Operation
  BY DEF TypeOK
<1>2. req' = [req EXCEPT ![p] = [req[p] EXCEPT !.pc = pc]]
  BY DEF Goto
<1>3. [req[p] EXCEPT !.pc = pc] \in Operation
  BY <1>1 DEF Operation
<1>4. req'[p] = [req[p] EXCEPT !.pc = pc] /\ req' \in [Process -> Operation] /\ \A q \in Process \ {p} : req'[q] = req[q]
  BY <1>1, <1>2, <1>3
<1> QED
  BY <1>1, <1>4 DEF Operation

\* Steps that leave records, sessions and objects alone.
LEMMA Light ==
  ASSUME Inv, NEW p \in Process, TypeOK', UNCHANGED <<row, mpu, objects>>,
         \A q \in Process \ {p} : req'[q] = req[q], RequestOK(p)', TakesUp(p)
  PROVE  Inv'
<1>1. RowsOK'
  BY DEF Inv, RowsOK, RecordOK, Present
<1>2. Onwards(p)
  BY DEF Onwards
<1> QED
  BY <1>1, <1>2, Keeper

LEMMA Same ==
  ASSUME Inv, TypeOK', UNCHANGED <<row, mpu, objects, req>>
  PROVE  Inv'
BY DEF Inv, RowsOK, RecordOK, Present, RequestOK, OpOK, Starting, Trying, At, New, Apart, Knows

\* p forgets something, or is where nothing is asked of it.
LEMMA Relaxes ==
  ASSUME Inv, NEW p \in Process, TypeOK', UNCHANGED <<row, mpu, objects>>,
         \A q \in Process \ {p} : req'[q] = req[q], OpOK(p)',
         req[p].pc \notin {"i_store", "i_undo", "commit"},
         req'[p].pc \in {"idle", "c_catch", "c_finally", "next"},
         req'[p].pc = "c_catch" => req'[p].seen # Absent /\ req'[p].id \in Attempt,
         req'[p].pc = "next" => req'[p].write = NoWrite,
         req'[p].seen \in {req[p].seen, Absent}, req'[p].write \in {req[p].write, NoWrite},
         req'[p].todo \subseteq req[p].todo
  PROVE  Inv'
<1>1. RequestOK(p)'
  <2>1. RequestOK(p) /\ ~ New(p)
    BY DEF Inv, New, At
  <2> QED
    BY <2>1, IdleForm DEF RequestOK, Starting, RecordOK, Present
<1>2. TakesUp(p)
  <2>1. ~ Trying(p)' /\ ~ New(p)'
    BY DEF Trying, Starting, At, New
  <2> QED
    BY <2>1, IdleForm DEF TakesUp, Knows
<1> QED
  BY <1>1, <1>2, Light

LEMMA Finishes ==
  ASSUME Inv, NEW p \in Process, TypeOK', UNCHANGED <<row, mpu, objects>>,
         \A q \in Process \ {p} : req'[q] = req[q], req'[p] = Idle
  PROVE  Inv'
<1>1. RequestOK(p)'
  BY IdleForm DEF RequestOK, OpOK, Starting
<1>2. TakesUp(p)
  <2>1. ~ Trying(p)' /\ ~ New(p)'
    BY IdleForm DEF Trying, Starting, At, New
  <2> QED
    BY <2>1, IdleForm DEF TakesUp, Knows
<1> QED
  BY <1>1, <1>2, Light

LEMMA UnlockedForm ==
  ASSUME TypeOK, NEW p \in Process
  PROVE  Unlocked(p) \in [Attempt -> Process \cup {None, Dead}]
BY DEF TypeOK, Unlocked

\* An abort or a cleanup returns to its caller with nothing new in its hands.
LEMMA ReturnsForm ==
  ASSUME TypeOK, NEW p \in Process, NEW threw \in BOOLEAN,
         req[p].op \in {"abort", "complete", "clear", "cleanup"}, AbortReturns(p, threw)
  PROVE  /\ req' \in [Process -> Operation] /\ \A q \in Process \ {p} : req'[q] = req[q]
         /\ OpOK(p)' /\ req'[p].pc \in {"idle", "c_finally", "next"}
         /\ req'[p].seen \in {req[p].seen, Absent} /\ req'[p].write \in {req[p].write, NoWrite}
         /\ req'[p].todo \subseteq req[p].todo
         /\ fileLock' \in {fileLock, Unlocked(p)} /\ fileLock' \in [Attempt -> Process \cup {None, Dead}]
         /\ (req'[p].id = req[p].id \/ req'[p].seen = Absent) /\ (req'[p].pc = "next" => req'[p].write = NoWrite)
<1> DEFINE r == req[p]
           back == [r EXCEPT !.pc = "next", !.id = None, !.seen = Absent,
                      !.todo = {t \in r.todo : t.id # r.id}, !.write = NoWrite,
                      !.failed = r.failed \/ (threw /\ r.op = "clear")]
<1>1. req \in [Process -> Operation] /\ r \in Operation /\ fileLock \in [Attempt -> Process \cup {None, Dead}]
  BY DEF TypeOK
<1>2. Unlocked(p) \in [Attempt -> Process \cup {None, Dead}]
  BY UnlockedForm
<1>3. CASE r.op = "abort"
  <2>1. Ends(p) /\ fileLock' = Unlocked(p)
    BY <1>3 DEF AbortReturns
  <2>2. req' \in [Process -> Operation] /\ req'[p] = Idle /\ \A q \in Process \ {p} : req'[q] = req[q]
    BY <2>1, EndsForm
  <2> QED
    BY <1>2, <2>1, <2>2, IdleForm DEF OpOK
<1>4. CASE r.op = "complete"
  <2>1. Goto(p, "c_finally") /\ fileLock' = fileLock
    BY <1>4 DEF AbortReturns
  <2>2. /\ req' \in [Process -> Operation] /\ \A q \in Process \ {p} : req'[q] = req[q]
        /\ req'[p].pc = "c_finally" /\ req'[p].id = r.id /\ req'[p].seen = r.seen
        /\ req'[p].write = r.write /\ req'[p].todo = r.todo
    BY <2>1, GotoForm DEF Location
  <2> QED
    BY <1>1, <2>1, <2>2 DEF OpOK
<1>5. CASE r.op \in {"clear", "cleanup"}
  <2>1. req' = [req EXCEPT ![p] = back] /\ fileLock' = Unlocked(p)
    BY <1>5 DEF AbortReturns
  <2>2. back \in Operation
    BY <1>1, IdleForm DEF Operation, Location
  <2>3. /\ back.pc = "next" /\ back.op = r.op /\ back.id = None /\ back.seen = Absent
        /\ back.todo \subseteq r.todo /\ back.write = NoWrite
    BY <1>1 DEF Operation
  <2>4. req'[p] = back /\ req' \in [Process -> Operation] /\ \A q \in Process \ {p} : req'[q] = req[q]
    BY <1>1, <2>1, <2>2
  <2> HIDE DEF back
  <2> QED
    BY <1>2, <1>5, <2>1, <2>3, <2>4 DEF OpOK
<1> QED
  BY <1>3, <1>4, <1>5

-----------------------------------------------------------------------------
(* Steps that touch only locks and counters, or give up.                    *)

LEMMA TakeQuotaLockKeeps ==
  ASSUME Inv, NEW p \in Process, TakeQuotaLock(p)
  PROVE  Inv'
<1>1. TypeOK'
  BY DEF Inv, TypeOK, TakeQuotaLock, redis, store
<1>2. UNCHANGED <<row, mpu, objects, req>>
  BY DEF TakeQuotaLock, store
<1> QED
  BY <1>1, <1>2, Same

LEMMA QuotaLockBusyKeeps ==
  ASSUME Inv, NEW p \in Process, QuotaLockBusy(p)
  PROVE  Inv'
<1>1. /\ TypeOK /\ UNCHANGED <<row, mpu, objects, slots, reserved, unrecorded, quotaLock, fileLock>>
  BY DEF Inv, QuotaLockBusy, store, redis
<1>2. CASE Ends(p) /\ userLock' = None
  <2>1. req' \in [Process -> Operation] /\ req'[p] = Idle /\ \A q \in Process \ {p} : req'[q] = req[q]
    BY <1>1, <1>2, EndsForm
  <2>2. TypeOK'
    BY <1>1, <1>2, <2>1 DEF TypeOK
  <2> QED
    BY <1>1, <2>1, <2>2, Finishes
<1>3. CASE At(p, "c_finalize") /\ Goto(p, "c_catch") /\ UNCHANGED userLock
  <2>1. /\ req' \in [Process -> Operation] /\ \A q \in Process \ {p} : req'[q] = req[q]
        /\ req'[p].pc = "c_catch" /\ req'[p].op = req[p].op /\ req'[p].id = req[p].id /\ req'[p].seen = req[p].seen
        /\ req'[p].write = req[p].write /\ req'[p].todo = req[p].todo
    BY <1>1, <1>3, GotoForm DEF Location
  <2>2. TypeOK'
    BY <1>1, <1>3, <2>1 DEF TypeOK
  <2>3. OpOK(p)' /\ req[p].seen # Absent /\ req[p].id \in Attempt
    <3>1. RequestOK(p)
      BY DEF Inv
    <3> QED
      BY <1>3, <2>1, <3>1 DEF RequestOK, OpOK, At
  <2> QED
    BY <1>1, <1>3, <2>1, <2>2, <2>3, Relaxes DEF At
<1> QED
  BY <1>2, <1>3 DEF QuotaLockBusy, InitiateThrows

LEMMA ReserveKeeps ==
  ASSUME Inv, NEW p \in Process, Reserve(p)
  PROVE  Inv'
<1>1. /\ TypeOK /\ UNCHANGED <<row, mpu, objects, slots, fileLock>> /\ quotaLock' = None /\ At(p, "i_reserve")
  BY DEF Inv, Reserve, store
<1>2. CASE Ends(p) /\ userLock' = None /\ UNCHANGED <<reserved, unrecorded>>
  <2>1. req' \in [Process -> Operation] /\ req'[p] = Idle /\ \A q \in Process \ {p} : req'[q] = req[q]
    BY <1>1, <1>2, EndsForm
  <2>2. TypeOK'
    BY <1>1, <1>2, <2>1 DEF TypeOK
  <2> QED
    BY <1>1, <2>1, <2>2, Finishes
<1>3. CASE AddReservation(req[p].id) /\ Goto(p, "i_slot") /\ UNCHANGED userLock
  <2>1. RequestOK(p) /\ req[p].id \in Attempt
    BY <1>1 DEF Inv, RequestOK, Starting, At
  <2>2. /\ req' \in [Process -> Operation] /\ \A q \in Process \ {p} : req'[q] = req[q]
        /\ req'[p].pc = "i_slot" /\ req'[p].op = req[p].op /\ req'[p].id = req[p].id /\ req'[p].seen = req[p].seen
        /\ req'[p].write = req[p].write /\ req'[p].todo = req[p].todo
    BY <1>1, <1>3, GotoForm DEF Location
  <2>3. Size[req[p].id] \in Nat
    BY <2>1, LimitAssumption
  <2>4. reserved' \in Key /\ unrecorded' \subseteq Attempt
    <3>1. Adjusted(reserved, Size[req[p].id]) \in Key
      BY <1>1, <2>3, Counters DEF TypeOK
    <3> QED
      BY <1>1, <1>3, <2>1, <3>1 DEF TypeOK, AddReservation
  <2>5. TypeOK'
    BY <1>1, <1>3, <2>2, <2>4 DEF TypeOK
  <2>6. RequestOK(p)'
    BY <1>1, <2>1, <2>2, IdleForm DEF RequestOK, OpOK, Starting, At
  <2>7. TakesUp(p)
    BY <1>1, <2>1, <2>2 DEF TakesUp, Trying, Starting, At, New, Knows
  <2> QED
    BY <1>1, <2>2, <2>5, <2>6, <2>7, Light
<1> QED
  BY <1>2, <1>3 DEF Reserve, InitiateThrows

LEMMA RefundKeeps ==
  ASSUME Inv, NEW p \in Process, Refund(p)
  PROVE  Inv'
<1>1. /\ TypeOK /\ UNCHANGED <<row, mpu, objects>> /\ RequestOK(p) /\ req[p].pc \in {"i_refund", "i_undo", "a_refund"}
  BY DEF Inv, Refund, store
<1>2. \A k \in Key : Released(k) \in Key /\ \A d \in Nat : Decremented(k, d) \in Key
  <2> TAKE k \in Key
  <2>1. Released(k) \in Key
    <3>1. 0 \in Nat
      OBVIOUS
    <3> QED
      BY <3>1, Counters
  <2> QED
    BY <2>1, Counters
<1>3. slots' \in Key /\ unrecorded' \subseteq Attempt
  BY <1>1, <1>2 DEF Refund, TypeOK, Outcomes
<1>4. \A u \in Attempt : Size[u] \in Nat
  BY LimitAssumption
<1>5. quotaLock' \in Process \cup {None, Dead}
  BY <1>1 DEF Refund, TypeOK
<1>6. CASE At(p, "a_refund")
  <2>1. AbortReturns(p, FALSE) /\ UNCHANGED userLock /\ req[p].op \in {"abort", "complete", "clear", "cleanup"}
    BY <1>1, <1>6 DEF Refund, At, RequestOK, OpOK
  <2>2. req[p].seen.mpu \in Attempt
    <3>1. req[p].seen # Absent
      BY <1>1, <1>6 DEF RequestOK, At
    <3> QED
      BY <1>1, <3>1, Rows
  <2>3. reserved' \in Key
    BY <1>1, <1>2, <1>4, <1>6, <2>2 DEF Refund, TypeOK, Outcomes
  <2>4. /\ req' \in [Process -> Operation] /\ \A q \in Process \ {p} : req'[q] = req[q]
        /\ OpOK(p)' /\ req'[p].pc \in {"idle", "c_finally", "next"}
        /\ req'[p].seen \in {req[p].seen, Absent} /\ req'[p].write \in {req[p].write, NoWrite}
        /\ req'[p].todo \subseteq req[p].todo /\ fileLock' \in [Attempt -> Process \cup {None, Dead}]
        /\ (req'[p].pc = "next" => req'[p].write = NoWrite)
    BY <1>1, <2>1, ReturnsForm
  <2>5. TypeOK'
    BY <1>1, <1>3, <1>5, <2>1, <2>3, <2>4 DEF TypeOK
  <2> QED
    BY <1>1, <1>6, <2>4, <2>5, Relaxes DEF At
<1>7. CASE ~ At(p, "a_refund")
  <2>1. Ends(p) /\ userLock' = None /\ UNCHANGED fileLock
    BY <1>7 DEF Refund, InitiateThrows
  <2>2. reserved' \in Key
    <3>1. CASE UNCHANGED reserved
      BY <1>1, <3>1 DEF TypeOK
    <3>2. CASE reserved' = Decremented(reserved, Size[req[p].id])
      <4>1. req[p].id \in Attempt
        BY <1>1, <1>7 DEF RequestOK, At
      <4> QED
        BY <1>1, <1>2, <1>4, <3>2, <4>1 DEF TypeOK
    <3> QED
      BY <1>7, <3>1, <3>2 DEF Refund, Outcomes
  <2>3. req' \in [Process -> Operation] /\ req'[p] = Idle /\ \A q \in Process \ {p} : req'[q] = req[q]
    BY <1>1, <2>1, EndsForm
  <2>4. TypeOK'
    BY <1>1, <1>3, <1>5, <2>1, <2>2, <2>3 DEF TypeOK
  <2> QED
    BY <1>1, <2>3, <2>4, Finishes
<1> QED
  BY <1>6, <1>7

-----------------------------------------------------------------------------
(* The steps of an initiate.                                                *)

LEMMA BeginInitiateKeeps ==
  ASSUME Inv, NEW p \in Request, NEW u \in Attempt, BeginInitiate(p, u)
  PROVE  Inv'
<1> DEFINE new == [Idle EXCEPT !.pc = "i_reserve", !.op = "initiate", !.id = u, !.tx = "open"]
<1>1. /\ TypeOK /\ p \in Process /\ UNCHANGED <<row, mpu, objects, slots, reserved, unrecorded, quotaLock, fileLock>> /\ userLock' = p
      /\ req' = [req EXCEPT ![p] = new] /\ mpu[u] = "none" /\ \A q \in Process : req[q].id # u
      /\ "initiate" \in Ops
  BY DEF Inv, BeginInitiate, Calls, store, redis, Process
<1>2. /\ new \in Operation /\ new.pc = "i_reserve" /\ new.id = u /\ new.seen = Absent /\ new.write = NoWrite /\ new.todo = {}
  BY <1>1, IdleForm DEF Operation, Location
<1>3. req'[p] = new /\ req' \in [Process -> Operation] /\ \A q \in Process \ {p} : req'[q] = req[q]
  BY <1>1, <1>2 DEF TypeOK
<1> HIDE DEF new
<1>4. TypeOK'
  BY <1>1, <1>3 DEF TypeOK
<1>5. RequestOK(p)'
  BY <1>1, <1>2, <1>3, IdleForm DEF RequestOK, OpOK, Starting
<1>6. TakesUp(p)
  BY <1>1, <1>2, <1>3, IdleForm DEF TakesUp, New, Knows, At
<1> QED
  BY <1>1, <1>3, <1>4, <1>5, <1>6, Light

LEMMA AcquireSlotKeeps ==
  ASSUME Inv, NEW p \in Process, AcquireSlot(p)
  PROVE  Inv'
<1> DEFINE u == req[p].id
<1>1. /\ TypeOK /\ UNCHANGED <<row, mpu, objects, reserved, unrecorded, quotaLock, fileLock>> /\ At(p, "i_slot")
      /\ RequestOK(p) /\ req[p] \in Operation
  BY DEF Inv, AcquireSlot, store, TypeOK
<1>2. u \in Attempt /\ mpu[u] = "none" /\ req[p].todo = {} /\ req[p].write = NoWrite /\ req[p].seen = Absent
  BY <1>1 DEF RequestOK, Starting, At
<1>3. CASE /\ slots' = Acquired(slots) /\ UNCHANGED userLock
           /\ \E path \in FreePaths(u) :
                req' = [req EXCEPT ![p].pc = "i_store", ![p].seen =
                          [path |-> path, mpu |-> u, st |-> "uploading", age |-> 0]]
  <2>1. PICK path \in FreePaths(u) :
          req' = [req EXCEPT ![p].pc = "i_store", ![p].seen =
                    [path |-> path, mpu |-> u, st |-> "uploading", age |-> 0]]
    BY <1>3
  <2>2. path \in Attempt
    BY <1>2, LimitAssumption DEF FreePaths
  <2> DEFINE r == [path |-> path, mpu |-> u, st |-> "uploading", age |-> 0]
             new == [req[p] EXCEPT !.pc = "i_store", !.seen = r]
  <2>3. r \in Row /\ r.mpu = u /\ r.st = "uploading"
    BY <1>2, <2>2 DEF Row
  <2>4. r # Absent
    BY <2>3, SetAssumption DEF Row
  <2>5. req' = [req EXCEPT ![p] = new]
    BY <2>1
  <2> HIDE DEF r
  <2>6. /\ new \in Operation /\ new.pc = "i_store" /\ new.seen = r /\ new.id = u /\ new.write = NoWrite /\ new.todo = {}
    BY <1>1, <1>2, <2>3 DEF Operation, Location
  <2>7. req'[p] = new /\ req' \in [Process -> Operation] /\ \A q \in Process \ {p} : req'[q] = req[q]
    BY <1>1, <2>5, <2>6 DEF TypeOK
  <2> HIDE DEF new
  <2>8. slots' \in Key
    <3>1. 0 \in Nat
      OBVIOUS
    <3> QED
      BY <1>1, <1>3, <3>1, Counters DEF TypeOK
  <2>9. TypeOK'
    BY <1>1, <1>3, <2>7, <2>8 DEF TypeOK
  <2>10. RequestOK(p)'
    BY <1>1, <1>2, <2>3, <2>4, <2>6, <2>7, IdleForm DEF RequestOK, OpOK, Starting
  <2>11. TakesUp(p)
    <3>1. Trying(p)
      BY <1>1 DEF Trying, Starting, At
    <3>2. ~ New(p)'
      BY <2>6, <2>7 DEF New, At
    <3>3. \A m \in Attempt : Knows(p, m)' => m = u
      BY <2>3, <2>6, <2>7, IdleForm DEF Knows
    <3>4. \A m \in Attempt : Knows(p, m)' => mpu[m] = "none"
      BY <1>2, <3>3
    <3> QED
      BY <1>1, <1>2, <2>6, <2>7, <3>1, <3>2, <3>4 DEF TakesUp
  <2> QED
    BY <1>1, <2>7, <2>9, <2>10, <2>11, Light
<1>4. CASE Goto(p, "i_refund") /\ slots' \in {slots, Acquired(slots)} /\ UNCHANGED userLock
  <2>1. /\ req' \in [Process -> Operation] /\ \A q \in Process \ {p} : req'[q] = req[q]
        /\ req'[p].pc = "i_refund" /\ req'[p].op = req[p].op /\ req'[p].id = u /\ req'[p].seen = req[p].seen
        /\ req'[p].write = req[p].write /\ req'[p].todo = req[p].todo
    BY <1>1, <1>4, GotoForm DEF Location
  <2>2. TypeOK'
    <3>1. 0 \in Nat
      OBVIOUS
    <3>2. slots' \in Key
      BY <1>1, <1>4, <3>1, Counters DEF TypeOK
    <3> QED
      BY <1>1, <1>4, <2>1, <3>2 DEF TypeOK
  <2>3. RequestOK(p)'
    BY <1>1, <1>2, <2>1, IdleForm DEF RequestOK, OpOK, Starting
  <2>4. TakesUp(p)
    BY <2>1 DEF TakesUp, Trying, Starting, New, Knows, At
  <2> QED
    BY <1>1, <2>1, <2>2, <2>3, <2>4, Light
<1>5. CASE InitiateThrows(p) /\ UNCHANGED slots
  <2>1. req' \in [Process -> Operation] /\ req'[p] = Idle /\ \A q \in Process \ {p} : req'[q] = req[q]
    BY <1>1, <1>5, EndsForm DEF InitiateThrows
  <2>2. TypeOK'
    BY <1>1, <1>5, <2>1 DEF TypeOK, InitiateThrows
  <2> QED
    BY <1>1, <2>1, <2>2, Finishes
<1> QED
  BY <1>3, <1>4, <1>5 DEF AcquireSlot

LEMMA StoreKeeps ==
  ASSUME Inv, NEW p \in Process, Store(p)
  PROVE  Inv'
<1> DEFINE r == req[p].seen
           u == req[p].id
           w == Upsert(r)
           new == [req[p] EXCEPT !.pc = "commit", !.write = w]
<1>1. /\ TypeOK /\ RowsOK /\ UNCHANGED <<row, objects, slots, reserved, unrecorded, quotaLock, fileLock>> /\ At(p, "i_store")
      /\ RequestOK(p) /\ req[p] \in Operation /\ userLock' = None /\ PathFree(p, r.path)
      /\ mpu' = [mpu EXCEPT ![r.mpu] = "open"] /\ req' = [req EXCEPT ![p] = new]
  BY DEF Inv, Store, redis, TypeOK
<1>2. /\ u \in Attempt /\ mpu[u] = "none" /\ req[p].todo = {} /\ req[p].write = NoWrite
      /\ r # Absent /\ r \in Row /\ r.mpu = u /\ r.st = "uploading" /\ r.path \in Attempt
  BY <1>1, Rows DEF RequestOK, Starting, At
<1>3. \A id \in Attempt : row[id] # Absent => row[id] \in Row /\ mpu[id] # "none" /\ mpu[row[id].mpu] # "none" /\ id # u /\ row[id].mpu # u
  BY <1>1, <1>2 DEF RowsOK, RecordOK, Present, TypeOK
<1>4. /\ w.row = r /\ w.id \in Attempt /\ w \in Write
      /\ w.id = u \/ (row[w.id] # Absent /\ row[w.id].path = r.path)
  <2>1. w = [id |-> IF RecordAt(r.path) = {} THEN r.mpu ELSE CHOOSE id \in RecordAt(r.path) : TRUE, row |-> r]
    BY DEF Upsert
  <2>2. CASE RecordAt(r.path) = {}
    BY <1>2, <2>1, <2>2 DEF Write
  <2>3. CASE RecordAt(r.path) # {}
    <3> DEFINE c == CHOOSE id \in RecordAt(r.path) : TRUE
    <3>1. c \in RecordAt(r.path)
      BY <2>3
    <3>2. c \in Attempt /\ row[c] # Absent /\ row[c].path = r.path
      BY <3>1 DEF RecordAt, Present
    <3>3. w = [id |-> c, row |-> r]
      BY <2>1, <2>3
    <3> HIDE DEF c
    <3> QED
      BY <1>2, <3>2, <3>3 DEF Write
  <2> QED
    BY <2>2, <2>3
<1>5. \A q \in Process \ {p} : req[q].write.id # w.id
  <2> TAKE q \in Process \ {p}
  <2>1. Apart(q, p) /\ RequestOK(q) /\ req[q].write \in Write
    BY <1>1, Rows DEF Inv
  <2>2. SUFFICES ASSUME req[q].write.id = w.id PROVE FALSE
    OBVIOUS
  <2>3. w.id # None
    BY <1>4, SetAssumption
  <2>4. CASE row[w.id] # Absent /\ row[w.id].path = r.path
    <3> QED
      BY <1>1, <2>2, <2>3, <2>4 DEF PathFree, Present
  <2>5. CASE row[w.id] = Absent
    <3>1. New(q) /\ w.id = u
      BY <1>4, <2>1, <2>2, <2>3, <2>5 DEF RequestOK, Present
    <3>2. req[q].id = u /\ mpu[u] = "open"
      BY <2>2, <3>1 DEF New
    <3> QED
      BY <1>2, <3>2
  <2> QED
    BY <1>3, <1>4, <2>4, <2>5
<1> HIDE DEF w
<1>6. /\ new \in Operation /\ new.pc = "commit" /\ new.op = req[p].op /\ new.id = u /\ new.seen = r /\ new.write = w /\ new.todo = {}
  BY <1>1, <1>2, <1>4 DEF Operation, Location
<1>7. req'[p] = new /\ req' \in [Process -> Operation] /\ \A q \in Process \ {p} : req'[q] = req[q]
  BY <1>1, <1>6 DEF TypeOK
<1> HIDE DEF new
<1>8. TypeOK'
  BY <1>1, <1>2, <1>7 DEF TypeOK
<1>9. mpu'[u] = "open" /\ \A m \in Attempt \ {u} : mpu'[m] = mpu[m]
  BY <1>1, <1>2 DEF TypeOK
<1>10. RowsOK'
  BY <1>1, <1>2, <1>3, <1>9, Rows DEF RowsOK, RecordOK, Present, TypeOK
<1>11. w.id = u => New(p)'
  BY <1>1, <1>2, <1>3, <1>4, <1>6, <1>7, <1>9 DEF New, At, Present
<1>12. w.id # u => row'[w.id] # Absent
  BY <1>1, <1>4
<1>13. RequestOK(p)'
  <2>1. /\ req'[p].pc = "commit" /\ req'[p].seen = r /\ req'[p].todo = {} /\ req'[p].write = w /\ w.row = r
        /\ mpu'[r.mpu] # "none" /\ r.st # "uploaded" /\ r # Absent /\ w.id # None
    BY <1>2, <1>4, <1>6, <1>7, <1>9, SetAssumption
  <2>2. row'[w.id] # Absent \/ New(p)'
    BY <1>11, <1>12
  <2> HIDE DEF r
  <2> QED
    BY <2>1, <2>2 DEF RequestOK, OpOK, Starting, RecordOK, Present
<1>14. Knows(p, u)
  BY <1>2 DEF Knows
<1>15. Onwards(p)
  BY <1>1, <1>2, <1>3, <1>7, <1>9, <1>14 DEF Onwards
<1>16. \A q \in Process \ {p} : ~ Knows(q, u)
  <2> TAKE q \in Process \ {p}
  <2>1. Apart(p, q) /\ Trying(p)
    BY <1>1 DEF Inv, Trying, Starting, At
  <2>2. Knows(q, u) => Trying(q) /\ req[q].id = u
    BY <1>2, KnownIsOpened
  <2> QED
    BY <2>1, <2>2 DEF Apart
<1>17. TakesUp(p)
  <2>1. \A m \in Attempt : Knows(p, m)' => m = u
    BY <1>2, <1>4, <1>6, <1>7 DEF Knows
  <2>2. ~ Trying(p)'
    BY <1>6, <1>7 DEF Trying, Starting, At
  <2> QED
    BY <1>5, <1>6, <1>7, <1>2, <1>16, <2>1, <2>2 DEF TakesUp
<1> QED
  BY <1>8, <1>10, <1>13, <1>15, <1>17, Keeper

LEMMA StoreFailsKeeps ==
  ASSUME Inv, NEW p \in Process, StoreFails(p)
  PROVE  Inv'
<1> DEFINE u == req[p].id
<1>1. /\ TypeOK /\ RowsOK /\ UNCHANGED <<row, objects, slots, reserved, unrecorded, userLock, quotaLock, fileLock>> /\ At(p, "i_store")
      /\ RequestOK(p) /\ mpu' \in {mpu, [mpu EXCEPT ![u] = "open"]} /\ Goto(p, "i_undo")
  BY DEF Inv, StoreFails, redis, locks
<1>2. /\ u \in Attempt /\ mpu[u] = "none" /\ req[p].todo = {} /\ req[p].write = NoWrite
      /\ req[p].seen # Absent /\ req[p].seen.mpu = u /\ req[p].seen.st = "uploading"
  BY <1>1 DEF RequestOK, Starting, At
<1>3. /\ req' \in [Process -> Operation] /\ \A q \in Process \ {p} : req'[q] = req[q]
      /\ req'[p].pc = "i_undo" /\ req'[p].op = req[p].op /\ req'[p].id = u /\ req'[p].seen = req[p].seen
      /\ req'[p].write = NoWrite /\ req'[p].todo = {}
  BY <1>1, <1>2, GotoForm DEF Location
<1>4. TypeOK'
  BY <1>1, <1>3 DEF TypeOK
<1>5. \A m \in Attempt : mpu'[m] = mpu[m] \/ (mpu'[m] = "open" /\ m = u)
  BY <1>1, <1>2 DEF TypeOK
<1>6. RowsOK'
  BY <1>1, <1>5, Rows DEF RowsOK, RecordOK, Present, TypeOK
<1>7. RequestOK(p)'
  BY <1>2, <1>3, IdleForm DEF RequestOK, OpOK, Starting
<1>8. Knows(p, u) /\ Trying(p)
  BY <1>1, <1>2 DEF Knows, Trying, Starting, At
<1>9. Onwards(p)
  BY <1>1, <1>3, <1>5, <1>8 DEF Onwards
<1>10. TakesUp(p)
  <2>1. \A m \in Attempt : Knows(p, m)' => m = u
    BY <1>2, <1>3, IdleForm DEF Knows
  <2> QED
    BY <1>2, <1>3, <1>8, <2>1, IdleForm DEF TakesUp, New, At
<1> QED
  BY <1>4, <1>6, <1>7, <1>9, <1>10, Keeper

LEMMA CommitKeeps ==
  ASSUME Inv, NEW p \in Process, Commit(p)
  PROVE  Inv'
<1> DEFINE w == req[p].write
<1>1. /\ TypeOK /\ RowsOK /\ UNCHANGED <<mpu, objects, slots, reserved, unrecorded, userLock, quotaLock, fileLock>> /\ At(p, "commit")
      /\ RequestOK(p) /\ Ends(p)
      /\ row' = IF req[p].tx = "open" THEN [row EXCEPT ![w.id] = w.row] ELSE row
  BY DEF Inv, Commit, redis, store, locks
<1>2. req' \in [Process -> Operation] /\ req'[p] = Idle /\ \A q \in Process \ {p} : req'[q] = req[q]
  BY <1>1, EndsForm
<1>3. CASE req[p].tx # "open"
  <2>1. row' = row
    BY <1>1, <1>3
  <2>2. TypeOK'
    BY <1>1, <1>2, <2>1 DEF TypeOK
  <2> QED
    BY <1>1, <1>2, <2>1, <2>2, Finishes
<1>4. CASE req[p].tx = "open"
  <2>1. /\ w.row # Absent /\ w.row \in Row /\ w.id \in Attempt /\ RecordOK(w.row) /\ (Present(w.id) \/ New(p))
    BY <1>1, <1>4, Rows DEF RequestOK, At
  <2>2. row' = [row EXCEPT ![w.id] = w.row]
    BY <1>1, <1>4
  <2>3. row'[w.id] = w.row /\ \A id \in Attempt \ {w.id} : row'[id] = row[id]
    BY <1>1, <2>1, <2>2 DEF TypeOK
  <2>4. TypeOK'
    BY <1>1, <1>2, <2>1, <2>2 DEF TypeOK
  <2>5. mpu[w.id] # "none"
    BY <1>1, <2>1 DEF RowsOK, Present, New
  <2>6. RowsOK'
    BY <1>1, <2>1, <2>3, <2>5 DEF RowsOK, RecordOK, Present
  <2>7. Knows(p, w.row.mpu)
    BY <2>1 DEF Knows
  <2>8. Onwards(p)
    BY <1>1, <1>2, <2>1, <2>3, <2>7 DEF Onwards
  <2>9. RequestOK(p)' /\ TakesUp(p)
    <3>1. RequestOK(p)'
      BY <1>2, IdleForm DEF RequestOK, OpOK, Starting
    <3> QED
      BY <1>2, <3>1, IdleForm DEF TakesUp, Knows, New, Trying, Starting, At
  <2> QED
    BY <2>4, <2>6, <2>8, <2>9, Keeper
<1> QED
  BY <1>3, <1>4

-----------------------------------------------------------------------------
(* Steps that take up records.                                              *)

\* p takes up committed records, and keeps what it has.
LEMMA Takes ==
  ASSUME Inv, NEW p \in Process, TypeOK', UNCHANGED <<row, mpu, objects>>,
         \A q \in Process \ {p} : req'[q] = req[q], OpOK(p)',
         req[p].pc \notin {"i_store", "i_undo", "commit"},
         req'[p].pc \in {"c_store", "a_delete", "h_update", "next"},
         req'[p].seen \in {Absent} \cup {row[id] : id \in Attempt},
         req'[p].pc # "next" => req'[p].seen # Absent /\ req'[p].id \in Attempt,
         req'[p].pc = "next" => req'[p].write = NoWrite,
         req'[p].write \in {req[p].write, NoWrite},
         \A t \in req'[p].todo : t \in req[p].todo \/ \E id \in Attempt : Present(id) /\ t.row = row[id]
  PROVE  Inv'
<1>1. RequestOK(p) /\ ~ New(p) /\ TypeOK /\ RowsOK
  BY DEF Inv, New, At
<1>2. \A id \in Attempt : Present(id) => RecordOK(row[id])
  BY <1>1 DEF RowsOK
<1>3. req'[p].seen # Absent => RecordOK(req'[p].seen)
  BY <1>2 DEF Present
<1>4. \A t \in req'[p].todo : RecordOK(t.row)
  BY <1>1, <1>2 DEF RequestOK
<1>5. RequestOK(p)'
  BY <1>1, <1>3, <1>4, IdleForm DEF RequestOK, Starting, RecordOK, Present
<1>6. TakesUp(p)
  <2>1. ~ Trying(p)' /\ ~ New(p)'
    BY DEF Trying, Starting, At, New
  <2>2. ASSUME NEW m \in Attempt, Knows(p, m)'
        PROVE  Knows(p, m) \/ \E id \in Attempt : Present(id) /\ row[id].mpu = m
    BY <2>2, IdleForm DEF Knows, Present
  <2>3. req'[p].write.id \in {None, req[p].write.id}
    BY IdleForm
  <2> QED
    BY <2>1, <2>2, <2>3 DEF TakesUp
<1> QED
  BY <1>5, <1>6, Light

LEMMA BeginCompleteKeeps ==
  ASSUME Inv, NEW p \in Request, NEW id \in Attempt, BeginComplete(p, id)
  PROVE  Inv'
<1> DEFINE new == [Idle EXCEPT !.pc = "c_store", !.op = "complete", !.id = id, !.seen = row[id], !.tx = "open"]
<1>1. /\ TypeOK /\ p \in Process /\ UNCHANGED <<row, mpu, objects, slots, reserved, unrecorded, userLock, quotaLock>>
      /\ fileLock' = [fileLock EXCEPT ![id] = p] /\ req' = [req EXCEPT ![p] = new]
      /\ Present(id) /\ row[id] \in Row /\ At(p, "idle") /\ "complete" \in Ops
  BY DEF Inv, TypeOK, BeginComplete, Calls, Uploading, Present, store, redis, Process
<1>2. /\ new \in Operation /\ new.pc = "c_store" /\ new.op = "complete" /\ new.id = id
      /\ new.seen = row[id] /\ new.write = NoWrite /\ new.todo = {}
  BY <1>1, IdleForm DEF Operation, Location
<1>3. req'[p] = new /\ req' \in [Process -> Operation] /\ \A q \in Process \ {p} : req'[q] = req[q]
  BY <1>1, <1>2 DEF TypeOK
<1> HIDE DEF new
<1>4. TypeOK'
  BY <1>1, <1>3 DEF TypeOK
<1>5. OpOK(p)'
  BY <1>2, <1>3 DEF OpOK
<1> QED
  BY <1>1, <1>2, <1>3, <1>4, <1>5, Takes DEF At, Present

LEMMA BeginAbortKeeps ==
  ASSUME Inv, NEW p \in Request, NEW id \in Attempt, BeginAbort(p, id)
  PROVE  Inv'
<1> DEFINE new == [Idle EXCEPT !.pc = "a_delete", !.op = "abort", !.id = id, !.seen = row[id]]
<1>1. /\ TypeOK /\ p \in Process /\ UNCHANGED <<row, mpu, objects, slots, reserved, unrecorded, userLock, quotaLock>>
      /\ fileLock' = [fileLock EXCEPT ![id] = p] /\ req' = [req EXCEPT ![p] = new]
      /\ Present(id) /\ row[id] \in Row /\ At(p, "idle") /\ "abort" \in Ops
  BY DEF Inv, TypeOK, BeginAbort, Calls, Uploading, Present, store, redis, Process
<1>2. /\ new \in Operation /\ new.pc = "a_delete" /\ new.op = "abort" /\ new.id = id
      /\ new.seen = row[id] /\ new.write = NoWrite /\ new.todo = {}
  BY <1>1, IdleForm DEF Operation, Location
<1>3. req'[p] = new /\ req' \in [Process -> Operation] /\ \A q \in Process \ {p} : req'[q] = req[q]
  BY <1>1, <1>2 DEF TypeOK
<1> HIDE DEF new
<1>4. TypeOK'
  BY <1>1, <1>3 DEF TypeOK
<1>5. OpOK(p)'
  BY <1>2, <1>3 DEF OpOK
<1> QED
  BY <1>1, <1>2, <1>3, <1>4, <1>5, Takes DEF At, Present

LEMMA BeginHeartbeatKeeps ==
  ASSUME Inv, NEW p \in Request, NEW id \in Attempt, BeginHeartbeat(p, id)
  PROVE  Inv'
<1> DEFINE new == [Idle EXCEPT !.pc = "h_update", !.op = "heartbeat", !.id = id, !.seen = row[id]]
<1>1. /\ TypeOK /\ p \in Process /\ UNCHANGED <<row, mpu, objects, slots, reserved, unrecorded, userLock, quotaLock, fileLock>>
      /\ req' = [req EXCEPT ![p] = new]
      /\ Present(id) /\ row[id] \in Row /\ At(p, "idle") /\ "heartbeat" \in Ops
  BY DEF Inv, TypeOK, BeginHeartbeat, Calls, Uploading, Present, store, redis, locks, Process
<1>2. /\ new \in Operation /\ new.pc = "h_update" /\ new.id = id
      /\ new.seen = row[id] /\ new.write = NoWrite /\ new.todo = {}
  BY <1>1, IdleForm DEF Operation, Location
<1>3. req'[p] = new /\ req' \in [Process -> Operation] /\ \A q \in Process \ {p} : req'[q] = req[q]
  BY <1>1, <1>2 DEF TypeOK
<1> HIDE DEF new
<1>4. TypeOK'
  BY <1>1, <1>3 DEF TypeOK
<1>5. OpOK(p)'
  BY <1>2, <1>3 DEF OpOK
<1> QED
  BY <1>1, <1>2, <1>3, <1>4, <1>5, Takes DEF At, Present

LEMMA ListedForm ==
  ASSUME TypeOK, NEW ids \in SUBSET Attempt, \A id \in ids : Present(id)
  PROVE  /\ Listed(ids) \in SUBSET [id : Attempt, row : Row]
         /\ \A t \in Listed(ids) : t.id \in ids /\ t.row = row[t.id]
BY DEF Listed, TypeOK, Present

LEMMA BeginClearKeeps ==
  ASSUME Inv, NEW p \in Request, BeginClear(p)
  PROVE  Inv'
<1> DEFINE new == [Idle EXCEPT !.pc = "next", !.op = "clear", !.todo = Listed(Active)]
<1>1. /\ TypeOK /\ p \in Process /\ UNCHANGED <<row, mpu, objects, slots, reserved, unrecorded, userLock, quotaLock, fileLock>>
      /\ req' = [req EXCEPT ![p] = new] /\ At(p, "idle") /\ "clear" \in Ops
  BY DEF Inv, TypeOK, BeginClear, Calls, store, redis, locks, Process
<1>2. Active \in SUBSET Attempt /\ \A id \in Active : Present(id)
  BY DEF Active, Uploading
<1>3. /\ Listed(Active) \in SUBSET [id : Attempt, row : Row]
      /\ \A t \in Listed(Active) : \E id \in Attempt : Present(id) /\ t.row = row[id]
  BY <1>1, <1>2, ListedForm
<1>4. /\ new \in Operation /\ new.pc = "next" /\ new.op = "clear" /\ new.seen = Absent
      /\ new.write = NoWrite /\ new.todo = Listed(Active)
  BY <1>1, <1>3, IdleForm DEF Operation, Location
<1>5. req'[p] = new /\ req' \in [Process -> Operation] /\ \A q \in Process \ {p} : req'[q] = req[q]
  BY <1>1, <1>4 DEF TypeOK
<1> HIDE DEF new
<1>6. TypeOK'
  BY <1>1, <1>5 DEF TypeOK
<1>7. OpOK(p)'
  BY <1>4, <1>5 DEF OpOK
<1> QED
  BY <1>1, <1>3, <1>4, <1>5, <1>6, <1>7, Takes DEF At

LEMMA BeginCleanupKeeps ==
  ASSUME Inv, BeginCleanup
  PROVE  Inv'
<1> DEFINE stale == {id \in Active : row[id].age = 2}
           new == [Idle EXCEPT !.pc = "next", !.op = "cleanup", !.todo = Listed(stale)]
<1>1. /\ TypeOK /\ Cleaner \in Process /\ UNCHANGED <<row, mpu, objects, slots, reserved, unrecorded, userLock, quotaLock, fileLock>>
      /\ req' = [req EXCEPT ![Cleaner] = new] /\ At(Cleaner, "idle")
  BY DEF Inv, TypeOK, BeginCleanup, store, redis, locks, Process
<1>2. stale \in SUBSET Attempt /\ \A id \in stale : Present(id)
  BY DEF Active, Uploading
<1>3. /\ Listed(stale) \in SUBSET [id : Attempt, row : Row]
      /\ \A t \in Listed(stale) : \E id \in Attempt : Present(id) /\ t.row = row[id]
  BY <1>1, <1>2, ListedForm
<1> HIDE DEF stale
<1>4. /\ new \in Operation /\ new.pc = "next" /\ new.op = "cleanup" /\ new.seen = Absent
      /\ new.write = NoWrite /\ new.todo = Listed(stale)
  BY <1>1, <1>3, IdleForm DEF Operation, Location
<1>5. req'[Cleaner] = new /\ req' \in [Process -> Operation] /\ \A q \in Process \ {Cleaner} : req'[q] = req[q]
  BY <1>1, <1>4 DEF TypeOK
<1> HIDE DEF new
<1>6. TypeOK'
  BY <1>1, <1>5 DEF TypeOK
<1>7. OpOK(Cleaner)'
  BY <1>4, <1>5 DEF OpOK
<1> QED
  BY <1>1, <1>3, <1>4, <1>5, <1>6, <1>7, Takes DEF At

LEMMA ClearNextKeeps ==
  ASSUME Inv, NEW p \in Process, NEW t \in req[p].todo, ClearNext(p, t)
  PROVE  Inv'
<1>1. /\ TypeOK /\ UNCHANGED <<row, mpu, objects, slots, reserved, unrecorded, userLock, quotaLock>>
      /\ req[p].pc = "next" /\ req[p].op = "clear" /\ req[p] \in Operation /\ t.id \in Attempt
      /\ req[p].write = NoWrite
  BY Rows DEF Inv, TypeOK, RequestOK, ClearNext, At, store, redis
<1>2. CASE /\ Uploading(t.id)
           /\ fileLock' = [fileLock EXCEPT ![t.id] = p]
           /\ req' = [req EXCEPT ![p].pc = "a_delete", ![p].id = t.id, ![p].seen = row[t.id]]
  <2> DEFINE new == [req[p] EXCEPT !.pc = "a_delete", !.id = t.id, !.seen = row[t.id]]
  <2>1. Present(t.id) /\ row[t.id] \in Row
    BY <1>1, <1>2 DEF Uploading, Present, TypeOK
  <2>2. /\ new \in Operation /\ new.pc = "a_delete" /\ new.op = "clear" /\ new.id = t.id
        /\ new.seen = row[t.id] /\ new.write = req[p].write /\ new.todo = req[p].todo
    BY <1>1, <2>1 DEF Operation, Location
  <2>3. req' = [req EXCEPT ![p] = new]
    BY <1>2
  <2> HIDE DEF new
  <2>4. req'[p] = new /\ req' \in [Process -> Operation] /\ \A q \in Process \ {p} : req'[q] = req[q]
    BY <1>1, <2>2, <2>3 DEF TypeOK
  <2>5. TypeOK'
    BY <1>1, <1>2, <2>4 DEF TypeOK
  <2>6. OpOK(p)'
    BY <2>2, <2>4 DEF OpOK
  <2> QED
    BY <1>1, <2>1, <2>2, <2>4, <2>5, <2>6, Takes DEF Present
<1>3. ASSUME UNCHANGED fileLock, NEW f \in BOOLEAN,
             req' = [req EXCEPT ![p].todo = @ \ {t}, ![p].failed = f]
      PROVE  Inv'
  <2> DEFINE new == [req[p] EXCEPT !.todo = req[p].todo \ {t}, !.failed = f]
  <2>1. /\ new \in Operation /\ new.pc = "next" /\ new.op = "clear"
        /\ new.seen = req[p].seen /\ new.write = req[p].write /\ new.todo \subseteq req[p].todo
    BY <1>1 DEF Operation, Location
  <2>2. req' = [req EXCEPT ![p] = new]
    BY <1>3
  <2> HIDE DEF new
  <2>3. req'[p] = new /\ req' \in [Process -> Operation] /\ \A q \in Process \ {p} : req'[q] = req[q]
    BY <1>1, <2>1, <2>2 DEF TypeOK
  <2>4. TypeOK'
    BY <1>1, <1>3, <2>3 DEF TypeOK
  <2>5. OpOK(p)'
    BY <2>1, <2>3 DEF OpOK
  <2> QED
    BY <1>1, <2>1, <2>3, <2>4, <2>5, Relaxes
<1>4. req[p].failed \in BOOLEAN
  BY <1>1 DEF Operation
<1> QED
  BY <1>2, <1>3, <1>4 DEF ClearNext

LEMMA ClearSlotsKeeps ==
  ASSUME Inv, NEW p \in Process, ClearSlots(p)
  PROVE  Inv'
<1>1. /\ TypeOK /\ UNCHANGED <<row, mpu, objects, reserved, unrecorded, userLock, quotaLock, fileLock>>
      /\ Ends(p) /\ slots' \in {slots, Missing}
  BY DEF Inv, ClearSlots, store, locks, Outcomes
<1>2. req' \in [Process -> Operation] /\ req'[p] = Idle /\ \A q \in Process \ {p} : req'[q] = req[q]
  BY <1>1, EndsForm
<1>3. slots' \in Key
  <2>1. 0 \in Nat
    OBVIOUS
  <2> QED
    BY <1>1, <2>1, Counters DEF TypeOK
<1>4. TypeOK'
  BY <1>1, <1>2, <1>3 DEF TypeOK
<1> QED
  BY <1>1, <1>2, <1>4, Finishes

LEMMA EndCleanupKeeps ==
  ASSUME Inv, EndCleanup
  PROVE  Inv'
<1>1. /\ TypeOK /\ UNCHANGED <<row, mpu, objects, slots, reserved, unrecorded, userLock, quotaLock, fileLock>>
      /\ Ends(Cleaner) /\ Cleaner \in Process
  BY DEF Inv, EndCleanup, store, locks, redis, Process
<1>2. req' \in [Process -> Operation] /\ req'[Cleaner] = Idle /\ \A q \in Process \ {Cleaner} : req'[q] = req[q]
  BY <1>1, EndsForm
<1>3. TypeOK'
  BY <1>1, <1>2 DEF TypeOK
<1> QED
  BY <1>1, <1>2, <1>3, Finishes

-----------------------------------------------------------------------------
(* The steps of a completion.                                               *)

LEMMA CompleteInStoreKeeps ==
  ASSUME Inv, NEW p \in Process, CompleteInStore(p)
  PROVE  Inv'
<1> DEFINE s == req[p].seen
<1>1. /\ TypeOK /\ RowsOK /\ UNCHANGED <<row, slots, reserved, unrecorded, userLock, quotaLock, fileLock>> /\ At(p, "c_store")
      /\ RequestOK(p) /\ ~ New(p) /\ mpu' = [mpu EXCEPT ![s.mpu] = "completed"] /\ objects' = objects \cup {s.path}
  BY DEF Inv, CompleteInStore, redis, locks, New, At
<1>2. /\ s # Absent /\ s \in Row /\ s.mpu \in Attempt /\ s.path \in Attempt /\ req[p].id \in Attempt /\ req[p].op = "complete"
  BY <1>1, Rows DEF RequestOK, OpOK, At
<1>3. /\ req' \in [Process -> Operation] /\ \A q \in Process \ {p} : req'[q] = req[q]
      /\ req'[p].pc \in {"c_update", "c_catch"} /\ req'[p].op = req[p].op /\ req'[p].id = req[p].id /\ req'[p].seen = s
      /\ req'[p].write = req[p].write /\ req'[p].todo = req[p].todo
  <2>1. PICK pc \in {"c_update", "c_catch"} : Goto(p, pc)
    BY DEF CompleteInStore
  <2> QED
    BY <1>1, <2>1, GotoForm DEF Location
<1>4. TypeOK'
  BY <1>1, <1>2, <1>3 DEF TypeOK
<1>5. \A m \in Attempt : mpu'[m] = mpu[m] \/ (mpu'[m] = "completed" /\ m = s.mpu)
  BY <1>1, <1>2 DEF TypeOK
<1>6. \A r \in Row : RecordOK(r) => mpu'[r.mpu] # "none" /\ (r.st = "uploaded" => r.path \in objects')
  BY <1>1, <1>5, Rows DEF RecordOK
<1>7. RowsOK'
  BY <1>1, <1>5, <1>6 DEF RowsOK, RecordOK, Present, TypeOK
<1>8. RequestOK(p)'
  <2>1. s.path \in objects'
    BY <1>1
  <2>2. req[p].write.id # None => Present(req[p].write.id)
    BY <1>1 DEF RequestOK
  <2>3. req[p].write.row \in Row \cup {Absent} /\ \A t \in req[p].todo : t.row \in Row
    BY <1>1, Rows
  <2> HIDE DEF s
  <2> QED
    BY <1>1, <1>2, <1>3, <1>6, <2>1, <2>2, <2>3 DEF s, RequestOK, OpOK, Starting, At, RecordOK, Present
<1>9. Knows(p, s.mpu)
  BY <1>2 DEF Knows
<1>10. Onwards(p)
  BY <1>1, <1>3, <1>5, <1>9 DEF Onwards
<1>11. TakesUp(p)
  BY <1>3 DEF TakesUp, Trying, Starting, At, New, Knows
<1> QED
  BY <1>4, <1>7, <1>8, <1>10, <1>11, Keeper

LEMMA CompleteInStoreFailsKeeps ==
  ASSUME Inv, NEW p \in Process, CompleteInStoreFails(p)
  PROVE  Inv'
<1> DEFINE s == req[p].seen
<1>1. /\ TypeOK /\ RowsOK /\ UNCHANGED <<row, objects, slots, reserved, unrecorded, userLock, quotaLock, fileLock>> /\ At(p, "c_store")
      /\ RequestOK(p) /\ ~ New(p) /\ mpu' \in {mpu, [mpu EXCEPT ![s.mpu] = "aborted"]} /\ Goto(p, "c_catch")
  BY DEF Inv, CompleteInStoreFails, redis, locks, New, At
<1>2. /\ s # Absent /\ s \in Row /\ s.mpu \in Attempt /\ req[p].id \in Attempt /\ req[p].op = "complete"
  BY <1>1, Rows DEF RequestOK, OpOK, At
<1>3. /\ req' \in [Process -> Operation] /\ \A q \in Process \ {p} : req'[q] = req[q]
      /\ req'[p].pc = "c_catch" /\ req'[p].op = req[p].op /\ req'[p].id = req[p].id /\ req'[p].seen = s
      /\ req'[p].write = req[p].write /\ req'[p].todo = req[p].todo
  BY <1>1, GotoForm DEF Location
<1>4. TypeOK'
  BY <1>1, <1>2, <1>3 DEF TypeOK
<1>5. \A m \in Attempt : mpu'[m] = mpu[m] \/ (mpu'[m] = "aborted" /\ m = s.mpu)
  BY <1>1, <1>2 DEF TypeOK
<1>6. \A r \in Row : RecordOK(r) => mpu'[r.mpu] # "none" /\ (r.st = "uploaded" => r.path \in objects')
  BY <1>1, <1>5, Rows DEF RecordOK
<1>7. RowsOK'
  BY <1>1, <1>5, <1>6 DEF RowsOK, RecordOK, Present, TypeOK
<1>8. RequestOK(p)'
  <2>2. req[p].write.id # None => Present(req[p].write.id)
    BY <1>1 DEF RequestOK
  <2>3. req[p].write.row \in Row \cup {Absent} /\ \A t \in req[p].todo : t.row \in Row
    BY <1>1, Rows
  <2> HIDE DEF s
  <2> QED
    BY <1>1, <1>2, <1>3, <1>6, <2>2, <2>3 DEF s, RequestOK, OpOK, Starting, At, RecordOK, Present
<1>9. Knows(p, s.mpu)
  BY <1>2 DEF Knows
<1>10. Onwards(p)
  BY <1>1, <1>3, <1>5, <1>9 DEF Onwards
<1>11. TakesUp(p)
  BY <1>3 DEF TakesUp, Trying, Starting, At, New, Knows
<1> QED
  BY <1>4, <1>7, <1>8, <1>10, <1>11, Keeper

LEMMA CompleteUpdateKeeps ==
  ASSUME Inv, NEW p \in Process, CompleteUpdate(p)
  PROVE  Inv'
<1> DEFINE r == req[p]
           done == [r.seen EXCEPT !.st = "uploaded", !.age = 0]
           w == [id |-> r.id, row |-> done]
           new == [r EXCEPT !.pc = "c_finalize", !.write = w]
<1>1. /\ TypeOK /\ UNCHANGED <<row, mpu, objects, slots, reserved, unrecorded, userLock, quotaLock, fileLock>>
      /\ r.pc = "c_update" /\ r \in Operation /\ RequestOK(p)
  BY DEF Inv, TypeOK, CompleteUpdate, At, store, redis, locks
<1>2. /\ r.seen # Absent /\ r.seen \in Row /\ r.id \in Attempt /\ r.seen.path \in objects /\ RecordOK(r.seen) /\ r.op = "complete"
  BY <1>1, Rows DEF RequestOK, OpOK
<1>3. CASE r.tx = "open" /\ RowFree(p, r.id) /\ Present(r.id) /\ req' = [req EXCEPT ![p] = new]
  <2>1. done \in Row /\ done.mpu = r.seen.mpu /\ done.path = r.seen.path
    BY <1>2, Written
  <2>2. done # Absent
    BY <2>1, SetAssumption DEF Row
  <2> HIDE DEF done
  <2>3. w \in Write /\ w.id = r.id /\ w.row = done /\ w.id # None
    BY <1>2, <2>1, SetAssumption DEF Write
  <2> HIDE DEF w
  <2>4. /\ new \in Operation /\ new.pc = "c_finalize" /\ new.op = "complete" /\ new.id = r.id
        /\ new.seen = r.seen /\ new.write = w /\ new.todo = r.todo
    BY <1>1, <1>2, <2>3 DEF Operation, Location
  <2>5. req'[p] = new /\ req' \in [Process -> Operation] /\ \A q \in Process \ {p} : req'[q] = req[q]
    BY <1>1, <1>3, <2>4 DEF TypeOK
  <2> HIDE DEF new
  <2>6. TypeOK'
    BY <1>1, <2>5 DEF TypeOK
  <2>7. RecordOK(done)
    BY <1>2, <2>1 DEF RecordOK
  <2>8. RequestOK(p)'
    <3>1. /\ req'[p].pc = "c_finalize" /\ req'[p].op = "complete" /\ req'[p].id = r.id /\ req'[p].seen = r.seen /\ req'[p].write = w
          /\ req'[p].todo = r.todo
      BY <2>4, <2>5
    <3> QED
      BY <1>1, <1>2, <1>3, <2>2, <2>3, <2>7, <3>1 DEF RequestOK, OpOK, Starting, RecordOK, Present
  <2>9. TakesUp(p)
    <3>1. \A m \in Attempt : Knows(p, m)' => Knows(p, m)
      BY <1>2, <2>1, <2>3, <2>4, <2>5 DEF Knows
    <3>2. \A q \in Process \ {p} : req[q].write.id # w.id
      BY <1>3, <2>3 DEF RowFree
    <3> QED
      BY <2>4, <2>5, <3>1, <3>2 DEF TakesUp, Trying, Starting, At, New
  <2> QED
    BY <1>1, <2>5, <2>6, <2>8, <2>9, Light
<1>4. CASE Goto(p, "c_catch")
  <2>1. /\ req' \in [Process -> Operation] /\ \A q \in Process \ {p} : req'[q] = req[q]
        /\ req'[p].pc = "c_catch" /\ req'[p].op = r.op /\ req'[p].id = r.id /\ req'[p].seen = r.seen
        /\ req'[p].write = r.write /\ req'[p].todo = r.todo
    BY <1>1, <1>4, GotoForm DEF Location
  <2>2. TypeOK'
    BY <1>1, <2>1 DEF TypeOK
  <2>3. OpOK(p)'
    BY <1>2, <2>1 DEF OpOK
  <2> QED
    BY <1>1, <1>2, <2>1, <2>2, <2>3, Relaxes
<1> QED
  BY <1>3, <1>4 DEF CompleteUpdate

LEMMA FinalizeKeeps ==
  ASSUME Inv, NEW p \in Process, Finalize(p)
  PROVE  Inv'
<1>1. /\ TypeOK /\ UNCHANGED <<row, mpu, objects, slots, unrecorded, userLock, fileLock>> /\ quotaLock' = None
      /\ At(p, "c_finalize") /\ RequestOK(p) /\ ~ New(p) /\ Goto(p, "c_release")
      /\ reserved' \in {reserved, Decremented(reserved, Size[req[p].seen.mpu])}
  BY DEF Inv, Finalize, New, At, store, Outcomes
<1>2. /\ req' \in [Process -> Operation] /\ \A q \in Process \ {p} : req'[q] = req[q]
      /\ req'[p].pc = "c_release" /\ req'[p].op = req[p].op /\ req'[p].seen = req[p].seen /\ req'[p].tx = req[p].tx
      /\ req'[p].write = req[p].write /\ req'[p].todo = req[p].todo
  BY <1>1, GotoForm DEF Location
<1>3. reserved' \in Key
  <2>1. req[p].seen.mpu \in Attempt
    <3>1. req[p].seen # Absent
      BY <1>1 DEF RequestOK, At
    <3> QED
      BY <1>1, <3>1, Rows
  <2>2. Size[req[p].seen.mpu] \in Nat
    BY <2>1, LimitAssumption
  <2> QED
    BY <1>1, <2>2, Counters DEF TypeOK
<1>4. TypeOK'
  BY <1>1, <1>2, <1>3 DEF TypeOK
<1>5. RequestOK(p)'
  BY <1>1, <1>2 DEF RequestOK, OpOK, Starting, At, RecordOK, Present
<1>6. TakesUp(p)
  BY <1>2 DEF TakesUp, Trying, Starting, At, New, Knows
<1> QED
  BY <1>1, <1>2, <1>4, <1>5, <1>6, Light

LEMMA CompleteCatchKeeps ==
  ASSUME Inv, NEW p \in Process, CompleteCatch(p)
  PROVE  Inv'
<1> DEFINE r == req[p]
<1>1. /\ TypeOK /\ UNCHANGED <<row, mpu, objects, slots, reserved, unrecorded, userLock, quotaLock, fileLock>>
      /\ r.pc = "c_catch" /\ r \in Operation /\ RequestOK(p) /\ r.op = "complete" /\ r.id \in Attempt \cup {None}
  BY Rows DEF Inv, TypeOK, CompleteCatch, At, store, redis, locks, RequestOK, OpOK
<1>2. CASE Goto(p, "c_finally")
  <2>1. /\ req' \in [Process -> Operation] /\ \A q \in Process \ {p} : req'[q] = req[q]
        /\ req'[p].pc = "c_finally" /\ req'[p].op = r.op /\ req'[p].seen = r.seen
        /\ req'[p].write = r.write /\ req'[p].todo = r.todo
    BY <1>1, <1>2, GotoForm DEF Location
  <2>2. TypeOK'
    BY <1>1, <2>1 DEF TypeOK
  <2>3. OpOK(p)'
    BY <2>1 DEF OpOK
  <2> QED
    BY <1>1, <2>1, <2>2, <2>3, Relaxes
<1>3. CASE Uploading(r.id) /\ req' = [req EXCEPT ![p].pc = "a_delete", ![p].seen = row[r.id]]
  <2> DEFINE new == [r EXCEPT !.pc = "a_delete", !.seen = row[r.id]]
  <2>1. r.id \in Attempt /\ Present(r.id) /\ row[r.id] \in Row
    BY <1>1, <1>3, SMT DEF Uploading, Present, TypeOK, RequestOK
  <2>2. /\ new \in Operation /\ new.pc = "a_delete" /\ new.op = "complete" /\ new.id = r.id
        /\ new.seen = row[r.id] /\ new.write = r.write /\ new.todo = r.todo
    BY <1>1, <2>1 DEF Operation, Location
  <2>3. req' = [req EXCEPT ![p] = new]
    BY <1>3
  <2> HIDE DEF new
  <2>4. req'[p] = new /\ req' \in [Process -> Operation] /\ \A q \in Process \ {p} : req'[q] = req[q]
    BY <1>1, <2>2, <2>3 DEF TypeOK
  <2>5. TypeOK'
    BY <1>1, <2>4 DEF TypeOK
  <2>6. OpOK(p)'
    BY <2>2, <2>4 DEF OpOK
  <2> QED
    BY <1>1, <2>1, <2>2, <2>4, <2>5, <2>6, Takes DEF Present
<1> QED
  BY <1>2, <1>3 DEF CompleteCatch

LEMMA CompleteFinallyKeeps ==
  ASSUME Inv, NEW p \in Process, CompleteFinally(p)
  PROVE  Inv'
<1>1. /\ TypeOK /\ UNCHANGED <<row, mpu, objects, reserved, unrecorded, userLock, quotaLock>> /\ fileLock' = Unlocked(p)
      /\ slots' \in {slots, Released(slots)} /\ RequestOK(p)
  BY DEF Inv, CompleteFinally, store, Outcomes
<1>2. slots' \in Key /\ fileLock' \in [Attempt -> Process \cup {None, Dead}]
  <2>1. 0 \in Nat
    OBVIOUS
  <2> QED
    BY <1>1, <2>1, Counters, UnlockedForm DEF TypeOK
<1>3. CASE At(p, "c_release") /\ Goto(p, "commit")
  <2>1. /\ req' \in [Process -> Operation] /\ \A q \in Process \ {p} : req'[q] = req[q]
        /\ req'[p].pc = "commit" /\ req'[p].op = req[p].op /\ req'[p].seen = req[p].seen /\ req'[p].tx = req[p].tx
        /\ req'[p].write = req[p].write /\ req'[p].todo = req[p].todo
    BY <1>1, <1>3, GotoForm DEF Location
  <2>2. TypeOK'
    BY <1>1, <1>2, <2>1 DEF TypeOK
  <2>3. req[p].write.id # None => Present(req[p].write.id)
    BY <1>1, <1>3 DEF RequestOK, New, At
  <2>4. ~ New(p)'
    BY <1>1, <2>1, <2>3, SetAssumption DEF New, Present
  <2>5. RequestOK(p)'
    BY <1>1, <1>3, <2>1, <2>3 DEF RequestOK, OpOK, Starting, At, RecordOK, Present
  <2>6. TakesUp(p)
    BY <2>1, <2>4 DEF TakesUp, Trying, Starting, At, Knows
  <2> QED
    BY <1>1, <2>1, <2>2, <2>5, <2>6, Light
<1>4. CASE Ends(p)
  <2>1. req' \in [Process -> Operation] /\ req'[p] = Idle /\ \A q \in Process \ {p} : req'[q] = req[q]
    BY <1>1, <1>4, EndsForm
  <2>2. TypeOK'
    BY <1>1, <1>2, <2>1 DEF TypeOK
  <2> QED
    BY <1>1, <2>1, <2>2, Finishes
<1> QED
  BY <1>3, <1>4 DEF CompleteFinally

-----------------------------------------------------------------------------
(* The steps of an abort, a heartbeat and the cleanup worker.               *)

\* p aborts a session that it knows of and keeps what it has, or goes on to write down the deletion.
LEMMA AbortsSession ==
  ASSUME Inv, NEW p \in Process, NEW m \in Attempt, Knows(p, m), mpu[m] # "none",
         mpu' \in {mpu, [mpu EXCEPT ![m] = "aborted"]}, UNCHANGED <<row, objects>>,
         TypeOK', \A q \in Process \ {p} : req'[q] = req[q], RequestOK(p)', TakesUp(p)
  PROVE  Inv'
<1>1. TypeOK /\ RowsOK
  BY DEF Inv
<1>2. \A n \in Attempt : mpu'[n] = mpu[n] \/ (mpu'[n] = "aborted" /\ n = m)
  BY <1>1 DEF TypeOK
<1>3. RowsOK'
  BY <1>1, <1>2, Rows DEF RowsOK, RecordOK, Present, TypeOK
<1>4. Onwards(p)
  BY <1>2 DEF Onwards
<1> QED
  BY <1>3, <1>4, Keeper

LEMMA AbortDeleteKeeps ==
  ASSUME Inv, NEW p \in Process, AbortDelete(p)
  PROVE  Inv'
<1> DEFINE r == req[p]
           m == r.seen.mpu
           w == [id |-> r.id, row |-> Absent]
           new == [r EXCEPT !.pc = "a_commit", !.write = w]
<1>1. /\ TypeOK /\ RowsOK /\ RequestOK(p) /\ r \in Operation /\ r.pc = "a_delete" /\ RowFree(p, r.id)
      /\ UNCHANGED <<row, objects, slots, reserved, unrecorded, userLock, quotaLock>>
  BY DEF Inv, TypeOK, AbortDelete, At, redis
<1>2. /\ r.seen # Absent /\ r.seen \in Row /\ r.id \in Attempt /\ m \in Attempt /\ mpu[m] # "none" /\ RecordOK(r.seen)
      /\ r.op \in {"abort", "complete", "clear", "cleanup"}
  BY <1>1, Rows DEF RequestOK, OpOK, RecordOK
<1>3. Knows(p, m)
  BY <1>2 DEF Knows
<1>4. CASE /\ Present(r.id) /\ req' = [req EXCEPT ![p] = new] /\ UNCHANGED fileLock
           /\ mpu' \in {mpu, [mpu EXCEPT ![m] = "aborted"]}
  <2>1. w \in Write /\ w.id = r.id /\ w.row = Absent /\ w.id # None
    BY <1>2, SetAssumption DEF Write
  <2> HIDE DEF w
  <2>2. /\ new \in Operation /\ new.pc = "a_commit" /\ new.op = r.op /\ new.id = r.id
        /\ new.seen = r.seen /\ new.write = w /\ new.todo = r.todo
    BY <1>1, <2>1 DEF Operation, Location
  <2>3. req'[p] = new /\ req' \in [Process -> Operation] /\ \A q \in Process \ {p} : req'[q] = req[q]
    BY <1>1, <1>4, <2>2 DEF TypeOK
  <2> HIDE DEF new
  <2>4. TypeOK'
    BY <1>1, <1>2, <1>4, <2>3 DEF TypeOK
  <2>5. \A x \in Row : RecordOK(x) => mpu'[x.mpu] # "none" /\ (x.st = "uploaded" => x.path \in objects')
    BY <1>1, <1>2, <1>4, Rows DEF RecordOK, TypeOK
  <2>6. RequestOK(p)'
    <3>1. /\ req'[p].pc = "a_commit" /\ req'[p].op = r.op /\ req'[p].id = r.id /\ req'[p].seen = r.seen
          /\ req'[p].write = w /\ req'[p].todo = r.todo
      BY <2>2, <2>3
    <3>2. \A t \in r.todo : t.row \in Row
      BY <1>1, Rows
    <3> QED
      BY <1>1, <1>2, <1>4, <2>1, <2>5, <3>1, <3>2 DEF RequestOK, OpOK, Starting, RecordOK, Present
  <2>7. TakesUp(p)
    <3>1. \A n \in Attempt : Knows(p, n)' => Knows(p, n)
      BY <2>1, <2>2, <2>3 DEF Knows
    <3>2. \A q \in Process \ {p} : req[q].write.id # w.id
      BY <1>1, <2>1 DEF RowFree
    <3> QED
      BY <2>2, <2>3, <3>1, <3>2 DEF TakesUp, Trying, Starting, At, New
  <2> QED
    BY <1>1, <1>2, <1>3, <1>4, <2>3, <2>4, <2>6, <2>7, AbortsSession
<1>5. CASE AbortReturns(p, TRUE) /\ UNCHANGED mpu
  <2>1. /\ req' \in [Process -> Operation] /\ \A q \in Process \ {p} : req'[q] = req[q]
        /\ OpOK(p)' /\ req'[p].pc \in {"idle", "c_finally", "next"}
        /\ req'[p].seen \in {req[p].seen, Absent} /\ req'[p].write \in {req[p].write, NoWrite}
        /\ req'[p].todo \subseteq req[p].todo /\ fileLock' \in [Attempt -> Process \cup {None, Dead}]
        /\ (req'[p].pc = "next" => req'[p].write = NoWrite)
    BY <1>1, <1>2, <1>5, ReturnsForm
  <2>2. TypeOK'
    BY <1>1, <1>5, <2>1 DEF TypeOK
  <2> QED
    BY <1>1, <1>5, <2>1, <2>2, Relaxes
<1> QED
  BY <1>4, <1>5 DEF AbortDelete

LEMMA AbortCommitKeeps ==
  ASSUME Inv, NEW p \in Process, AbortCommit(p)
  PROVE  Inv'
<1> DEFINE r == req[p]
<1>1. /\ TypeOK /\ RowsOK /\ RequestOK(p) /\ r \in Operation /\ r.pc = "a_commit"
      /\ UNCHANGED <<mpu, objects, slots, reserved, unrecorded, userLock, quotaLock>>
  BY DEF Inv, TypeOK, AbortCommit, At, redis, store
<1>2. r.op \in {"abort", "complete", "clear", "cleanup"} /\ r.id \in Attempt /\ r.write.id = r.id /\ r.seen # Absent
  BY <1>1 DEF RequestOK, OpOK
<1>3. CASE /\ row' = [row EXCEPT ![r.id] = Absent] /\ UNCHANGED fileLock
           /\ req' = [req EXCEPT ![p].pc = "a_refund", ![p].write = NoWrite]
  <2> DEFINE new == [r EXCEPT !.pc = "a_refund", !.write = NoWrite]
  <2>1. /\ new \in Operation /\ new.pc = "a_refund" /\ new.op = r.op /\ new.id = r.id
        /\ new.seen = r.seen /\ new.write = NoWrite /\ new.todo = r.todo
    BY <1>1, IdleForm DEF Operation, Location
  <2>2. req' = [req EXCEPT ![p] = new]
    BY <1>3
  <2> HIDE DEF new
  <2>3. req'[p] = new /\ req' \in [Process -> Operation] /\ \A q \in Process \ {p} : req'[q] = req[q]
    BY <1>1, <2>1, <2>2 DEF TypeOK
  <2>4. row'[r.id] = Absent /\ \A id \in Attempt \ {r.id} : row'[id] = row[id]
    BY <1>1, <1>2, <1>3 DEF TypeOK
  <2>5. TypeOK'
    BY <1>1, <1>3, <2>3 DEF TypeOK
  <2>6. RowsOK'
    BY <1>1, <2>4 DEF RowsOK, RecordOK, Present
  <2>7. \A q \in Process \ {p} : req[q].write.id # r.id
    <3> TAKE q \in Process \ {p}
    <3>1. Apart(p, q)
      BY DEF Inv
    <3> QED
      BY <1>2, <3>1, SetAssumption DEF Apart
  <2>8. Onwards(p)
    BY <1>1, <1>2, <2>3, <2>4, <2>7 DEF Onwards
  <2>9. RequestOK(p)'
    BY <1>1, <1>2, <2>1, <2>3, IdleForm DEF RequestOK, OpOK, Starting, RecordOK
  <2>10. TakesUp(p)
    BY <2>1, <2>3, IdleForm DEF TakesUp, Trying, Starting, At, New, Knows
  <2> QED
    BY <2>5, <2>6, <2>8, <2>9, <2>10, Keeper
<1>4. CASE /\ r.op = "complete" /\ UNCHANGED row /\ UNCHANGED fileLock
           /\ req' = [req EXCEPT ![p].pc = "c_finally", ![p].write = NoWrite]
  <2> DEFINE new == [r EXCEPT !.pc = "c_finally", !.write = NoWrite]
  <2>1. /\ new \in Operation /\ new.pc = "c_finally" /\ new.op = r.op
        /\ new.seen = r.seen /\ new.write = NoWrite /\ new.todo = r.todo
    BY <1>1, IdleForm DEF Operation, Location
  <2>2. req' = [req EXCEPT ![p] = new]
    BY <1>4
  <2> HIDE DEF new
  <2>3. req'[p] = new /\ req' \in [Process -> Operation] /\ \A q \in Process \ {p} : req'[q] = req[q]
    BY <1>1, <2>1, <2>2 DEF TypeOK
  <2>4. TypeOK'
    BY <1>1, <1>4, <2>3 DEF TypeOK
  <2>5. OpOK(p)'
    BY <2>1, <2>3 DEF OpOK
  <2> QED
    BY <1>1, <1>4, <2>1, <2>3, <2>4, <2>5, Relaxes
<1>5. CASE AbortReturns(p, TRUE) /\ UNCHANGED row
  <2>1. /\ req' \in [Process -> Operation] /\ \A q \in Process \ {p} : req'[q] = req[q]
        /\ OpOK(p)' /\ req'[p].pc \in {"idle", "c_finally", "next"}
        /\ req'[p].seen \in {req[p].seen, Absent} /\ req'[p].write \in {req[p].write, NoWrite}
        /\ req'[p].todo \subseteq req[p].todo /\ fileLock' \in [Attempt -> Process \cup {None, Dead}]
        /\ (req'[p].pc = "next" => req'[p].write = NoWrite)
    BY <1>1, <1>2, <1>5, ReturnsForm
  <2>2. TypeOK'
    BY <1>1, <1>5, <2>1 DEF TypeOK
  <2> QED
    BY <1>1, <1>5, <2>1, <2>2, Relaxes
<1> QED
  BY <1>3, <1>4, <1>5 DEF AbortCommit

LEMMA HeartbeatUpdateKeeps ==
  ASSUME Inv, NEW p \in Process, HeartbeatUpdate(p)
  PROVE  Inv'
<1> DEFINE r == req[p]
           w == [r.seen EXCEPT !.age = 0]
<1>1. /\ TypeOK /\ RowsOK /\ RequestOK(p) /\ r.pc = "h_update" /\ Ends(p)
      /\ row' = IF Present(r.id) THEN [row EXCEPT ![r.id] = w] ELSE row
      /\ UNCHANGED <<mpu, objects, slots, reserved, unrecorded, userLock, quotaLock, fileLock>>
  BY DEF Inv, HeartbeatUpdate, At, redis, store, locks
<1>2. r.id \in Attempt /\ r.seen # Absent /\ r.seen \in Row /\ RecordOK(r.seen)
  BY <1>1, Rows DEF RequestOK
<1>3. req' \in [Process -> Operation] /\ req'[p] = Idle /\ \A q \in Process \ {p} : req'[q] = req[q]
  BY <1>1, EndsForm
<1>4. CASE ~ Present(r.id)
  <2>1. row' = row
    BY <1>1, <1>4
  <2>2. TypeOK'
    BY <1>1, <1>3, <2>1 DEF TypeOK
  <2> QED
    BY <1>1, <1>3, <2>1, <2>2, Finishes
<1>5. CASE Present(r.id)
  <2>1. w \in Row /\ w.mpu = r.seen.mpu /\ w.path = r.seen.path /\ w.st = r.seen.st
    BY <1>2, Written
  <2>2. w # Absent
    BY <2>1, SetAssumption DEF Row
  <2> HIDE DEF w
  <2>3. row' = [row EXCEPT ![r.id] = w]
    BY <1>1, <1>5
  <2>4. row'[r.id] = w /\ \A id \in Attempt \ {r.id} : row'[id] = row[id]
    BY <1>1, <1>2, <2>3 DEF TypeOK
  <2>5. TypeOK'
    BY <1>1, <1>3, <2>1, <2>3 DEF TypeOK
  <2>6. RowsOK'
    BY <1>1, <1>2, <1>5, <2>1, <2>4 DEF RowsOK, RecordOK, Present
  <2>7. Knows(p, w.mpu)
    BY <1>2, <2>1 DEF Knows
  <2>8. Onwards(p)
    BY <1>1, <1>3, <1>5, <2>2, <2>4, <2>7 DEF Onwards, Present
  <2>9. RequestOK(p)'
    BY <1>3, IdleForm DEF RequestOK, OpOK, Starting
  <2>10. TakesUp(p)
    BY <1>3, IdleForm DEF TakesUp, Knows, New, Trying, Starting, At
  <2> QED
    BY <2>5, <2>6, <2>8, <2>9, <2>10, Keeper
<1> QED
  BY <1>4, <1>5

LEMMA CleanupAbortKeeps ==
  ASSUME Inv, NEW t \in req[Cleaner].todo, CleanupAbort(t)
  PROVE  Inv'
<1> DEFINE r == req[Cleaner]
<1>1. /\ TypeOK /\ RowsOK /\ RequestOK(Cleaner) /\ Cleaner \in Process /\ r \in Operation /\ r.pc = "next"
      /\ UNCHANGED <<row, objects, slots, reserved, unrecorded, userLock, quotaLock, fileLock>>
  BY DEF Inv, TypeOK, CleanupAbort, At, redis, locks, Process
<1>2. /\ t.id \in Attempt /\ t.row \in Row /\ t.row.mpu \in Attempt /\ RecordOK(t.row) /\ r.op \in {"clear", "cleanup"}
      /\ r.write = NoWrite
  BY <1>1, Rows DEF RequestOK, OpOK
<1>3. CASE /\ mpu' = [mpu EXCEPT ![t.row.mpu] = "aborted"]
           /\ req' = [req EXCEPT ![Cleaner].pc = "k_delete", ![Cleaner].id = t.id, ![Cleaner].seen = t.row]
  <2> DEFINE new == [r EXCEPT !.pc = "k_delete", !.id = t.id, !.seen = t.row]
  <2>1. /\ new \in Operation /\ new.pc = "k_delete" /\ new.op = r.op /\ new.id = t.id
        /\ new.seen = t.row /\ new.write = r.write /\ new.todo = r.todo
    BY <1>1, <1>2 DEF Operation, Location
  <2>2. req' = [req EXCEPT ![Cleaner] = new]
    BY <1>3
  <2> HIDE DEF new
  <2>3. req'[Cleaner] = new /\ req' \in [Process -> Operation] /\ \A q \in Process \ {Cleaner} : req'[q] = req[q]
    BY <1>1, <2>1, <2>2 DEF TypeOK
  <2>4. TypeOK'
    BY <1>1, <1>2, <1>3, <2>3 DEF TypeOK
  <2>5. \A x \in Row : RecordOK(x) => mpu'[x.mpu] # "none" /\ (x.st = "uploaded" => x.path \in objects')
    BY <1>1, <1>2, <1>3, Rows DEF RecordOK, TypeOK
  <2>6. t.row # Absent
    BY <1>2, SetAssumption DEF Row
  <2>7. RequestOK(Cleaner)'
    <3>1. /\ req'[Cleaner].pc = "k_delete" /\ req'[Cleaner].op = r.op /\ req'[Cleaner].id = t.id
          /\ req'[Cleaner].seen = t.row /\ req'[Cleaner].write = r.write /\ req'[Cleaner].todo = r.todo
      BY <2>1, <2>3
    <3>2. r.write.row \in Row \cup {Absent} /\ \A s \in r.todo : s.row \in Row
      BY <1>1, Rows
    <3>3. r.write.id # None => Present(r.write.id)
      BY <1>1 DEF RequestOK, New, At
    <3> QED
      BY <1>1, <1>2, <2>5, <2>6, <3>1, <3>2, <3>3 DEF RequestOK, OpOK, Starting, RecordOK, Present
  <2>8. TakesUp(Cleaner)
    <3>1. \A n \in Attempt : Knows(Cleaner, n)' => Knows(Cleaner, n)
      BY <1>2, <2>1, <2>3 DEF Knows
    <3> QED
      BY <2>1, <2>3, <3>1 DEF TakesUp, Trying, Starting, At, New
  <2>9. Knows(Cleaner, t.row.mpu) /\ mpu[t.row.mpu] # "none"
    BY <1>2 DEF Knows, RecordOK
  <2> QED
    BY <1>1, <1>2, <1>3, <2>3, <2>4, <2>7, <2>8, <2>9, AbortsSession
<1>4. CASE req' = [req EXCEPT ![Cleaner].todo = @ \ {t}] /\ UNCHANGED mpu
  <2> DEFINE new == [r EXCEPT !.todo = r.todo \ {t}]
  <2>1. /\ new \in Operation /\ new.pc = "next" /\ new.op = r.op
        /\ new.seen = r.seen /\ new.write = r.write /\ new.todo \subseteq r.todo
    BY <1>1 DEF Operation, Location
  <2>2. req' = [req EXCEPT ![Cleaner] = new]
    BY <1>4
  <2> HIDE DEF new
  <2>3. req'[Cleaner] = new /\ req' \in [Process -> Operation] /\ \A q \in Process \ {Cleaner} : req'[q] = req[q]
    BY <1>1, <2>1, <2>2 DEF TypeOK
  <2>4. TypeOK'
    BY <1>1, <1>4, <2>3 DEF TypeOK
  <2>5. OpOK(Cleaner)'
    BY <1>2, <2>1, <2>3 DEF OpOK
  <2> QED
    BY <1>1, <1>2, <1>4, <2>1, <2>3, <2>4, <2>5, Relaxes
<1> QED
  BY <1>3, <1>4 DEF CleanupAbort

LEMMA CleanupDeleteKeeps ==
  ASSUME Inv, CleanupDelete
  PROVE  Inv'
<1> DEFINE r == req[Cleaner]
<1>1. /\ TypeOK /\ RowsOK /\ RequestOK(Cleaner) /\ Cleaner \in Process /\ r \in Operation /\ r.pc = "k_delete"
      /\ RowFree(Cleaner, r.id) /\ UNCHANGED <<mpu, objects, slots, reserved, unrecorded, userLock, quotaLock>>
  BY DEF Inv, TypeOK, CleanupDelete, At, redis, store, Process
<1>2. r.op \in {"clear", "cleanup"} /\ r.id \in Attempt /\ r.seen # Absent /\ r.write = NoWrite
  BY <1>1 DEF RequestOK, OpOK
<1>3. CASE row' = [row EXCEPT ![r.id] = Absent] /\ Goto(Cleaner, "a_refund") /\ UNCHANGED fileLock
  <2>1. /\ req' \in [Process -> Operation] /\ \A q \in Process \ {Cleaner} : req'[q] = req[q]
        /\ req'[Cleaner].pc = "a_refund" /\ req'[Cleaner].op = r.op /\ req'[Cleaner].id = r.id /\ req'[Cleaner].seen = r.seen
        /\ req'[Cleaner].write = r.write /\ req'[Cleaner].todo = r.todo
    BY <1>1, <1>3, GotoForm DEF Location
  <2>2. row'[r.id] = Absent /\ \A id \in Attempt \ {r.id} : row'[id] = row[id]
    BY <1>1, <1>2, <1>3 DEF TypeOK
  <2>3. TypeOK'
    BY <1>1, <1>3, <2>1 DEF TypeOK
  <2>4. RowsOK'
    BY <1>1, <2>2 DEF RowsOK, RecordOK, Present
  <2>5. Onwards(Cleaner)
    BY <1>1, <1>2, <2>1, <2>2 DEF Onwards, RowFree
  <2>6. RequestOK(Cleaner)'
    BY <1>1, <1>2, <2>1, <2>2, IdleForm DEF RequestOK, OpOK, Starting, RecordOK
  <2>7. TakesUp(Cleaner)
    BY <2>1 DEF TakesUp, Trying, Starting, At, New, Knows
  <2> QED
    BY <1>1, <2>3, <2>4, <2>5, <2>6, <2>7, Keeper
<1>4. CASE AbortReturns(Cleaner, FALSE) /\ UNCHANGED row
  <2>1. /\ req' \in [Process -> Operation] /\ \A q \in Process \ {Cleaner} : req'[q] = req[q]
        /\ OpOK(Cleaner)' /\ req'[Cleaner].pc \in {"idle", "c_finally", "next"}
        /\ req'[Cleaner].seen \in {req[Cleaner].seen, Absent} /\ req'[Cleaner].write \in {req[Cleaner].write, NoWrite}
        /\ req'[Cleaner].todo \subseteq req[Cleaner].todo /\ fileLock' \in [Attempt -> Process \cup {None, Dead}]
        /\ (req'[Cleaner].pc = "next" => req'[Cleaner].write = NoWrite)
    BY <1>1, <1>2, <1>4, ReturnsForm
  <2>2. TypeOK'
    BY <1>1, <1>4, <2>1 DEF TypeOK
  <2> QED
    BY <1>1, <1>4, <2>1, <2>2, Relaxes
<1> QED
  BY <1>3, <1>4 DEF CleanupDelete

-----------------------------------------------------------------------------
(* Time and failures.                                                       *)

LEMMA AgeKeeps ==
  ASSUME Inv, NEW id \in Attempt, Age(id)
  PROVE  Inv'
<1> DEFINE w == [row[id] EXCEPT !.age = row[id].age + 1]
<1>1. /\ TypeOK /\ RowsOK /\ UNCHANGED <<mpu, objects, slots, reserved, unrecorded, userLock, quotaLock, fileLock, req>>
      /\ row' = [row EXCEPT ![id] = w] /\ Present(id) /\ row[id] \in Row /\ row[id].age < 2
  BY DEF Inv, TypeOK, Age, Uploading, Present, redis, store, locks
<1>2. w \in Row /\ w.mpu = row[id].mpu /\ w.path = row[id].path /\ w.st = row[id].st
  BY <1>1, Written
<1>3. w # Absent
  BY <1>2, SetAssumption DEF Row
<1> HIDE DEF w
<1>4. row'[id] = w /\ \A x \in Attempt \ {id} : row'[x] = row[x]
  BY <1>1 DEF TypeOK
<1>5. TypeOK'
  BY <1>1, <1>2 DEF TypeOK
<1>6. RowsOK'
  BY <1>1, <1>2, <1>4 DEF RowsOK, RecordOK, Present
<1>7. \A x \in Attempt : (row'[x] # Absent <=> row[x] # Absent) /\ (row[x] # Absent => row'[x].mpu = row[x].mpu)
  BY <1>1, <1>2, <1>3, <1>4 DEF Present
<1>8. \A p \in Process : New(p)' <=> New(p)
  BY <1>1, <1>7 DEF New, Present, At
<1>9. \A p \in Process : RequestOK(p)'
  <2> TAKE p \in Process
  <2>1. RequestOK(p) /\ req[p].write.id \in Attempt \cup {None}
    BY <1>1, Rows DEF Inv
  <2> QED
    BY <1>1, <1>7, <1>8, <2>1 DEF RequestOK, OpOK, Starting, RecordOK, Present
<1>10. \A p, q \in Process : p # q => Apart(p, q)'
  BY <1>1, <1>8 DEF Inv, Apart, Trying, Starting, At, Knows
<1> QED
  BY <1>5, <1>6, <1>9, <1>10 DEF Inv

LEMMA TxTimeoutKeeps ==
  ASSUME Inv, NEW p \in Process, TxTimeout(p)
  PROVE  Inv'
<1> DEFINE r == req[p]
           new == [r EXCEPT !.tx = "closed", !.write = NoWrite]
<1>1. /\ TypeOK /\ RequestOK(p) /\ r \in Operation /\ req' = [req EXCEPT ![p] = new]
      /\ UNCHANGED <<row, mpu, objects, slots, reserved, unrecorded, userLock, quotaLock, fileLock>>
      /\ r.pc \in {"i_reserve", "i_slot", "i_store", "commit", "c_store", "c_update", "c_finalize"}
  BY DEF Inv, TypeOK, TxTimeout, redis, store, locks
<1>2. /\ new \in Operation /\ new.pc = r.pc /\ new.op = r.op /\ new.id = r.id /\ new.seen = r.seen
      /\ new.tx = "closed" /\ new.write = NoWrite /\ new.todo = r.todo
  BY <1>1, IdleForm DEF Operation
<1>3. req'[p] = new /\ req' \in [Process -> Operation] /\ \A q \in Process \ {p} : req'[q] = req[q]
  BY <1>1, <1>2 DEF TypeOK
<1> HIDE DEF new
<1>4. TypeOK'
  BY <1>1, <1>3 DEF TypeOK
<1>5. RequestOK(p)'
  BY <1>1, <1>2, <1>3, IdleForm DEF RequestOK, OpOK, Starting, RecordOK
<1>6. TakesUp(p)
  <2>1. ~ New(p)'
    BY <1>2, <1>3, IdleForm, SetAssumption DEF New
  <2> QED
    BY <1>2, <1>3, <2>1, IdleForm DEF TakesUp, Trying, Starting, At, Knows
<1> QED
  BY <1>1, <1>3, <1>4, <1>5, <1>6, Light

LEMMA CrashKeeps ==
  ASSUME Inv, NEW p \in Process, Crash(p)
  PROVE  Inv'
<1>1. /\ TypeOK /\ UNCHANGED <<row, mpu, objects, slots, reserved, unrecorded>> /\ Ends(p)
      /\ userLock' \in {userLock, Dead} /\ quotaLock' \in {quotaLock, Dead}
      /\ fileLock' = [id \in Attempt |-> IF fileLock[id] = p THEN Dead ELSE fileLock[id]]
  BY DEF Inv, Crash, redis, store
<1>2. req' \in [Process -> Operation] /\ req'[p] = Idle /\ \A q \in Process \ {p} : req'[q] = req[q]
  BY <1>1, EndsForm
<1>3. TypeOK'
  BY <1>1, <1>2 DEF TypeOK
<1> QED
  BY <1>1, <1>2, <1>3, Finishes

LEMMA ExpiryKeeps ==
  ASSUME Inv, SlotsExpire \/ ReservedExpires \/ QuotaLockStrays \/ LocksExpire
  PROVE  Inv'
<1>0. TypeOK /\ Missing \in Key
  <2>1. 0 \in Nat
    OBVIOUS
  <2> QED
    BY <2>1, Counters DEF Inv, TypeOK
<1>1. UNCHANGED <<row, mpu, objects, req>>
  BY DEF SlotsExpire, ReservedExpires, QuotaLockStrays, LocksExpire, store
<1>2. CASE SlotsExpire \/ ReservedExpires
  <2>1. TypeOK'
    BY <1>0, <1>1, <1>2 DEF TypeOK, SlotsExpire, ReservedExpires, store, locks
  <2> QED
    BY <1>1, <2>1, Same
<1>3. CASE LocksExpire
  <2>1. /\ userLock' \in {userLock, None} /\ quotaLock' \in {quotaLock, None} /\ UNCHANGED <<slots, reserved, unrecorded>>
        /\ fileLock' = [id \in Attempt |-> IF fileLock[id] = Dead THEN None ELSE fileLock[id]]
    BY <1>3 DEF LocksExpire, redis
  <2>2. TypeOK'
    BY <1>0, <1>1, <2>1 DEF TypeOK
  <2> QED
    BY <1>1, <2>2, Same
<1>4. CASE QuotaLockStrays
  <2>1. quotaLock' = Dead /\ UNCHANGED <<slots, reserved, unrecorded, userLock, fileLock>>
    BY <1>4 DEF QuotaLockStrays, redis
  <2>2. TypeOK'
    BY <1>0, <1>1, <2>1 DEF TypeOK
  <2> QED
    BY <1>1, <2>2, Same
<1> QED
  BY <1>2, <1>3, <1>4

-----------------------------------------------------------------------------
(* The invariant, and what follows.                                         *)

LEMMA Initially == Init => Inv
<1> SUFFICES ASSUME Init PROVE Inv
  OBVIOUS
<1>1. Missing \in Key
  BY DEF Key, Missing
<1>2. \A p \in Process : req[p] = Idle
  BY DEF Init
<1>3. \A id \in Attempt : ~ Present(id)
  BY DEF Init, Present
<1>4. TypeOK
  BY <1>1, IdleForm DEF Init, TypeOK
<1>5. \A p \in Process : RequestOK(p)
  BY <1>2, IdleForm DEF RequestOK, OpOK, Starting
<1>6. \A p, q \in Process : p # q => Apart(p, q)
  BY <1>2, IdleForm DEF Apart, Trying, Starting, At, New
<1> QED
  BY <1>3, <1>4, <1>5, <1>6 DEF Inv, RowsOK

LEMMA StepKeeps ==
  ASSUME Inv, [Next]_vars
  PROVE  Inv'
<1>1. CASE UNCHANGED vars
  <2>1. TypeOK'
    BY <1>1 DEF Inv, TypeOK, vars, store, redis, locks
  <2> QED
    BY <1>1, <2>1, Same DEF vars, store
<1>2. ASSUME NEW p \in Request, Starts(p) PROVE Inv'
  BY <1>2, BeginInitiateKeeps, BeginCompleteKeeps, BeginAbortKeeps, BeginHeartbeatKeeps, BeginClearKeeps DEF Starts
<1>3. ASSUME NEW p \in Process, Continues(p) PROVE Inv'
  <2>1. CASE TakeQuotaLock(p) \/ QuotaLockBusy(p) \/ Refund(p) \/ Reserve(p) \/ AcquireSlot(p)
    BY <2>1, TakeQuotaLockKeeps, QuotaLockBusyKeeps, RefundKeeps, ReserveKeeps, AcquireSlotKeeps
  <2>2. CASE Store(p) \/ StoreFails(p) \/ Commit(p)
    BY <2>2, StoreKeeps, StoreFailsKeeps, CommitKeeps
  <2>3. CASE \/ CompleteInStore(p) \/ CompleteInStoreFails(p) \/ CompleteUpdate(p) \/ Finalize(p)
             \/ CompleteCatch(p) \/ CompleteFinally(p)
    BY <2>3, CompleteInStoreKeeps, CompleteInStoreFailsKeeps, CompleteUpdateKeeps, FinalizeKeeps,
       CompleteCatchKeeps, CompleteFinallyKeeps
  <2>4. CASE AbortDelete(p) \/ AbortCommit(p) \/ HeartbeatUpdate(p) \/ ClearSlots(p)
    BY <2>4, AbortDeleteKeeps, AbortCommitKeeps, HeartbeatUpdateKeeps, ClearSlotsKeeps
  <2>5. CASE \E t \in req[p].todo : ClearNext(p, t)
    BY <2>5, ClearNextKeeps
  <2> QED
    BY <1>3, <2>1, <2>2, <2>3, <2>4, <2>5 DEF Continues
<1>4. CASE Cleans
  BY <1>4, BeginCleanupKeeps, CleanupAbortKeeps, CleanupDeleteKeeps, EndCleanupKeeps DEF Cleans
<1>5. CASE Environment
  BY <1>5, AgeKeeps, TxTimeoutKeeps, CrashKeeps, ExpiryKeeps DEF Environment
<1> QED
  BY <1>1, <1>2, <1>3, <1>4, <1>5 DEF Next

LEMMA Always == Spec => []Inv
BY Initially, StepKeeps, PTL DEF Spec

\* Every record, session, counter, lock and request is what the code makes of it,
\* whatever requests, failures and restarts do.
THEOREM TypeCorrect == Spec => []TypeOK
<1>1. Inv => TypeOK
  BY DEF Inv
<1> QED
  BY <1>1, Always, PTL

\* A record says "uploaded" only when the object is in the store: neither a completion
\* that fails half way, nor a heartbeat or a cleanup that writes back what it read earlier,
\* makes a record claim an object that is not there.
THEOREM UploadedHasObject == Spec => []UploadedIsStored
<1>1. Inv => UploadedIsStored
  BY DEF Inv, RowsOK, RecordOK, UploadedIsStored, Uploaded
<1> QED
  BY <1>1, Always, PTL

\* The records change only in the transactions of initiate, complete and abort, in heartbeats
\* and cleanups, and as time passes.
LEMMA RecordsChange ==
  ASSUME [Next]_vars, row' # row
  PROVE  \/ \E p \in Process : Commit(p) \/ AbortCommit(p) \/ HeartbeatUpdate(p)
         \/ CleanupDelete
         \/ \E id \in Attempt : Age(id)
<1>1. ~ UNCHANGED vars
  BY DEF vars
<1>2. ASSUME NEW p \in Request, Starts(p) PROVE FALSE
  BY <1>2 DEF Starts, BeginInitiate, BeginComplete, BeginAbort, BeginHeartbeat, BeginClear
<1>3. ASSUME NEW p \in Process, Continues(p) PROVE Commit(p) \/ AbortCommit(p) \/ HeartbeatUpdate(p)
  BY <1>3 DEF Continues, TakeQuotaLock, QuotaLockBusy, Refund, Reserve, AcquireSlot, Store, StoreFails,
     CompleteInStore, CompleteInStoreFails, CompleteUpdate, Finalize, CompleteCatch, CompleteFinally,
     AbortDelete, ClearNext, ClearSlots
<1>4. CASE Cleans
  BY <1>4 DEF Cleans, BeginCleanup, CleanupAbort, EndCleanup
<1>5. CASE Environment
  BY <1>5 DEF Environment, TxTimeout, Crash, SlotsExpire, ReservedExpires, QuotaLockStrays, LocksExpire
<1> QED
  BY <1>1, <1>2, <1>3, <1>4, <1>5 DEF Next

LEMMA DeletedStays ==
  ASSUME Inv, [Next]_vars, NEW id \in Attempt, ~ Present(id), mpu[id] = "aborted"
  PROVE  ~ Present(id)'
<1> SUFFICES ASSUME row'[id] # Absent PROVE FALSE
  BY DEF Present
<1>1. row' # row /\ row[id] = Absent /\ TypeOK
  BY DEF Present, Inv
<1>2. ASSUME NEW p \in Process, Commit(p) PROVE FALSE
  <2>1. row' = [row EXCEPT ![req[p].write.id] = req[p].write.row] /\ RequestOK(p)
    BY <1>1, <1>2 DEF Commit, Inv
  <2>2. req[p].write.id = id
    BY <1>1, <2>1 DEF TypeOK
  <2>3. New(p)
    BY <2>1, <2>2, SetAssumption DEF RequestOK
  <2> QED
    BY <2>2, <2>3 DEF New
<1>3. ASSUME NEW p \in Process, AbortCommit(p) PROVE FALSE
  BY <1>1, <1>3 DEF AbortCommit, TypeOK
<1>4. ASSUME NEW p \in Process, HeartbeatUpdate(p) PROVE FALSE
  BY <1>1, <1>4 DEF HeartbeatUpdate, TypeOK, Present
<1>5. ASSUME CleanupDelete PROVE FALSE
  BY <1>1, <1>5 DEF CleanupDelete, TypeOK
<1>6. ASSUME NEW x \in Attempt, Age(x) PROVE FALSE
  BY <1>1, <1>6 DEF Age, Uploading, Present, TypeOK
<1> QED
  BY <1>1, <1>2, <1>3, <1>4, <1>5, <1>6, RecordsChange

\* A record that abort or cleanup deleted is not written again: a heartbeat or a completion
\* that read it before updates a record that is gone and fails, and only the attempt that
\* opened a session, while it is open, inserts the record of that session.
THEOREM DeletedIsFinal == Spec => DeletedStaysDeleted
<1>1. Inv /\ [Next]_vars => [\A id \in Attempt : ~Present(id) /\ mpu[id] = "aborted" => ~(Present(id)')]_vars
  BY DeletedStays
<1> QED
  BY <1>1, Always, PTL DEF Spec, DeletedStaysDeleted

-----------------------------------------------------------------------------
(* No object without a record, for attempts with paths of their own.        *)

\* What a step of p may do to sessions, records and locks that others rely on.
Minds(p) ==
  /\ \A q \in Process \ {p} : req'[q] = req[q]
  /\ \A id \in Attempt, q \in Process \ {p} : fileLock[id] = q => fileLock'[id] = q
  /\ \A id \in Attempt : \/ mpu'[id] = mpu[id]
                         \/ mpu[id] = "none" /\ mpu'[id] = "open"
                         \/ mpu[id] = "open" /\ mpu'[id] = "aborted"
                         \/ mpu[id] = "open" /\ mpu'[id] = "completed" /\ fileLock[id] = p
  /\ \A id \in Attempt : Present(id) /\ ~ Present(id)' => fileLock[id] = p \/ mpu[id] = "aborted"

\* Whoever is about to complete an upload knows its session.
LEMMA Completes ==
  ASSUME Inv, OwnInv, NEW q \in Process, At(q, "c_store")
  PROVE  req[q].id \in Attempt /\ mpu[req[q].id] # "none"
<1>1. RequestOK(q) /\ OwnRequest(q)
  BY DEF Inv, OwnInv
<1>2. req[q].seen # Absent /\ req[q].id \in Attempt /\ RecordOK(req[q].seen) /\ req[q].seen.mpu = req[q].id
  BY <1>1 DEF RequestOK, OwnRequest, OwnRow, At
<1> QED
  BY <1>2 DEF RecordOK

LEMMA OwnKeeper ==
  ASSUME Inv, OwnInv, NEW p \in Process, Minds(p),
         (\A id \in Attempt : Present(id) => OwnRow(id, row[id]))', Objects', OwnRequest(p)', Deletes(p)'
  PROVE  OwnInv'
<1>1. ASSUME NEW q \in Process, q # p PROVE OwnRequest(q)' /\ Deletes(q)'
  <2> DEFINE id == req[q].id
  <2>1. OwnRequest(q) /\ Deletes(q) /\ req'[q] = req[q]
    BY <1>1 DEF OwnInv, Minds
  <2>2. OwnRequest(q)'
    BY <2>1 DEF OwnRequest, OwnRow
  <2>3. Guards(q)' => id \in Attempt /\ fileLock[id] = q /\ fileLock'[id] = q
    BY <1>1, <2>1 DEF Guards, Deletes, Minds
  <2>4. At(q, "a_commit") => mpu'[id] # "completed"
    BY <1>1, <2>1 DEF Guards, Deletes, Minds, At
  <2>5. At(q, "k_delete") => mpu'[id] = "aborted"
    <3>1. ASSUME At(q, "k_delete") PROVE id \in Attempt
      BY <3>1 DEF Inv, RequestOK, At
    <3> QED
      BY <2>1, <3>1 DEF Deletes, Minds
  <2>6. ASSUME At(q, "c_store"), mpu'[id] = "open" PROVE row'[id] # Absent
    <3>1. id \in Attempt /\ mpu[id] = "open"
      BY <2>6, Completes DEF Minds
    <3>2. row[id] # Absent /\ fileLock[id] = q
      BY <2>1, <2>6, <3>1 DEF Deletes, Guards, At, Present
    <3> QED
      BY <1>1, <3>1, <3>2 DEF Minds, Present
  <2> QED
    BY <2>1, <2>2, <2>3, <2>4, <2>5, <2>6 DEF Deletes, Guards, At, Present
<1> QED
  BY <1>1 DEF OwnInv

LEMMA OwnLight ==
  ASSUME Inv, OwnInv, NEW p \in Process, UNCHANGED <<row, mpu, objects>>,
         \A q \in Process \ {p} : req'[q] = req[q],
         \A id \in Attempt, q \in Process \ {p} : fileLock[id] = q => fileLock'[id] = q,
         OwnRequest(p)', Deletes(p)'
  PROVE  OwnInv'
<1>1. Minds(p)
  BY DEF Minds, Present
<1>2. (\A id \in Attempt : Present(id) => OwnRow(id, row[id]))' /\ Objects'
  BY DEF OwnInv, Objects, OwnRow, Present
<1> QED
  BY <1>1, <1>2, OwnKeeper

\* p keeps what it knows or forgets some of it, and does not begin to change an upload.
LEMMA OwnRelaxes ==
  ASSUME Inv, OwnInv, NEW p \in Process, UNCHANGED <<row, mpu, objects>>,
         \A q \in Process \ {p} : req'[q] = req[q],
         \A id \in Attempt, q \in Process \ {p} : fileLock[id] = q => fileLock'[id] = q,
         req'[p].seen \in {req[p].seen, Absent}, req'[p].id = req[p].id \/ req'[p].seen = Absent,
         req'[p].write \in {req[p].write, NoWrite}, req'[p].todo \subseteq req[p].todo,
         req'[p].pc \notin {"a_commit", "k_delete", "c_store"},
         Guards(p)' => Guards(p) /\ req'[p].id = req[p].id /\ UNCHANGED fileLock
  PROVE  OwnInv'
<1>1. OwnRequest(p) /\ Deletes(p)
  BY DEF OwnInv
<1>2. OwnRequest(p)'
  BY <1>1, IdleForm DEF OwnRequest, OwnRow
<1>3. Deletes(p)'
  BY <1>1 DEF Deletes, At
<1> QED
  BY <1>2, <1>3, OwnLight

LEMMA OwnFinishes ==
  ASSUME Inv, OwnInv, NEW p \in Process, UNCHANGED <<row, mpu, objects>>, Ends(p),
         \A id \in Attempt, q \in Process \ {p} : fileLock[id] = q => fileLock'[id] = q
  PROVE  OwnInv'
<1>1. req'[p] = Idle /\ \A q \in Process \ {p} : req'[q] = req[q]
  BY EndsForm DEF Inv
<1>2. OwnRequest(p)' /\ Deletes(p)'
  BY <1>1, IdleForm DEF OwnRequest, Deletes, Guards, At
<1> QED
  BY <1>1, <1>2, OwnLight

LEMMA Unlocking ==
  ASSUME TypeOK, NEW p \in Process, fileLock' \in {fileLock, Unlocked(p)}
  PROVE  \A id \in Attempt, q \in Process \ {p} : fileLock[id] = q => fileLock'[id] = q
BY DEF Unlocked, TypeOK

\* An operation that goes on without changing an upload, or ends.
LEMMA OwnGoes ==
  ASSUME Inv, OwnInv, NEW p \in Process, UNCHANGED <<row, mpu, objects>>,
         fileLock' \in {fileLock, Unlocked(p)},
         \/ Ends(p)
         \/ \E pc \in {"i_slot", "i_refund", "i_undo", "c_release", "c_finally", "commit"} : Goto(p, pc)
         \/ At(p, "c_finalize") /\ Goto(p, "c_catch") /\ UNCHANGED fileLock
         \/ At(p, "c_update") /\ Goto(p, "c_catch") /\ UNCHANGED fileLock
  PROVE  OwnInv'
<1>1. TypeOK /\ \A id \in Attempt, q \in Process \ {p} : fileLock[id] = q => fileLock'[id] = q
  BY Unlocking DEF Inv
<1>2. CASE Ends(p)
  BY <1>1, <1>2, OwnFinishes
<1>3. ASSUME NEW pc \in {"i_slot", "i_refund", "i_undo", "c_release", "c_finally", "commit"}, Goto(p, pc) PROVE OwnInv'
  <2>1. /\ \A q \in Process \ {p} : req'[q] = req[q]
        /\ req'[p].pc = pc /\ req'[p].id = req[p].id /\ req'[p].seen = req[p].seen
        /\ req'[p].write = req[p].write /\ req'[p].todo = req[p].todo
    BY <1>1, <1>3, GotoForm DEF Location
  <2> QED
    BY <1>1, <2>1, OwnRelaxes DEF Guards
<1>4. CASE req[p].pc \in {"c_update", "c_finalize"} /\ Goto(p, "c_catch") /\ UNCHANGED fileLock
  <2>1. /\ \A q \in Process \ {p} : req'[q] = req[q]
        /\ req'[p].pc = "c_catch" /\ req'[p].id = req[p].id /\ req'[p].seen = req[p].seen
        /\ req'[p].write = req[p].write /\ req'[p].todo = req[p].todo
    BY <1>1, <1>4, GotoForm DEF Location
  <2> QED
    BY <1>1, <1>4, <2>1, OwnRelaxes DEF Guards
<1> QED
  BY <1>2, <1>3, <1>4 DEF At

LEMMA OwnReturns ==
  ASSUME Inv, OwnInv, NEW p \in Process, NEW threw \in BOOLEAN, UNCHANGED <<row, mpu, objects>>,
         req[p].pc \in {"a_delete", "a_commit", "a_refund", "k_delete"}, AbortReturns(p, threw)
  PROVE  OwnInv'
<1>1. TypeOK /\ req[p].op \in {"abort", "complete", "clear", "cleanup"}
  BY DEF Inv, RequestOK, OpOK
<1>2. /\ \A q \in Process \ {p} : req'[q] = req[q]
      /\ req'[p].pc \in {"idle", "c_finally", "next"}
      /\ req'[p].seen \in {req[p].seen, Absent} /\ req'[p].write \in {req[p].write, NoWrite}
      /\ req'[p].todo \subseteq req[p].todo /\ fileLock' \in {fileLock, Unlocked(p)}
      /\ (req'[p].id = req[p].id \/ req'[p].seen = Absent)
  BY <1>1, ReturnsForm
<1>3. \A id \in Attempt, q \in Process \ {p} : fileLock[id] = q => fileLock'[id] = q
  BY <1>1, <1>2, Unlocking
<1> QED
  BY <1>2, <1>3, OwnRelaxes DEF Guards

\* The steps that touch only locks and counters, or give up.
LEMMA OwnQuiet ==
  ASSUME Inv, OwnInv, NEW p \in Process,
         \/ TakeQuotaLock(p) \/ QuotaLockBusy(p) \/ Reserve(p) \/ Refund(p) \/ Finalize(p)
         \/ CompleteFinally(p) \/ ClearSlots(p) \/ (p = Cleaner /\ EndCleanup)
  PROVE  OwnInv'
<1>1. CASE TakeQuotaLock(p)
  <2>1. UNCHANGED <<row, mpu, objects, fileLock, req>>
    BY <1>1 DEF TakeQuotaLock, store
  <2> QED
    BY <2>1 DEF OwnInv, Objects, OwnRow, Present, OwnRequest, Deletes, Guards, At
<1>2. CASE QuotaLockBusy(p) \/ Reserve(p) \/ Finalize(p)
  <2>1. UNCHANGED <<row, mpu, objects, fileLock>>
    BY <1>2 DEF QuotaLockBusy, Reserve, Finalize, store
  <2>2. \/ Ends(p) \/ \E pc \in {"i_slot", "c_release"} : Goto(p, pc)
        \/ At(p, "c_finalize") /\ Goto(p, "c_catch") /\ UNCHANGED fileLock
    BY <1>2, <2>1 DEF QuotaLockBusy, Reserve, Finalize, InitiateThrows
  <2> QED
    BY <2>1, <2>2, OwnGoes
<1>3. CASE CompleteFinally(p)
  <2>1. UNCHANGED <<row, mpu, objects>> /\ fileLock' = Unlocked(p) /\ (Goto(p, "commit") \/ Ends(p))
    BY <1>3 DEF CompleteFinally, store
  <2> QED
    BY <2>1, OwnGoes
<1>4. CASE ClearSlots(p) \/ (p = Cleaner /\ EndCleanup)
  <2>1. UNCHANGED <<row, mpu, objects, fileLock>> /\ Ends(p)
    BY <1>4 DEF ClearSlots, EndCleanup, store, locks
  <2> QED
    BY <2>1, OwnGoes
<1>5. CASE Refund(p)
  <2>1. UNCHANGED <<row, mpu, objects>>
    BY <1>5 DEF Refund, store
  <2>2. CASE At(p, "a_refund")
    <3>1. AbortReturns(p, FALSE)
      BY <1>5, <2>2 DEF Refund
    <3> QED
      BY <2>1, <2>2, <3>1, OwnReturns DEF At
  <2>3. CASE ~ At(p, "a_refund")
    <3>1. Ends(p) /\ UNCHANGED fileLock
      BY <1>5, <2>3 DEF Refund, InitiateThrows
    <3> QED
      BY <2>1, <3>1, OwnGoes
  <2> QED
    BY <2>2, <2>3
<1> QED
  BY <1>1, <1>2, <1>3, <1>4, <1>5

\* The steps that begin an operation.
LEMMA OwnBegins ==
  ASSUME Inv, OwnInv, NEW p \in Request, NEW u \in Attempt,
         BeginInitiate(p, u) \/ BeginComplete(p, u) \/ BeginAbort(p, u) \/ BeginHeartbeat(p, u)
  PROVE  OwnInv'
<1>1. TypeOK /\ p \in Process /\ UNCHANGED <<row, mpu, objects>> /\ req[p] \in Operation
  BY DEF Inv, TypeOK, BeginInitiate, BeginComplete, BeginAbort, BeginHeartbeat, store, Process
<1>2. row[u] # Absent => OwnRow(u, row[u])
  BY DEF OwnInv, Present
<1>3. CASE BeginInitiate(p, u)
  <2> DEFINE new == [Idle EXCEPT !.pc = "i_reserve", !.op = "initiate", !.id = u, !.tx = "open"]
  <2>1. req' = [req EXCEPT ![p] = new] /\ UNCHANGED fileLock
    BY <1>3 DEF BeginInitiate
  <2>2. new.pc = "i_reserve" /\ new.seen = Absent /\ new.write = NoWrite /\ new.todo = {}
    BY IdleForm DEF Operation
  <2>3. req'[p] = new /\ \A q \in Process \ {p} : req'[q] = req[q]
    BY <1>1, <2>1 DEF TypeOK
  <2> HIDE DEF new
  <2>4. OwnRequest(p)' /\ Deletes(p)'
    BY <2>2, <2>3, IdleForm DEF OwnRequest, Deletes, Guards, At
  <2> QED
    BY <1>1, <2>1, <2>3, <2>4, OwnLight
<1>4. CASE BeginComplete(p, u)
  <2> DEFINE new == [Idle EXCEPT !.pc = "c_store", !.op = "complete", !.id = u, !.seen = row[u], !.tx = "open"]
  <2>1. req' = [req EXCEPT ![p] = new] /\ fileLock[u] = None /\ fileLock' = [fileLock EXCEPT ![u] = p] /\ row[u] # Absent
    BY <1>4 DEF BeginComplete, Uploading, Present
  <2>2. new.pc = "c_store" /\ new.id = u /\ new.seen = row[u] /\ new.write = NoWrite /\ new.todo = {}
    BY IdleForm DEF Operation
  <2>3. req'[p] = new /\ \A q \in Process \ {p} : req'[q] = req[q]
    BY <1>1, <2>1 DEF TypeOK
  <2> HIDE DEF new
  <2>4. fileLock'[u] = p /\ \A id \in Attempt, q \in Process \ {p} : fileLock[id] = q => fileLock'[id] = q
    BY <1>1, <2>1, SetAssumption DEF TypeOK, Process
  <2>5. OwnRequest(p)' /\ Deletes(p)'
    BY <1>1, <1>2, <2>1, <2>2, <2>3, <2>4, IdleForm DEF OwnRequest, OwnRow, Deletes, Guards, At, Present
  <2> QED
    BY <1>1, <2>3, <2>4, <2>5, OwnLight
<1>5. CASE BeginAbort(p, u)
  <2> DEFINE new == [Idle EXCEPT !.pc = "a_delete", !.op = "abort", !.id = u, !.seen = row[u]]
  <2>1. req' = [req EXCEPT ![p] = new] /\ fileLock[u] = None /\ fileLock' = [fileLock EXCEPT ![u] = p] /\ row[u] # Absent
    BY <1>5 DEF BeginAbort, Uploading, Present
  <2>2. new.pc = "a_delete" /\ new.id = u /\ new.seen = row[u] /\ new.write = NoWrite /\ new.todo = {}
    BY IdleForm DEF Operation
  <2>3. req'[p] = new /\ \A q \in Process \ {p} : req'[q] = req[q]
    BY <1>1, <2>1 DEF TypeOK
  <2> HIDE DEF new
  <2>4. fileLock'[u] = p /\ \A id \in Attempt, q \in Process \ {p} : fileLock[id] = q => fileLock'[id] = q
    BY <1>1, <2>1, SetAssumption DEF TypeOK, Process
  <2>5. OwnRequest(p)' /\ Deletes(p)'
    BY <1>1, <1>2, <2>1, <2>2, <2>3, <2>4, IdleForm DEF OwnRequest, OwnRow, Deletes, Guards, At, Present
  <2> QED
    BY <1>1, <2>3, <2>4, <2>5, OwnLight
<1>6. CASE BeginHeartbeat(p, u)
  <2> DEFINE new == [Idle EXCEPT !.pc = "h_update", !.op = "heartbeat", !.id = u, !.seen = row[u]]
  <2>1. req' = [req EXCEPT ![p] = new] /\ UNCHANGED fileLock /\ row[u] # Absent
    BY <1>6 DEF BeginHeartbeat, Uploading, Present, locks
  <2>2. new.pc = "h_update" /\ new.id = u /\ new.seen = row[u] /\ new.write = NoWrite /\ new.todo = {}
    BY IdleForm DEF Operation
  <2>3. req'[p] = new /\ \A q \in Process \ {p} : req'[q] = req[q]
    BY <1>1, <2>1 DEF TypeOK
  <2> HIDE DEF new
  <2>4. OwnRequest(p)' /\ Deletes(p)'
    BY <1>2, <2>1, <2>2, <2>3, IdleForm DEF OwnRequest, OwnRow, Deletes, Guards, At
  <2> QED
    BY <1>1, <2>1, <2>3, <2>4, OwnLight
<1> QED
  BY <1>3, <1>4, <1>5, <1>6

\* The steps that go through a list of records.
LEMMA OwnLists ==
  ASSUME Inv, OwnInv, NEW p \in Process, NEW ids \in SUBSET Active, NEW op,
         UNCHANGED <<row, mpu, objects, fileLock>>,
         req' = [req EXCEPT ![p] = [Idle EXCEPT !.pc = "next", !.op = op, !.todo = Listed(ids)]]
  PROVE  OwnInv'
<1> DEFINE new == [Idle EXCEPT !.pc = "next", !.op = op, !.todo = Listed(ids)]
<1>1. new.pc = "next" /\ new.seen = Absent /\ new.write = NoWrite /\ new.todo = Listed(ids)
  BY IdleForm DEF Operation
<1>2. req'[p] = new /\ \A q \in Process \ {p} : req'[q] = req[q]
  BY DEF Inv, TypeOK
<1> HIDE DEF new
<1>3. \A t \in Listed(ids) : t.id \in Attempt /\ OwnRow(t.id, t.row)
  <2>1. ids \in SUBSET Attempt /\ \A id \in ids : Present(id)
    BY DEF Active, Uploading
  <2>2. \A t \in Listed(ids) : t.id \in ids /\ t.row = row[t.id]
    BY <2>1, ListedForm DEF Inv
  <2> QED
    BY <2>1, <2>2 DEF OwnInv
<1>4. OwnRequest(p)' /\ Deletes(p)'
  BY <1>1, <1>2, <1>3, IdleForm DEF OwnRequest, OwnRow, Deletes, Guards, At
<1> QED
  BY <1>2, <1>4, OwnLight

LEMMA OwnClearNext ==
  ASSUME Inv, OwnInv, NEW p \in Process, NEW t \in req[p].todo, ClearNext(p, t)
  PROVE  OwnInv'
<1>1. /\ TypeOK /\ UNCHANGED <<row, mpu, objects>> /\ OwnRequest(p)
      /\ req[p].pc = "next" /\ req[p] \in Operation /\ t.id \in Attempt
  BY Rows DEF Inv, OwnInv, TypeOK, ClearNext, At, store
<1>2. CASE /\ fileLock[t.id] = None /\ Uploading(t.id)
           /\ fileLock' = [fileLock EXCEPT ![t.id] = p]
           /\ req' = [req EXCEPT ![p].pc = "a_delete", ![p].id = t.id, ![p].seen = row[t.id]]
  <2> DEFINE new == [req[p] EXCEPT !.pc = "a_delete", !.id = t.id, !.seen = row[t.id]]
  <2>1. OwnRow(t.id, row[t.id])
    BY <1>1, <1>2 DEF OwnInv, Uploading
  <2>2. /\ new.pc = "a_delete" /\ new.id = t.id /\ new.seen = row[t.id]
        /\ new.write = req[p].write /\ new.todo = req[p].todo
    BY <1>1 DEF Operation
  <2>3. req' = [req EXCEPT ![p] = new]
    BY <1>2
  <2>4. req'[p] = new /\ \A q \in Process \ {p} : req'[q] = req[q]
    BY <1>1, <2>3 DEF TypeOK
  <2> HIDE DEF new
  <2>5. fileLock'[t.id] = p /\ \A id \in Attempt, q \in Process \ {p} : fileLock[id] = q => fileLock'[id] = q
    BY <1>1, <1>2, SetAssumption DEF TypeOK, Process
  <2>6. OwnRequest(p)' /\ Deletes(p)'
    BY <1>1, <2>1, <2>2, <2>4, <2>5 DEF OwnRequest, OwnRow, Deletes, Guards, At
  <2> QED
    BY <1>1, <2>4, <2>5, <2>6, OwnLight
<1>3. ASSUME UNCHANGED fileLock, NEW f \in BOOLEAN,
             req' = [req EXCEPT ![p].todo = @ \ {t}, ![p].failed = f]
      PROVE  OwnInv'
  <2> DEFINE new == [req[p] EXCEPT !.todo = req[p].todo \ {t}, !.failed = f]
  <2>1. /\ new.pc = "next" /\ new.id = req[p].id /\ new.seen = req[p].seen
        /\ new.write = req[p].write /\ new.todo \subseteq req[p].todo
    BY <1>1 DEF Operation
  <2>2. req' = [req EXCEPT ![p] = new]
    BY <1>3
  <2>3. req'[p] = new /\ \A q \in Process \ {p} : req'[q] = req[q]
    BY <1>1, <2>2 DEF TypeOK
  <2> HIDE DEF new
  <2> QED
    BY <1>1, <1>3, <2>1, <2>3, OwnRelaxes DEF Guards
<1>4. req[p].failed \in BOOLEAN
  BY <1>1 DEF Operation
<1> QED
  BY <1>2, <1>3, <1>4 DEF ClearNext

LEMMA OwnAcquireSlot ==
  ASSUME Inv, OwnInv, OwnPath, NEW p \in Process, AcquireSlot(p)
  PROVE  OwnInv'
<1> DEFINE u == req[p].id
<1>1. /\ TypeOK /\ RowsOK /\ UNCHANGED <<row, mpu, objects, fileLock>> /\ OwnRequest(p) /\ req[p] \in Operation
      /\ u \in Attempt /\ mpu[u] = "none" /\ req[p].todo = {} /\ req[p].write = NoWrite
  BY DEF Inv, OwnInv, AcquireSlot, store, TypeOK, RequestOK, Starting, At
<1>2. CASE \E path \in FreePaths(u) :
             req' = [req EXCEPT ![p].pc = "i_store", ![p].seen =
                       [path |-> path, mpu |-> u, st |-> "uploading", age |-> 0]]
  <2>1. RecordAt(Wanted[u]) = {}
    <3>1. SUFFICES ASSUME NEW id \in Attempt, Present(id), row[id].path = Wanted[u] PROVE FALSE
      BY DEF RecordAt
    <3>2. Wanted[id] = Wanted[u]
      BY <3>1 DEF OwnInv, OwnRow
    <3>3. id = u
      BY <1>1, <3>2 DEF OwnPath
    <3> QED
      BY <1>1, <3>1, <3>3 DEF RowsOK
  <2>2. FreePaths(u) = {Wanted[u]}
    BY <2>1 DEF FreePaths
  <2> DEFINE r == [path |-> Wanted[u], mpu |-> u, st |-> "uploading", age |-> 0]
             new == [req[p] EXCEPT !.pc = "i_store", !.seen = r]
  <2>3. req' = [req EXCEPT ![p] = new]
    BY <1>2, <2>2
  <2>4. OwnRow(u, r)
    BY DEF OwnRow
  <2> HIDE DEF r
  <2>5. new.pc = "i_store" /\ new.id = u /\ new.seen = r /\ new.write = NoWrite /\ new.todo = {}
    BY <1>1 DEF Operation
  <2>6. req'[p] = new /\ \A q \in Process \ {p} : req'[q] = req[q]
    BY <1>1, <2>3 DEF TypeOK
  <2> HIDE DEF new
  <2>7. OwnRequest(p)' /\ Deletes(p)'
    BY <1>1, <2>4, <2>5, <2>6, IdleForm DEF OwnRequest, OwnRow, Deletes, Guards, At
  <2> QED
    BY <1>1, <2>6, <2>7, OwnLight
<1>3. CASE Goto(p, "i_refund") \/ Ends(p)
  BY <1>1, <1>3, OwnGoes
<1> QED
  BY <1>2, <1>3 DEF AcquireSlot, InitiateThrows

LEMMA OwnStore ==
  ASSUME Inv, OwnInv, OwnPath, NEW p \in Process, Store(p)
  PROVE  OwnInv'
<1> DEFINE r == req[p].seen
           u == req[p].id
           w == Upsert(r)
           new == [req[p] EXCEPT !.pc = "commit", !.write = w]
<1>1. /\ TypeOK /\ RowsOK /\ UNCHANGED <<row, objects, fileLock>> /\ OwnRequest(p) /\ req[p] \in Operation
      /\ u \in Attempt /\ mpu[u] = "none" /\ req[p].todo = {} /\ r # Absent /\ r.mpu = u
      /\ mpu' = [mpu EXCEPT ![r.mpu] = "open"] /\ req' = [req EXCEPT ![p] = new]
  BY DEF Inv, OwnInv, Store, redis, TypeOK, RequestOK, Starting, At
<1>2. OwnRow(u, r)
  BY <1>1 DEF OwnRequest
<1>3. w.row = r /\ (w.id = u \/ (w.id \in Attempt /\ row[w.id] # Absent /\ row[w.id].path = r.path))
  <2>1. w = [id |-> IF RecordAt(r.path) = {} THEN r.mpu ELSE CHOOSE id \in RecordAt(r.path) : TRUE, row |-> r]
    BY DEF Upsert
  <2>2. \A c \in RecordAt(r.path) : c \in Attempt /\ row[c] # Absent /\ row[c].path = r.path
    BY DEF RecordAt, Present
  <2>3. RecordAt(r.path) # {} => (CHOOSE id \in RecordAt(r.path) : TRUE) \in RecordAt(r.path)
    OBVIOUS
  <2> QED
    BY <1>1, <2>1, <2>2, <2>3
<1> HIDE DEF w
<1>11. w.id = u
  BY <1>1, <1>2, <1>3 DEF OwnInv, OwnRow, OwnPath, Present
<1>4. new.pc = "commit" /\ new.id = u /\ new.seen = r /\ new.write = w /\ new.todo = {}
  BY <1>1 DEF Operation
<1>5. req'[p] = new /\ \A q \in Process \ {p} : req'[q] = req[q]
  BY <1>1 DEF TypeOK
<1> HIDE DEF new
<1>6. mpu'[u] = "open" /\ \A m \in Attempt \ {u} : mpu'[m] = mpu[m]
  BY <1>1 DEF TypeOK
<1>7. Minds(p)
  BY <1>1, <1>5, <1>6 DEF Minds, Present
<1>8. (\A id \in Attempt : Present(id) => OwnRow(id, row[id]))' /\ Objects'
  BY <1>1, <1>6 DEF OwnInv, Objects, OwnRow, Present
<1>9. Deletes(p)'
  BY <1>4, <1>5 DEF Deletes, Guards, At
<1>10. OwnRequest(p)'
  BY <1>1, <1>2, <1>3, <1>4, <1>5, <1>11 DEF OwnRequest, OwnRow
<1> QED
  BY <1>7, <1>8, <1>9, <1>10, OwnKeeper

LEMMA OwnStoreFails ==
  ASSUME Inv, OwnInv, NEW p \in Process, StoreFails(p)
  PROVE  OwnInv'
<1> DEFINE u == req[p].id
<1>1. /\ TypeOK /\ UNCHANGED <<row, objects, fileLock>> /\ OwnRequest(p) /\ Goto(p, "i_undo")
      /\ u \in Attempt /\ mpu[u] = "none" /\ mpu' \in {mpu, [mpu EXCEPT ![u] = "open"]}
  BY DEF Inv, OwnInv, StoreFails, RequestOK, Starting, At, locks
<1>2. /\ \A q \in Process \ {p} : req'[q] = req[q]
      /\ req'[p].pc = "i_undo" /\ req'[p].id = u /\ req'[p].seen = req[p].seen
      /\ req'[p].write = req[p].write /\ req'[p].todo = req[p].todo
  BY <1>1, GotoForm DEF Location
<1>3. \A m \in Attempt : mpu'[m] = mpu[m] \/ (mpu[m] = "none" /\ mpu'[m] = "open")
  BY <1>1 DEF TypeOK
<1>4. Minds(p)
  BY <1>1, <1>2, <1>3 DEF Minds, Present
<1>5. (\A id \in Attempt : Present(id) => OwnRow(id, row[id]))' /\ Objects'
  BY <1>1, <1>3 DEF OwnInv, Objects, OwnRow, Present
<1>6. OwnRequest(p)' /\ Deletes(p)'
  BY <1>1, <1>2 DEF OwnRequest, OwnRow, Deletes, Guards, At
<1> QED
  BY <1>4, <1>5, <1>6, OwnKeeper

LEMMA OwnCommit ==
  ASSUME Inv, OwnInv, NEW p \in Process, Commit(p)
  PROVE  OwnInv'
<1> DEFINE w == req[p].write
<1>1. /\ TypeOK /\ UNCHANGED <<mpu, objects, fileLock>> /\ Ends(p) /\ OwnRequest(p) /\ w.id \in Attempt \cup {None}
      /\ row' = IF req[p].tx = "open" THEN [row EXCEPT ![w.id] = w.row] ELSE row
      /\ req[p].tx = "open" => w.row # Absent /\ w.id # None
  BY Rows DEF Inv, OwnInv, Commit, store, locks, RequestOK, At
<1>2. CASE req[p].tx # "open"
  BY <1>1, <1>2, OwnFinishes
<1>3. CASE req[p].tx = "open"
  <2>1. w.id \in Attempt /\ OwnRow(w.id, w.row) /\ row' = [row EXCEPT ![w.id] = w.row]
    BY <1>1, <1>3 DEF OwnRequest
  <2>2. row'[w.id] = w.row /\ \A id \in Attempt \ {w.id} : row'[id] = row[id]
    BY <1>1, <2>1 DEF TypeOK
  <2>3. req'[p] = Idle /\ \A q \in Process \ {p} : req'[q] = req[q]
    BY <1>1, EndsForm
  <2>4. Minds(p)
    BY <1>1, <1>3, <2>2, <2>3 DEF Minds, Present
  <2>5. (\A id \in Attempt : Present(id) => OwnRow(id, row[id]))'
    BY <2>1, <2>2 DEF OwnInv, OwnRow, Present
  <2>6. Objects'
    BY <1>1, <1>3, <2>2 DEF OwnInv, Objects, Present
  <2>7. OwnRequest(p)' /\ Deletes(p)'
    BY <2>3, IdleForm DEF OwnRequest, Deletes, Guards, At
  <2> QED
    BY <2>4, <2>5, <2>6, <2>7, OwnKeeper
<1> QED
  BY <1>2, <1>3

\* The upload is completed while its record is there and nobody else may delete it.
LEMMA OwnCompleteInStore ==
  ASSUME Inv, OwnInv, OwnPath, NEW p \in Process, CompleteInStore(p)
  PROVE  OwnInv'
<1> DEFINE s == req[p].seen
           id == req[p].id
<1>1. /\ TypeOK /\ UNCHANGED <<row, fileLock>> /\ OwnRequest(p) /\ Deletes(p) /\ At(p, "c_store") /\ s # Absent
      /\ mpu[s.mpu] = "open" /\ mpu' = [mpu EXCEPT ![s.mpu] = "completed"] /\ objects' = objects \cup {s.path}
  BY DEF Inv, OwnInv, CompleteInStore, locks, RequestOK, At
<1>2. id \in Attempt /\ s.mpu = id /\ s.path = Wanted[id] /\ fileLock[id] = p /\ Present(id)
  BY <1>1 DEF OwnRequest, OwnRow, Deletes, Guards, At
<1>3. /\ \A q \in Process \ {p} : req'[q] = req[q]
      /\ req'[p].pc \in {"c_update", "c_catch"} /\ req'[p].id = id /\ req'[p].seen = s
      /\ req'[p].write = req[p].write /\ req'[p].todo = req[p].todo
  <2>1. PICK pc \in {"c_update", "c_catch"} : Goto(p, pc)
    BY DEF CompleteInStore
  <2> QED
    BY <1>1, <2>1, GotoForm DEF Location
<1>4. mpu'[id] = "completed" /\ \A m \in Attempt \ {id} : mpu'[m] = mpu[m]
  BY <1>1, <1>2 DEF TypeOK
<1>5. Minds(p)
  BY <1>1, <1>2, <1>3, <1>4 DEF Minds, Present
<1>6. (\A x \in Attempt : Present(x) => OwnRow(x, row[x]))'
  BY <1>1 DEF OwnInv, OwnRow, Present
<1>7. Objects'
  <2>1. \A x \in Attempt : mpu'[x] = "completed" <=> Wanted[x] \in objects'
    BY <1>1, <1>2, <1>4 DEF OwnInv, Objects, OwnPath
  <2>2. \A path \in objects' : \E x \in Attempt : path = Wanted[x]
    BY <1>1, <1>2 DEF OwnInv, Objects
  <2>3. \A x \in Attempt : mpu'[x] = "completed" => row'[x] # Absent
    BY <1>1, <1>2, <1>4 DEF OwnInv, Objects, Present
  <2> QED
    BY <2>1, <2>2, <2>3 DEF Objects, Present
<1>8. OwnRequest(p)'
  BY <1>1, <1>3 DEF OwnRequest, OwnRow
<1>9. Deletes(p)'
  BY <1>1, <1>2, <1>3 DEF Deletes, Guards, At
<1> QED
  BY <1>5, <1>6, <1>7, <1>8, <1>9, OwnKeeper

LEMMA OwnCompleteInStoreFails ==
  ASSUME Inv, OwnInv, NEW p \in Process, CompleteInStoreFails(p)
  PROVE  OwnInv'
<1> DEFINE s == req[p].seen
           id == req[p].id
<1>1. /\ TypeOK /\ UNCHANGED <<row, objects, fileLock>> /\ OwnRequest(p) /\ Deletes(p) /\ At(p, "c_store") /\ s # Absent
      /\ (mpu' = mpu \/ (mpu[s.mpu] = "open" /\ mpu' = [mpu EXCEPT ![s.mpu] = "aborted"])) /\ Goto(p, "c_catch")
  BY DEF Inv, OwnInv, CompleteInStoreFails, locks, RequestOK, At
<1>2. id \in Attempt /\ s.mpu = id /\ fileLock[id] = p
  BY <1>1 DEF OwnRequest, OwnRow, Deletes, Guards, At
<1>3. /\ \A q \in Process \ {p} : req'[q] = req[q]
      /\ req'[p].pc = "c_catch" /\ req'[p].id = id /\ req'[p].seen = s
      /\ req'[p].write = req[p].write /\ req'[p].todo = req[p].todo
  BY <1>1, GotoForm DEF Location
<1>4. \A m \in Attempt : mpu'[m] = mpu[m] \/ (mpu[m] = "open" /\ mpu'[m] = "aborted")
  BY <1>1, <1>2 DEF TypeOK
<1>5. Minds(p)
  BY <1>1, <1>3, <1>4 DEF Minds, Present
<1>6. (\A x \in Attempt : Present(x) => OwnRow(x, row[x]))' /\ Objects'
  BY <1>1, <1>4 DEF OwnInv, Objects, OwnRow, Present
<1>7. OwnRequest(p)' /\ Deletes(p)'
  BY <1>1, <1>2, <1>3 DEF OwnRequest, OwnRow, Deletes, Guards, At
<1> QED
  BY <1>5, <1>6, <1>7, OwnKeeper

LEMMA OwnCompleteUpdate ==
  ASSUME Inv, OwnInv, NEW p \in Process, CompleteUpdate(p)
  PROVE  OwnInv'
<1> DEFINE r == req[p]
           done == [r.seen EXCEPT !.st = "uploaded", !.age = 0]
           w == [id |-> r.id, row |-> done]
           new == [r EXCEPT !.pc = "c_finalize", !.write = w]
<1>1. /\ TypeOK /\ UNCHANGED <<row, mpu, objects, fileLock>> /\ r \in Operation /\ r.pc = "c_update"
      /\ OwnRequest(p) /\ Deletes(p) /\ r.seen # Absent
  BY DEF Inv, OwnInv, TypeOK, CompleteUpdate, At, store, locks, RequestOK
<1>2. r.seen \in Row /\ OwnRow(r.id, r.seen)
  BY <1>1, Rows DEF OwnRequest
<1>3. CASE req' = [req EXCEPT ![p] = new]
  <2>1. OwnRow(r.id, done)
    BY <1>2, Written DEF OwnRow
  <2> HIDE DEF done
  <2>2. w.id = r.id /\ w.row = done
    OBVIOUS
  <2> HIDE DEF w
  <2>3. new.pc = "c_finalize" /\ new.id = r.id /\ new.seen = r.seen /\ new.write = w /\ new.todo = r.todo
    BY <1>1 DEF Operation
  <2>4. req'[p] = new /\ \A q \in Process \ {p} : req'[q] = req[q]
    BY <1>1, <1>3 DEF TypeOK
  <2> HIDE DEF new
  <2>5. OwnRequest(p)' /\ Deletes(p)'
    BY <1>1, <2>1, <2>2, <2>3, <2>4 DEF OwnRequest, OwnRow, Deletes, Guards, At
  <2> QED
    BY <1>1, <2>4, <2>5, OwnLight
<1>4. CASE Goto(p, "c_catch")
  BY <1>1, <1>4, OwnGoes DEF At
<1> QED
  BY <1>3, <1>4 DEF CompleteUpdate

LEMMA OwnCompleteCatch ==
  ASSUME Inv, OwnInv, NEW p \in Process, CompleteCatch(p)
  PROVE  OwnInv'
<1> DEFINE r == req[p]
<1>1. /\ TypeOK /\ UNCHANGED <<row, mpu, objects, fileLock>> /\ r.pc = "c_catch" /\ r \in Operation
      /\ OwnRequest(p) /\ Deletes(p)
  BY DEF Inv, OwnInv, TypeOK, CompleteCatch, At, store, locks
<1>2. CASE Goto(p, "c_finally")
  BY <1>1, <1>2, OwnGoes
<1>3. CASE Uploading(r.id) /\ req' = [req EXCEPT ![p].pc = "a_delete", ![p].seen = row[r.id]]
  <2> DEFINE new == [r EXCEPT !.pc = "a_delete", !.seen = row[r.id]]
  <2>1. r.id \in Attempt /\ fileLock[r.id] = p
    BY <1>1 DEF Deletes, Guards
  <2>2. OwnRow(r.id, row[r.id])
    BY <1>3, <2>1 DEF OwnInv, Uploading
  <2>3. new.pc = "a_delete" /\ new.id = r.id /\ new.seen = row[r.id] /\ new.write = r.write /\ new.todo = r.todo
    BY <1>1 DEF Operation
  <2>4. req' = [req EXCEPT ![p] = new]
    BY <1>3
  <2>5. req'[p] = new /\ \A q \in Process \ {p} : req'[q] = req[q]
    BY <1>1, <2>4 DEF TypeOK
  <2> HIDE DEF new
  <2>6. OwnRequest(p)' /\ Deletes(p)'
    BY <1>1, <2>1, <2>2, <2>3, <2>5 DEF OwnRequest, OwnRow, Deletes, Guards, At
  <2> QED
    BY <1>1, <2>5, <2>6, OwnLight
<1> QED
  BY <1>2, <1>3 DEF CompleteCatch

\* The deletion goes on only where there is no object.
LEMMA OwnAbortDelete ==
  ASSUME Inv, OwnInv, ~ StatErrorMeansAbsent, NEW p \in Process, AbortDelete(p)
  PROVE  OwnInv'
<1> DEFINE r == req[p]
           id == r.id
           w == [id |-> r.id, row |-> Absent]
           new == [r EXCEPT !.pc = "a_commit", !.write = w]
<1>1. /\ TypeOK /\ r \in Operation /\ r.pc = "a_delete" /\ UNCHANGED <<row, objects>>
      /\ OwnRequest(p) /\ Deletes(p) /\ r.seen # Absent
  BY DEF Inv, OwnInv, TypeOK, AbortDelete, At, RequestOK
<1>2. id \in Attempt /\ r.seen.mpu = id /\ r.seen.path = Wanted[id] /\ fileLock[id] = p
  BY <1>1 DEF OwnRequest, OwnRow, Deletes, Guards
<1>3. CASE /\ req' = [req EXCEPT ![p] = new] /\ UNCHANGED fileLock
           /\ \/ mpu[id] = "open" /\ mpu' = [mpu EXCEPT ![id] = "aborted"]
              \/ FALSE \in ObjectExists(Wanted[id]) /\ UNCHANGED mpu
  <2>1. w.id = id /\ w.row = Absent
    OBVIOUS
  <2> HIDE DEF w
  <2>2. new.pc = "a_commit" /\ new.id = id /\ new.seen = r.seen /\ new.write = w /\ new.todo = r.todo
    BY <1>1 DEF Operation
  <2>3. req'[p] = new /\ \A q \in Process \ {p} : req'[q] = req[q]
    BY <1>1, <1>3 DEF TypeOK
  <2> HIDE DEF new
  <2>4. \A m \in Attempt : mpu'[m] = mpu[m] \/ (mpu[m] = "open" /\ mpu'[m] = "aborted")
    BY <1>1, <1>2, <1>3 DEF TypeOK
  <2>5. mpu'[id] # "completed"
    <3>1. CASE mpu[id] = "open" /\ mpu' = [mpu EXCEPT ![id] = "aborted"]
      BY <1>1, <1>2, <3>1 DEF TypeOK
    <3>2. CASE FALSE \in ObjectExists(Wanted[id]) /\ UNCHANGED mpu
      <4>1. Wanted[id] \notin objects
        BY <3>2 DEF ObjectExists
      <4> QED
        BY <1>2, <3>2, <4>1 DEF OwnInv, Objects
    <3> QED
      BY <1>3, <3>1, <3>2
  <2>6. Minds(p)
    BY <1>1, <1>3, <2>3, <2>4 DEF Minds, Present
  <2>7. (\A x \in Attempt : Present(x) => OwnRow(x, row[x]))' /\ Objects'
    BY <1>1, <2>4 DEF OwnInv, Objects, OwnRow, Present
  <2>8. OwnRequest(p)' /\ Deletes(p)'
    BY <1>1, <1>2, <1>3, <2>1, <2>2, <2>3, <2>5 DEF OwnRequest, OwnRow, Deletes, Guards, At
  <2> QED
    BY <2>6, <2>7, <2>8, OwnKeeper
<1>4. CASE AbortReturns(p, TRUE) /\ UNCHANGED mpu
  BY <1>1, <1>4, OwnReturns
<1> QED
  BY <1>2, <1>3, <1>4 DEF AbortDelete

LEMMA OwnAbortCommit ==
  ASSUME Inv, OwnInv, NEW p \in Process, AbortCommit(p)
  PROVE  OwnInv'
<1> DEFINE r == req[p]
<1>1. /\ TypeOK /\ r \in Operation /\ r.pc = "a_commit" /\ UNCHANGED <<mpu, objects>>
      /\ OwnRequest(p) /\ Deletes(p)
  BY DEF Inv, OwnInv, TypeOK, AbortCommit, At, store
<1>2. r.id \in Attempt /\ fileLock[r.id] = p /\ mpu[r.id] # "completed"
  BY <1>1 DEF Deletes, Guards, At
<1>3. CASE /\ row' = [row EXCEPT ![r.id] = Absent] /\ UNCHANGED fileLock
           /\ req' = [req EXCEPT ![p].pc = "a_refund", ![p].write = NoWrite]
  <2> DEFINE new == [r EXCEPT !.pc = "a_refund", !.write = NoWrite]
  <2>1. new.pc = "a_refund" /\ new.id = r.id /\ new.seen = r.seen /\ new.write = NoWrite /\ new.todo = r.todo
    BY <1>1 DEF Operation
  <2>2. req' = [req EXCEPT ![p] = new]
    BY <1>3
  <2>3. req'[p] = new /\ \A q \in Process \ {p} : req'[q] = req[q]
    BY <1>1, <2>2 DEF TypeOK
  <2> HIDE DEF new
  <2>4. row'[r.id] = Absent /\ \A id \in Attempt \ {r.id} : row'[id] = row[id]
    BY <1>1, <1>2, <1>3 DEF TypeOK
  <2>5. Minds(p)
    BY <1>1, <1>2, <1>3, <2>3, <2>4 DEF Minds, Present
  <2>6. (\A x \in Attempt : Present(x) => OwnRow(x, row[x]))' /\ Objects'
    BY <1>1, <1>2, <2>4 DEF OwnInv, Objects, OwnRow, Present
  <2>7. OwnRequest(p)' /\ Deletes(p)'
    BY <1>1, <2>1, <2>3, IdleForm DEF OwnRequest, OwnRow, Deletes, Guards, At
  <2> QED
    BY <2>5, <2>6, <2>7, OwnKeeper
<1>4. CASE /\ UNCHANGED <<row, fileLock>>
           /\ req' = [req EXCEPT ![p].pc = "c_finally", ![p].write = NoWrite]
  <2> DEFINE new == [r EXCEPT !.pc = "c_finally", !.write = NoWrite]
  <2>1. new.pc = "c_finally" /\ new.id = r.id /\ new.seen = r.seen /\ new.write = NoWrite /\ new.todo = r.todo
    BY <1>1 DEF Operation
  <2>2. req' = [req EXCEPT ![p] = new]
    BY <1>4
  <2>3. req'[p] = new /\ \A q \in Process \ {p} : req'[q] = req[q]
    BY <1>1, <2>2 DEF TypeOK
  <2> HIDE DEF new
  <2> QED
    BY <1>1, <1>4, <2>1, <2>3, OwnRelaxes DEF Guards
<1>5. CASE AbortReturns(p, TRUE) /\ UNCHANGED row
  BY <1>1, <1>5, OwnReturns
<1> QED
  BY <1>3, <1>4, <1>5 DEF AbortCommit

LEMMA OwnHeartbeatUpdate ==
  ASSUME Inv, OwnInv, NEW p \in Process, HeartbeatUpdate(p)
  PROVE  OwnInv'
<1> DEFINE r == req[p]
           w == [r.seen EXCEPT !.age = 0]
<1>1. /\ TypeOK /\ Ends(p) /\ UNCHANGED <<mpu, objects, fileLock>> /\ OwnRequest(p)
      /\ row' = IF Present(r.id) THEN [row EXCEPT ![r.id] = w] ELSE row
      /\ r.id \in Attempt /\ r.seen # Absent
  BY DEF Inv, OwnInv, HeartbeatUpdate, At, store, locks, RequestOK
<1>2. CASE ~ Present(r.id)
  BY <1>1, <1>2, OwnFinishes
<1>3. CASE Present(r.id)
  <2>1. OwnRow(r.id, w)
    <3>1. r.seen \in Row /\ OwnRow(r.id, r.seen)
      BY <1>1, Rows DEF OwnRequest
    <3> QED
      BY <3>1, Written DEF OwnRow
  <2> HIDE DEF w
  <2>2. w # Absent
    <3>1. r.seen \in Row
      BY <1>1, Rows
    <3>2. w \in Row
      BY <3>1, Written DEF w
    <3> QED
      BY <3>2, SetAssumption DEF Row
  <2>3. row'[r.id] = w /\ \A id \in Attempt \ {r.id} : row'[id] = row[id]
    BY <1>1, <1>3 DEF TypeOK
  <2>4. req'[p] = Idle /\ \A q \in Process \ {p} : req'[q] = req[q]
    BY <1>1, EndsForm
  <2>5. Minds(p)
    BY <1>1, <2>2, <2>3, <2>4 DEF Minds, Present
  <2>6. (\A x \in Attempt : Present(x) => OwnRow(x, row[x]))' /\ Objects'
    BY <1>1, <2>1, <2>2, <2>3 DEF OwnInv, Objects, OwnRow, Present
  <2>7. OwnRequest(p)' /\ Deletes(p)'
    BY <2>4, IdleForm DEF OwnRequest, Deletes, Guards, At
  <2> QED
    BY <2>5, <2>6, <2>7, OwnKeeper
<1> QED
  BY <1>2, <1>3

LEMMA OwnCleanupAbort ==
  ASSUME Inv, OwnInv, NEW t \in req[Cleaner].todo, CleanupAbort(t)
  PROVE  OwnInv'
<1> DEFINE r == req[Cleaner]
<1>1. /\ TypeOK /\ Cleaner \in Process /\ r \in Operation /\ r.pc = "next" /\ UNCHANGED <<row, objects, fileLock>>
      /\ OwnRequest(Cleaner)
  BY DEF Inv, OwnInv, TypeOK, CleanupAbort, At, locks, Process
<1>2. t.id \in Attempt /\ OwnRow(t.id, t.row)
  BY <1>1, Rows DEF OwnRequest
<1>3. CASE /\ mpu[t.row.mpu] = "open" /\ mpu' = [mpu EXCEPT ![t.row.mpu] = "aborted"]
           /\ req' = [req EXCEPT ![Cleaner].pc = "k_delete", ![Cleaner].id = t.id, ![Cleaner].seen = t.row]
  <2> DEFINE new == [r EXCEPT !.pc = "k_delete", !.id = t.id, !.seen = t.row]
  <2>1. new.pc = "k_delete" /\ new.id = t.id /\ new.seen = t.row /\ new.write = r.write /\ new.todo = r.todo
    BY <1>1 DEF Operation
  <2>2. req' = [req EXCEPT ![Cleaner] = new]
    BY <1>3
  <2>3. req'[Cleaner] = new /\ \A q \in Process \ {Cleaner} : req'[q] = req[q]
    BY <1>1, <2>2 DEF TypeOK
  <2> HIDE DEF new
  <2>4. /\ mpu'[t.id] = "aborted"
        /\ \A m \in Attempt : mpu'[m] = mpu[m] \/ (mpu[m] = "open" /\ mpu'[m] = "aborted")
    BY <1>1, <1>2, <1>3 DEF TypeOK, OwnRow
  <2>5. Minds(Cleaner)
    BY <1>1, <2>3, <2>4 DEF Minds, Present
  <2>6. (\A x \in Attempt : Present(x) => OwnRow(x, row[x]))' /\ Objects'
    BY <1>1, <2>4 DEF OwnInv, Objects, OwnRow, Present
  <2>7. OwnRequest(Cleaner)' /\ Deletes(Cleaner)'
    BY <1>1, <1>2, <2>1, <2>3, <2>4 DEF OwnRequest, OwnRow, Deletes, Guards, At
  <2> QED
    BY <1>1, <2>5, <2>6, <2>7, OwnKeeper
<1>4. CASE req' = [req EXCEPT ![Cleaner].todo = @ \ {t}] /\ UNCHANGED mpu
  <2> DEFINE new == [r EXCEPT !.todo = r.todo \ {t}]
  <2>1. new.pc = "next" /\ new.id = r.id /\ new.seen = r.seen /\ new.write = r.write /\ new.todo \subseteq r.todo
    BY <1>1 DEF Operation
  <2>2. req' = [req EXCEPT ![Cleaner] = new]
    BY <1>4
  <2>3. req'[Cleaner] = new /\ \A q \in Process \ {Cleaner} : req'[q] = req[q]
    BY <1>1, <2>2 DEF TypeOK
  <2> HIDE DEF new
  <2> QED
    BY <1>1, <1>4, <2>1, <2>3, OwnRelaxes DEF Guards
<1> QED
  BY <1>3, <1>4 DEF CleanupAbort

\* The worker deletes what it has aborted, and what is aborted is never completed.
LEMMA OwnCleanupDelete ==
  ASSUME Inv, OwnInv, CleanupDelete
  PROVE  OwnInv'
<1> DEFINE r == req[Cleaner]
<1>1. /\ TypeOK /\ Cleaner \in Process /\ r.pc = "k_delete" /\ UNCHANGED <<mpu, objects>>
      /\ OwnRequest(Cleaner) /\ r.id \in Attempt /\ mpu[r.id] = "aborted"
  BY DEF Inv, OwnInv, CleanupDelete, At, store, Process, RequestOK, Deletes
<1>2. CASE row' = [row EXCEPT ![r.id] = Absent] /\ Goto(Cleaner, "a_refund") /\ UNCHANGED fileLock
  <2>1. /\ \A q \in Process \ {Cleaner} : req'[q] = req[q]
        /\ req'[Cleaner].pc = "a_refund" /\ req'[Cleaner].id = r.id /\ req'[Cleaner].seen = r.seen
        /\ req'[Cleaner].write = r.write /\ req'[Cleaner].todo = r.todo
    BY <1>1, <1>2, GotoForm DEF Location
  <2>2. row'[r.id] = Absent /\ \A id \in Attempt \ {r.id} : row'[id] = row[id]
    BY <1>1, <1>2 DEF TypeOK
  <2>3. Minds(Cleaner)
    BY <1>1, <1>2, <2>1, <2>2 DEF Minds, Present
  <2>4. (\A x \in Attempt : Present(x) => OwnRow(x, row[x]))' /\ Objects'
    BY <1>1, <2>2 DEF OwnInv, Objects, OwnRow, Present
  <2>5. OwnRequest(Cleaner)' /\ Deletes(Cleaner)'
    BY <1>1, <2>1 DEF OwnRequest, OwnRow, Deletes, Guards, At
  <2> QED
    BY <1>1, <2>3, <2>4, <2>5, OwnKeeper
<1>3. CASE AbortReturns(Cleaner, FALSE) /\ UNCHANGED row
  BY <1>1, <1>3, OwnReturns
<1> QED
  BY <1>2, <1>3 DEF CleanupDelete

\* Time and failures.
LEMMA OwnEnvironment ==
  ASSUME Inv, OwnInv, Environment
  PROVE  OwnInv'
<1>0. TypeOK
  BY DEF Inv
<1>1. ASSUME NEW id \in Attempt, Age(id) PROVE OwnInv'
  <2> DEFINE w == [row[id] EXCEPT !.age = row[id].age + 1]
  <2>1. /\ UNCHANGED <<mpu, objects, fileLock, req>> /\ row' = [row EXCEPT ![id] = w]
        /\ Present(id) /\ row[id] \in Row /\ row[id].age < 2
    BY <1>0, <1>1 DEF TypeOK, Age, Uploading, Present, store, locks
  <2>2. w \in Row /\ w.mpu = row[id].mpu /\ w.path = row[id].path
    BY <2>1, Written
  <2>3. w # Absent
    BY <2>2, SetAssumption DEF Row
  <2> HIDE DEF w
  <2>4. row'[id] = w /\ \A x \in Attempt \ {id} : row'[x] = row[x]
    BY <1>0, <2>1 DEF TypeOK
  <2>5. (\A x \in Attempt : Present(x) => OwnRow(x, row[x]))' /\ Objects'
    BY <2>1, <2>2, <2>3, <2>4 DEF OwnInv, Objects, OwnRow, Present
  <2>6. \A x \in Attempt : row[x] # Absent => row'[x] # Absent
    BY <2>3, <2>4
  <2>7. \A p \in Process : OwnRequest(p)' /\ Deletes(p)'
    <3> TAKE p \in Process
    <3>1. OwnRequest(p) /\ Deletes(p) /\ (At(p, "c_store") => req[p].id \in Attempt)
      BY DEF OwnInv, Deletes, Guards, At
    <3> QED
      BY <2>1, <2>6, <3>1 DEF OwnRequest, OwnRow, Deletes, Guards, At, Present
  <2> QED
    BY <2>5, <2>7 DEF OwnInv
<1>2. ASSUME NEW p \in Process, TxTimeout(p) PROVE OwnInv'
  <2> DEFINE r == req[p]
             new == [r EXCEPT !.tx = "closed", !.write = NoWrite]
  <2>1. /\ UNCHANGED <<row, mpu, objects, fileLock>> /\ req' = [req EXCEPT ![p] = new] /\ r \in Operation
        /\ OwnRequest(p) /\ Deletes(p)
    BY <1>0, <1>2 DEF TxTimeout, TypeOK, OwnInv, store, locks
  <2>2. new.pc = r.pc /\ new.id = r.id /\ new.seen = r.seen /\ new.write = NoWrite /\ new.todo = r.todo
    BY <2>1 DEF Operation
  <2>3. req'[p] = new /\ \A q \in Process \ {p} : req'[q] = req[q]
    BY <1>0, <2>1 DEF TypeOK
  <2> HIDE DEF new
  <2>4. OwnRequest(p)' /\ Deletes(p)'
    BY <2>1, <2>2, <2>3, IdleForm DEF OwnRequest, OwnRow, Deletes, Guards, At, Present
  <2> QED
    BY <2>1, <2>3, <2>4, OwnLight
<1>3. ASSUME NEW p \in Process, Crash(p) PROVE OwnInv'
  <2>1. /\ UNCHANGED <<row, mpu, objects>> /\ Ends(p)
        /\ fileLock' = [id \in Attempt |-> IF fileLock[id] = p THEN Dead ELSE fileLock[id]]
    BY <1>3 DEF Crash, store
  <2>2. \A id \in Attempt, q \in Process \ {p} : fileLock[id] = q => fileLock'[id] = q
    BY <2>1
  <2> QED
    BY <2>1, <2>2, OwnFinishes
<1>4. CASE SlotsExpire \/ ReservedExpires \/ QuotaLockStrays
  <2>1. UNCHANGED <<row, mpu, objects, fileLock, req>>
    BY <1>4 DEF SlotsExpire, ReservedExpires, QuotaLockStrays, store, locks
  <2> QED
    BY <2>1 DEF OwnInv, Objects, OwnRow, Present, OwnRequest, Deletes, Guards, At
<1>5. CASE LocksExpire
  <2>1. /\ UNCHANGED <<row, mpu, objects, req>>
        /\ fileLock' = [id \in Attempt |-> IF fileLock[id] = Dead THEN None ELSE fileLock[id]]
    BY <1>5 DEF LocksExpire, store
  <2>2. \A id \in Attempt, q \in Process : fileLock[id] = q => fileLock'[id] = q
    BY <2>1, SetAssumption DEF Process
  <2> QED
    BY <2>1, <2>2 DEF OwnInv, Objects, OwnRow, Present, OwnRequest, Deletes, Guards, At
<1> QED
  BY <1>1, <1>2, <1>3, <1>4, <1>5 DEF Environment

LEMMA OwnInitially == Init => OwnInv
<1> SUFFICES ASSUME Init PROVE OwnInv
  OBVIOUS
<1>1. \A p \in Process : req[p] = Idle
  BY DEF Init
<1>2. \A id \in Attempt : ~ Present(id) /\ mpu[id] = "none"
  BY DEF Init, Present
<1>3. Objects
  BY <1>2 DEF Init, Objects
<1>4. \A p \in Process : OwnRequest(p) /\ Deletes(p)
  BY <1>1, IdleForm DEF OwnRequest, Deletes, Guards, At
<1> QED
  BY <1>2, <1>3, <1>4 DEF OwnInv

LEMMA OwnStepKeeps ==
  ASSUME Inv, OwnInv, OwnPath, ~ StatErrorMeansAbsent, [Next]_vars
  PROVE  OwnInv'
<1>1. CASE UNCHANGED vars
  BY <1>1 DEF OwnInv, Objects, OwnRow, Present, OwnRequest, Deletes, Guards, At, vars, store, locks
<1>2. ASSUME NEW p \in Request, Starts(p) PROVE OwnInv'
  <2>1. CASE BeginClear(p)
    <3>1. UNCHANGED <<row, mpu, objects, fileLock>> /\ p \in Process
      BY <2>1 DEF BeginClear, store, locks, Process
    <3>2. req' = [req EXCEPT ![p] = [Idle EXCEPT !.pc = "next", !.op = "clear", !.todo = Listed(Active)]]
      BY <2>1 DEF BeginClear
    <3> QED
      BY <3>1, <3>2, OwnLists
  <2> QED
    BY <1>2, <2>1, OwnBegins DEF Starts
<1>3. ASSUME NEW p \in Process, Continues(p) PROVE OwnInv'
  <2>1. CASE \/ TakeQuotaLock(p) \/ QuotaLockBusy(p) \/ Refund(p) \/ Reserve(p) \/ Finalize(p)
             \/ CompleteFinally(p) \/ ClearSlots(p)
    BY <2>1, OwnQuiet
  <2>2. CASE AcquireSlot(p) \/ Store(p) \/ StoreFails(p) \/ Commit(p)
    BY <2>2, OwnAcquireSlot, OwnStore, OwnStoreFails, OwnCommit
  <2>3. CASE CompleteInStore(p) \/ CompleteInStoreFails(p) \/ CompleteUpdate(p) \/ CompleteCatch(p)
    BY <2>3, OwnCompleteInStore, OwnCompleteInStoreFails, OwnCompleteUpdate, OwnCompleteCatch
  <2>4. CASE AbortDelete(p) \/ AbortCommit(p) \/ HeartbeatUpdate(p)
    BY <2>4, OwnAbortDelete, OwnAbortCommit, OwnHeartbeatUpdate
  <2>5. CASE \E t \in req[p].todo : ClearNext(p, t)
    BY <2>5, OwnClearNext
  <2> QED
    BY <1>3, <2>1, <2>2, <2>3, <2>4, <2>5 DEF Continues
<1>4. CASE Cleans
  <2>1. CASE BeginCleanup
    <3> DEFINE stale == {id \in Active : row[id].age = 2}
    <3>1. UNCHANGED <<row, mpu, objects, fileLock>> /\ Cleaner \in Process /\ stale \in SUBSET Active
      BY <2>1 DEF BeginCleanup, store, locks, Process
    <3>2. req' = [req EXCEPT ![Cleaner] = [Idle EXCEPT !.pc = "next", !.op = "cleanup", !.todo = Listed(stale)]]
      BY <2>1 DEF BeginCleanup
    <3> HIDE DEF stale
    <3> QED
      BY <3>1, <3>2, OwnLists
  <2>2. CASE EndCleanup
    BY <2>2, OwnQuiet DEF Process
  <2> QED
    BY <1>4, <2>1, <2>2, OwnCleanupAbort, OwnCleanupDelete DEF Cleans
<1>5. CASE Environment
  BY <1>5, OwnEnvironment
<1> QED
  BY <1>1, <1>2, <1>3, <1>4, <1>5 DEF Next

\* What complete, abort, cleanup and the transactions promise together: an object in the
\* store always has its record.  It holds when every attempt asks for a path of its own, as
\* far as the answer of objectExists can be trusted.
THEOREM ObjectsHaveRecords ==
  ASSUME OwnPath, ~ StatErrorMeansAbsent
  PROVE  Spec => []NoOrphanObject
<1>1. Inv /\ OwnInv /\ [Next]_vars => OwnInv'
  BY OwnStepKeeps
<1>2. Inv /\ OwnInv => NoOrphanObject
  <2> SUFFICES ASSUME OwnInv, NEW path \in objects PROVE RecordAt(path) # {}
    BY DEF NoOrphanObject
  <2>1. PICK id \in Attempt : path = Wanted[id]
    BY DEF OwnInv, Objects
  <2>2. Present(id) /\ row[id].path = path
    BY <2>1 DEF OwnInv, Objects, OwnRow
  <2> QED
    BY <2>2 DEF RecordAt
<1> QED
  BY <1>1, <1>2, OwnInitially, Always, PTL DEF Spec

-----------------------------------------------------------------------------
(* Sums over finite sets.                                                   *)

Pick(s) == CHOOSE x \in s : TRUE

\* f sums up w over the subsets of S.
Sums(w, S, f) == f = [s \in SUBSET S |-> IF s = {} THEN 0 ELSE w[Pick(s)] + f[s \ {Pick(s)}]]
Sum(w, S) == (CHOOSE f : Sums(w, S, f))[S]

\* Among some subsets of a finite set one has none of the others inside.
LEMMA LeastSubset ==
  ASSUME NEW D, IsFiniteSet(D), NEW B \in SUBSET SUBSET D, B # {}
  PROVE  \E S \in B : \A T \in B : T \subseteq S => T = S
<1>1. IsWellFoundedOn(StrictSubsetOrdering(D), FiniteSubsetsOf(D)) /\ FiniteSubsetsOf(D) = SUBSET D
  BY FS_StrictSubsetOrderingWellFounded, FS_FiniteSubsetsOfFinite
<1>2. PICK S \in B : \A T \in B : ~(<<T, S>> \in StrictSubsetOrdering(D))
  BY <1>1, WFMin
<1>3. ASSUME NEW T \in B, T \subseteq S, T # S PROVE FALSE
  <2>1. <<T, S>> \in (SUBSET D) \X (SUBSET D) /\ <<T, S>>[1] = T /\ <<T, S>>[2] = S
    OBVIOUS
  <2> QED
    BY <1>2, <1>3, <2>1 DEF StrictSubsetOrdering
<1> QED
  BY <1>3

LEMMA Picked ==
  ASSUME NEW s, s # {}
  PROVE  Pick(s) \in s
BY DEF Pick

\* What sums up w does so on every subset.
LEMMA SumsAt ==
  ASSUME NEW w, NEW S, NEW f, Sums(w, S, f), NEW s \in SUBSET S
  PROVE  f[s] = IF s = {} THEN 0 ELSE w[Pick(s)] + f[s \ {Pick(s)}]
BY DEF Sums

\* Two functions that sum up w agree.
LEMMA SumsAgree ==
  ASSUME NEW D, IsFiniteSet(D), NEW w, NEW S \in SUBSET D, NEW T \in SUBSET D,
         NEW f, Sums(w, S, f), NEW g, Sums(w, T, g), NEW s \in SUBSET S, s \subseteq T
  PROVE  f[s] = g[s]
<1> DEFINE B == {t \in SUBSET D : t \subseteq S /\ t \subseteq T /\ f[t] # g[t]}
<1> SUFFICES ASSUME B # {} PROVE FALSE
  OBVIOUS
<1>a. /\ B \in SUBSET SUBSET D
      /\ \A t \in SUBSET D : t \in B <=> t \subseteq S /\ t \subseteq T /\ f[t] # g[t]
  OBVIOUS
<1> HIDE DEF B
<1>1. PICK t \in B : \A u \in B : u \subseteq t => u = t
  BY <1>a, LeastSubset
<1>b. t \in SUBSET S /\ t \in SUBSET T /\ t \in SUBSET D /\ f[t] # g[t]
  BY <1>1, <1>a
<1>2. f[t] = (IF t = {} THEN 0 ELSE w[Pick(t)] + f[t \ {Pick(t)}])
  BY <1>b DEF Sums
<1>3. g[t] = (IF t = {} THEN 0 ELSE w[Pick(t)] + g[t \ {Pick(t)}])
  BY <1>b DEF Sums
<1>4. t # {}
  BY <1>b, <1>2, <1>3
<1>5. Pick(t) \in t
  BY <1>4, Picked
<1>6. f[t \ {Pick(t)}] = g[t \ {Pick(t)}]
  <2>1. t \ {Pick(t)} \in SUBSET D /\ t \ {Pick(t)} \subseteq S /\ t \ {Pick(t)} \subseteq T /\ t \ {Pick(t)} # t
    BY <1>b, <1>5
  <2> QED
    BY <1>1, <1>a, <2>1
<1> QED
  BY <1>b, <1>2, <1>3, <1>4, <1>6

\* There is a function that sums up w.
LEMMA SumsExist ==
  ASSUME NEW D, IsFiniteSet(D), NEW w, NEW S \in SUBSET D
  PROVE  \E f : Sums(w, S, f)
<1> DEFINE B == {t \in SUBSET D : ~ \E f : Sums(w, t, f)}
<1> SUFFICES ASSUME B # {} PROVE FALSE
  OBVIOUS
<1>a. /\ B \in SUBSET SUBSET D
      /\ \A t \in SUBSET D : t \in B <=> ~ \E f : Sums(w, t, f)
  OBVIOUS
<1> HIDE DEF B
<1>1. PICK t \in B : \A u \in B : u \subseteq t => u = t
  BY <1>a, LeastSubset
<1>b. t \in SUBSET D /\ ~ \E f : Sums(w, t, f)
  BY <1>1, <1>a
<1>2. \A u \in SUBSET t : u # t => Sums(w, u, CHOOSE f : Sums(w, u, f))
  <2>1. ASSUME NEW u \in SUBSET t, u # t PROVE \E f : Sums(w, u, f)
    BY <1>a, <1>b, <1>1, <2>1
  <2> QED
    BY <2>1
<1> DEFINE g == [s \in SUBSET t |-> IF s = {} THEN 0 ELSE w[Pick(s)] + Sum(w, s \ {Pick(s)})]
<1>3. ASSUME NEW u \in SUBSET t, u # t PROVE g[u] = Sum(w, u)
  <2>1. Sums(w, u, CHOOSE f : Sums(w, u, f))
    BY <1>2, <1>3
  <2>2. Sum(w, u) = IF u = {} THEN 0 ELSE w[Pick(u)] + (CHOOSE f : Sums(w, u, f))[u \ {Pick(u)}]
    BY <2>1, SumsAt DEF Sum
  <2>3. CASE u = {}
    BY <2>2, <2>3
  <2>4. CASE u # {}
    <3> DEFINE v == u \ {Pick(u)}
    <3>1. Pick(u) \in u /\ v \in SUBSET t /\ v # t /\ v \in SUBSET u /\ v \subseteq v
      BY <2>4, <1>3, Picked
    <3>2. Sums(w, v, CHOOSE f : Sums(w, v, f))
      BY <1>2, <3>1
    <3>3. (CHOOSE f : Sums(w, u, f))[v] = (CHOOSE f : Sums(w, v, f))[v]
      BY <1>b, <2>1, <3>1, <3>2, SumsAgree
    <3> QED
      BY <2>2, <2>4, <3>3 DEF Sum
  <2> QED
    BY <2>3, <2>4
<1>4. ASSUME NEW s \in SUBSET t, s # {} PROVE g[s \ {Pick(s)}] = Sum(w, s \ {Pick(s)})
  BY <1>3, <1>4, Picked
<1>5. Sums(w, t, g)
  BY <1>4 DEF Sums
<1> QED
  BY <1>b, <1>5

\* The sum over a set begins with the element that is picked.
LEMMA SumPicks ==
  ASSUME NEW D, IsFiniteSet(D), NEW w, NEW S \in SUBSET D
  PROVE  Sum(w, S) = IF S = {} THEN 0 ELSE w[Pick(S)] + Sum(w, S \ {Pick(S)})
<1>1. Sums(w, S, CHOOSE f : Sums(w, S, f))
  BY SumsExist
<1>2. Sum(w, S) = IF S = {} THEN 0 ELSE w[Pick(S)] + (CHOOSE f : Sums(w, S, f))[S \ {Pick(S)}]
  BY <1>1, SumsAt DEF Sum
<1>3. CASE S = {}
  BY <1>2, <1>3
<1>4. CASE S # {}
  <2> DEFINE v == S \ {Pick(S)}
  <2>1. Sums(w, v, CHOOSE f : Sums(w, v, f))
    BY SumsExist
  <2>2. (CHOOSE f : Sums(w, S, f))[v] = (CHOOSE f : Sums(w, v, f))[v]
    BY <1>1, <2>1, SumsAgree
  <2> QED
    BY <1>2, <1>4, <2>2 DEF Sum
<1> QED
  BY <1>3, <1>4

\* The sum of numbers is a number.
LEMMA SumType ==
  ASSUME NEW D, IsFiniteSet(D), NEW w \in [D -> Nat], NEW S \in SUBSET D
  PROVE  Sum(w, S) \in Nat
<1> DEFINE B == {t \in SUBSET D : Sum(w, t) \notin Nat}
<1> SUFFICES ASSUME B # {} PROVE FALSE
  OBVIOUS
<1>a. B \in SUBSET SUBSET D /\ \A t \in SUBSET D : t \in B <=> Sum(w, t) \notin Nat
  OBVIOUS
<1> HIDE DEF B
<1>1. PICK t \in B : \A u \in B : u \subseteq t => u = t
  BY <1>a, LeastSubset
<1>b. t \in SUBSET D /\ Sum(w, t) \notin Nat
  BY <1>1, <1>a
<1>2. Sum(w, t) = IF t = {} THEN 0 ELSE w[Pick(t)] + Sum(w, t \ {Pick(t)})
  BY <1>b, SumPicks
<1>3. t # {} => Pick(t) \in t /\ w[Pick(t)] \in Nat /\ Sum(w, t \ {Pick(t)}) \in Nat
  <2> SUFFICES ASSUME t # {} PROVE Pick(t) \in t /\ w[Pick(t)] \in Nat /\ Sum(w, t \ {Pick(t)}) \in Nat
    OBVIOUS
  <2>1. Pick(t) \in t
    BY Picked
  <2>2. t \ {Pick(t)} \in SUBSET D /\ t \ {Pick(t)} # t /\ w[Pick(t)] \in Nat
    BY <1>b, <2>1
  <2> QED
    BY <1>1, <1>a, <2>1, <2>2
<1> QED
  BY <1>b, <1>2, <1>3

\* The sum over a set begins with any of its elements.
LEMMA SumBegins ==
  ASSUME NEW D, IsFiniteSet(D), NEW w \in [D -> Nat], NEW S \in SUBSET D, NEW x \in S
  PROVE  Sum(w, S) = w[x] + Sum(w, S \ {x})
<1> DEFINE C == {t \in SUBSET D : \E e \in t : Sum(w, t) # w[e] + Sum(w, t \ {e})}
<1> SUFFICES ASSUME C # {} PROVE FALSE
  OBVIOUS
<1>a. /\ C \in SUBSET SUBSET D
      /\ \A t \in SUBSET D : t \in C <=> \E e \in t : Sum(w, t) # w[e] + Sum(w, t \ {e})
  OBVIOUS
<1> HIDE DEF C
<1>1. PICK t \in C : \A u \in C : u \subseteq t => u = t
  BY <1>a, LeastSubset
<1>b. t \in SUBSET D /\ \E e \in t : Sum(w, t) # w[e] + Sum(w, t \ {e})
  BY <1>1, <1>a
<1>2. PICK e \in t : Sum(w, t) # w[e] + Sum(w, t \ {e})
  BY <1>b
<1> DEFINE y == Pick(t)
<1>3. y \in t /\ Sum(w, t) = w[y] + Sum(w, t \ {y})
  BY <1>b, SumPicks, Picked
<1>4. e # y
  BY <1>2, <1>3
<1> HIDE DEF y
<1>c. ASSUME NEW u \in SUBSET t, u # t, NEW z \in u PROVE Sum(w, u) = w[z] + Sum(w, u \ {z})
  BY <1>a, <1>b, <1>1, <1>c
<1>5. Sum(w, t \ {y}) = w[e] + Sum(w, (t \ {y}) \ {e})
  BY <1>c, <1>3, <1>4
<1>6. Sum(w, t \ {e}) = w[y] + Sum(w, (t \ {e}) \ {y})
  BY <1>c, <1>3, <1>4
<1>7. Sum(w, (t \ {e}) \ {y}) = Sum(w, (t \ {y}) \ {e})
  <2>1. (t \ {e}) \ {y} = (t \ {y}) \ {e}
    OBVIOUS
  <2> QED
    BY <2>1, Zenon
<1>8. w[e] \in Nat /\ w[y] \in Nat /\ Sum(w, (t \ {y}) \ {e}) \in Nat
  BY <1>b, <1>3, SumType
<1> QED
  BY <1>2, <1>3, <1>5, <1>6, <1>7, <1>8

\* More elements, a larger sum.
LEMMA SumGrows ==
  ASSUME NEW D, IsFiniteSet(D), NEW w \in [D -> Nat], NEW T \in SUBSET D, NEW S \in SUBSET T
  PROVE  Sum(w, S) <= Sum(w, T)
<1> DEFINE B == {t \in SUBSET D : S \subseteq t /\ ~(Sum(w, S) <= Sum(w, t))}
<1> SUFFICES ASSUME B # {} PROVE FALSE
  OBVIOUS
<1>a. /\ B \in SUBSET SUBSET D
      /\ \A t \in SUBSET D : t \in B <=> S \subseteq t /\ ~(Sum(w, S) <= Sum(w, t))
  OBVIOUS
<1> HIDE DEF B
<1>1. PICK t \in B : \A u \in B : u \subseteq t => u = t
  BY <1>a, LeastSubset
<1>b. t \in SUBSET D /\ S \subseteq t /\ ~(Sum(w, S) <= Sum(w, t))
  BY <1>1, <1>a
<1>2. Sum(w, S) \in Nat /\ Sum(w, t) \in Nat
  BY <1>b, SumType
<1>3. PICK x \in t : x \notin S
  BY <1>b, <1>2
<1>4. Sum(w, t) = w[x] + Sum(w, t \ {x})
  BY <1>b, SumBegins
<1>5. Sum(w, t \ {x}) \in Nat /\ w[x] \in Nat
  BY <1>b, SumType
<1>6. Sum(w, S) <= Sum(w, t \ {x})
  BY <1>a, <1>b, <1>1, <1>3
<1> QED
  BY <1>b, <1>2, <1>4, <1>5, <1>6

\* One more element adds its number at most.
LEMMA SumAdds ==
  ASSUME NEW D, IsFiniteSet(D), NEW w \in [D -> Nat], NEW S \in SUBSET D, NEW x \in D
  PROVE  Sum(w, S \cup {x}) <= Sum(w, S) + w[x]
<1>1. Sum(w, S \cup {x}) = w[x] + Sum(w, (S \cup {x}) \ {x})
  BY SumBegins
<1>2. Sum(w, (S \cup {x}) \ {x}) <= Sum(w, S)
  BY SumGrows
<1>3. Sum(w, (S \cup {x}) \ {x}) \in Nat /\ Sum(w, S) \in Nat /\ w[x] \in Nat
  BY SumType
<1> QED
  BY <1>1, <1>2, <1>3

\* Different elements stand for different ones: what they count is what those count.
LEMMA SumStands ==
  ASSUME NEW D, IsFiniteSet(D), NEW w \in [D -> Nat], NEW S \in SUBSET D, NEW v,
         NEW g \in [S -> D], \A x \in S : v[x] = w[g[x]],
         \A x, y \in S : g[x] = g[y] => x = y
  PROVE  Sum(v, S) = Sum(w, {g[x] : x \in S})
<1> DEFINE Of(t) == {g[x] : x \in t}
           B == {t \in SUBSET D : t \subseteq S /\ Sum(v, t) # Sum(w, Of(t))}
<1> SUFFICES ASSUME B # {} PROVE FALSE
  OBVIOUS
<1>a. /\ B \in SUBSET SUBSET D
      /\ \A t \in SUBSET D : t \in B <=> t \subseteq S /\ Sum(v, t) # Sum(w, Of(t))
  OBVIOUS
<1> HIDE DEF B
<1>1. PICK t \in B : \A u \in B : u \subseteq t => u = t
  BY <1>a, LeastSubset
<1>b. t \in SUBSET D /\ t \in SUBSET S /\ Sum(v, t) # Sum(w, Of(t))
  BY <1>1, <1>a
<1>2. Sum(v, t) = IF t = {} THEN 0 ELSE v[Pick(t)] + Sum(v, t \ {Pick(t)})
  BY <1>b, SumPicks
<1>3. CASE t = {}
  <2>1. Of(t) = {}
    BY <1>3
  <2>2. Sum(w, {}) = 0
    BY SumPicks
  <2> QED
    BY <1>b, <1>2, <1>3, <2>1, <2>2
<1>4. CASE t # {}
  <2> DEFINE x == Pick(t)
  <2>1. x \in t /\ x \in S
    BY <1>b, <1>4, Picked
  <2>2. Sum(v, t \ {x}) = Sum(w, Of(t \ {x}))
    BY <1>a, <1>b, <1>1, <2>1
  <2>3. Of(t \ {x}) = Of(t) \ {g[x]} /\ g[x] \in Of(t) /\ Of(t) \in SUBSET D
    <3>1. ASSUME NEW e \in Of(t) \ {g[x]} PROVE e \in Of(t \ {x})
      OBVIOUS
    <3>2. ASSUME NEW e \in Of(t \ {x}) PROVE e \in Of(t) \ {g[x]}
      BY <1>b, <2>1
    <3>3. g[x] \in Of(t) /\ Of(t) \in SUBSET D
      BY <1>b, <2>1
    <3> HIDE DEF Of, x
    <3> QED
      BY <3>1, <3>2, <3>3
  <2>4. Sum(w, Of(t)) = w[g[x]] + Sum(w, Of(t) \ {g[x]})
    BY <2>3, SumBegins
  <2>5. Sum(v, t) = v[x] + Sum(v, t \ {x})
    BY <1>2, <1>4
  <2> QED
    BY <1>b, <2>1, <2>2, <2>3, <2>4, <2>5
<1> QED
  BY <1>3, <1>4

\* The bytes of the live uploads are such a sum.
LEMMA LiveSum ==
  ASSUME TypeOK
  PROVE  MapThenSumSet(LAMBDA id : Size[row[id].mpu], Live) = Sum([id \in Live |-> Size[row[id].mpu]], Live)
<1> DEFINE v == [id \in Live |-> Size[row[id].mpu]]
           Bytes(f) == f = [s \in SUBSET Live |-> IF s = {} THEN 0 ELSE Size[row[Pick(s)].mpu] + f[s \ {Pick(s)}]]
<1>1. MapThenSumSet(LAMBDA id : Size[row[id].mpu], Live) = (CHOOSE f : Bytes(f))[Live]
  BY Zenon DEF MapThenSumSet, MapThenFoldSet, Pick
<1>2. ASSUME NEW f PROVE Bytes(f) <=> Sums(v, Live, f)
  <2>1. \A s \in SUBSET Live : s # {} => v[Pick(s)] = Size[row[Pick(s)].mpu]
    BY Picked
  <2> HIDE DEF v
  <2>2. [s \in SUBSET Live |-> IF s = {} THEN 0 ELSE Size[row[Pick(s)].mpu] + f[s \ {Pick(s)}]]
          = [s \in SUBSET Live |-> IF s = {} THEN 0 ELSE v[Pick(s)] + f[s \ {Pick(s)}]]
    BY <2>1
  <2> QED
    BY <2>2 DEF Sums
<1>3. IsFiniteSet(Attempt) /\ Live \in SUBSET Attempt
  BY SetAssumption DEF Live, Active
<1>4. \E f : Sums(v, Live, f)
  BY <1>3, SumsExist
<1> HIDE DEF v, Bytes
<1>5. Bytes(CHOOSE f : Bytes(f)) /\ Sums(v, Live, CHOOSE f : Sums(v, Live, f))
  BY <1>2, <1>4
<1>6. Sums(v, Live, CHOOSE f : Bytes(f))
  BY <1>2, <1>5
<1>7. (CHOOSE f : Bytes(f))[Live] = (CHOOSE f : Sums(v, Live, f))[Live]
  BY <1>3, <1>5, <1>6, SumsAgree
<1> QED
  BY <1>1, <1>7 DEF Sum, v

\* So are the bytes of a set of attempts.
LEMMA SizeSum ==
  ASSUME NEW S \in SUBSET Attempt
  PROVE  MapThenSumSet(LAMBDA u : Size[u], S) = Sum(Size, S)
BY Zenon DEF MapThenSumSet, MapThenFoldSet, Sum, Sums, Pick

-----------------------------------------------------------------------------
(* Where a session is recorded, whatever paths the attempts ask for.        *)

\* Where p uses the record that it has read.
Uses == {"c_store", "c_update", "c_finalize", "a_delete", "a_commit", "a_refund", "h_update", "k_delete"}
\* Where p holds the lock of the file.
Locked == {"c_store", "c_update", "c_finalize", "c_catch", "a_delete", "a_commit"}
\* Where an initiate is.
Founds == {"i_reserve", "i_slot", "i_store", "i_refund", "i_undo", "commit"}
Founding(p) == req[p].op = "initiate"

\* A session is recorded under one id, H[m], and one path, L[m], and completed before a
\* record says so.
In(H, L, id, r) ==
  H[r.mpu] = id /\ L[r.mpu] = r.path /\ (r.st = "uploaded" => mpu[r.mpu] = "completed")

\* The copies that p has are such records.  What it has completed is completed; what it
\* deletes is not and cannot be any more, as far as objectExists can be trusted; what it
\* refunds is deleted.
Copies(H, L, p) ==
  LET r == req[p]
  IN  /\ r.pc \in Uses => In(H, L, r.id, r.seen) /\ mpu[r.id] # "none"
      /\ r.write.row # Absent => In(H, L, r.write.id, r.write.row)
      /\ \A t \in r.todo : In(H, L, t.id, t.row) /\ mpu[t.id] # "none"
      /\ r.pc \in {"c_update", "c_finalize"} => mpu[r.seen.mpu] = "completed"
      /\ ~ StatErrorMeansAbsent /\ r.pc \in {"a_commit", "a_refund", "k_delete"} =>
           mpu[r.seen.mpu] = "aborted" \/ (mpu[r.seen.mpu] # "completed" /\ fileLock[r.id] = p)
      /\ r.pc \in Locked => fileLock[r.id] = p
      /\ r.pc = "a_refund" => ~ Present(r.id)

\* The session that p opens is in no committed record; who does nothing has no list.
Opens(p) ==
  LET r == req[p]
  IN  /\ r.pc = "idle" => r.todo = {}
      /\ r.pc \in Founds \ {"commit"} => Founding(p)
      /\ Founding(p) => /\ r.pc \in Founds /\ r.id \in Attempt /\ r.todo = {}
                        /\ r.write.row # Absent => r.write.row.mpu = r.id
                        /\ \A id \in Attempt : Present(id) => row[id].mpu # r.id
      /\ r.write.row # Absent /\ ~ Founding(p) => r.write.row.st = "uploaded"

Names(p, id) == (req[p].pc \in Uses /\ req[p].id = id) \/ \E t \in req[p].todo : t.id = id

\* Nobody else has it, nor the id of a new record; a record is refunded once.
Alone(p, q) ==
  /\ Founding(p) => ~ Knows(q, req[p].id) /\ (Founding(q) => req[p].id # req[q].id)
  /\ New(p) => ~ Names(q, req[p].id)
  /\ At(p, "a_refund") /\ At(q, "a_refund") => req[p].id # req[q].id

Places(H, L) ==
  /\ \A id \in Attempt : Present(id) => In(H, L, id, row[id])
  /\ \A m \in Attempt : mpu[m] = "completed" => L[m] \in objects

Good(H, L) ==
  /\ Places(H, L)
  /\ \A p \in Process : Copies(H, L, p) /\ Opens(p)
  /\ \A p, q \in Process : p # q => Alone(p, q)

-----------------------------------------------------------------------------
(* Who still accounts for the bytes of a session.                           *)

Mentions(p, id, m) ==
  \/ req[p].pc \in Uses /\ req[p].id = id /\ req[p].seen.mpu = m
  \/ \E t \in req[p].todo : t.id = id /\ t.row.mpu = m

\* p has reserved them, is about to give them back, or may bring the session into a record.
Claims(p, m) ==
  \/ Founding(p) /\ req[p].id = m /\ ~ At(p, "i_reserve")
  \/ At(p, "c_finalize") /\ req[p].seen.mpu = m
  \/ At(p, "a_refund") /\ req[p].seen.mpu = m /\ mpu[m] # "completed"
  \/ At(p, "c_update") /\ req[p].seen.mpu = m /\ Present(req[p].id)
  \/ mpu[m] # "completed" /\ \E id \in Attempt : Present(id) /\ Mentions(p, id, m)

Recorded(m) == mpu[m] # "completed" /\ \E id \in Attempt : Present(id) /\ row[id].mpu = m

Claimed == {m \in Attempt : Recorded(m) \/ \E p \in Process : Claims(p, m)}

-----------------------------------------------------------------------------
(* What a step of p may do to the others.                                   *)

\* Sessions are opened, completed by who holds the lock of the file, or aborted.
Careful(H, p) ==
  /\ Onwards(p)
  /\ \A id \in Attempt, q \in Process \ {p} : fileLock[id] = q => fileLock'[id] = q
  /\ \A m \in Attempt : \/ mpu'[m] = mpu[m]
                        \/ mpu[m] = "none" /\ mpu'[m] = "open"
                        \/ mpu[m] = "open" /\ mpu'[m] = "aborted"
                        \/ mpu[m] = "open" /\ mpu'[m] = "completed" /\ fileLock[H[m]] = p

\* What p takes up is in a committed record, or its own attempt.
Learns(p) ==
  /\ Founding(p)' => \/ Founding(p) /\ req'[p].id = req[p].id
                     \/ mpu[req'[p].id] = "none" /\ \A q \in Process \ {p} : req[q].id # req'[p].id
  /\ \A m \in Attempt : Knows(p, m)' =>
       \/ Knows(p, m) \/ (Founding(p) /\ req[p].id = m)
       \/ \E id \in Attempt : Present(id) /\ row[id].mpu = m
  /\ \A id \in Attempt : Names(p, id)' => Names(p, id) \/ Present(id)
  /\ New(p)' => mpu[req'[p].id] = "none"
  /\ At(p, "a_refund")' => Present(req'[p].id)

\* What p does is in order.
Orderly(H, L, p) ==
  Careful(H, p) /\ Learns(p) /\ Places(H, L)' /\ Copies(H, L, p)' /\ Opens(p)'

\* A record comes only from the attempt that founds it.
LEMMA ComesFrom ==
  ASSUME Inv, NEW p \in Process, Onwards(p), NEW id \in Attempt, ~ Present(id), Present(id)'
  PROVE  New(p) /\ req[p].id = id
<1>1. req[p].write.id = id /\ id # None /\ RequestOK(p)
  BY SetAssumption DEF Onwards, Present, Inv
<1> QED
  BY <1>1 DEF RequestOK, New

\* A record of p stays where it is.
LEMMA InStays ==
  ASSUME NEW H \in [Attempt -> Attempt], NEW L \in [Attempt -> Attempt], NEW p \in Process, Careful(H, p),
         NEW id, NEW r \in Row, In(H, L, id, r)
  PROVE  In(H, L, id, r)'
<1>1. r.mpu \in Attempt
  BY DEF Row
<1>2. mpu[r.mpu] = "completed" => mpu'[r.mpu] = "completed"
  BY <1>1 DEF Careful
<1> QED
  BY <1>2 DEF In

\* What p does leaves the copies of the others as they have to be.
LEMMA CopiesStay ==
  ASSUME Inv, NEW H \in [Attempt -> Attempt], NEW L \in [Attempt -> Attempt], Good(H, L),
         NEW p \in Process, NEW q \in Process, p # q, Careful(H, p)
  PROVE  Copies(H, L, q)'
<1> DEFINE r == req[q]
<1>1. /\ req'[q] = r /\ TypeOK /\ RequestOK(q) /\ Copies(H, L, q) /\ Alone(p, q) /\ Onwards(p)
  BY DEF Careful, Onwards, Inv, Good
<1>2. /\ r.seen \in Row \cup {Absent} /\ r.write.row \in Row \cup {Absent} /\ \A t \in r.todo : t.id \in Attempt /\ t.row \in Row
      /\ r.id \in Attempt \cup {None} /\ \A x \in Row : x.mpu \in Attempt
  BY <1>1, Rows
<1>3. r.pc \in Uses => r.seen \in Row /\ r.seen.mpu \in Attempt /\ r.id \in Attempt
  BY <1>1, <1>2 DEF RequestOK, Uses
<1>4. \A m \in Attempt : /\ mpu[m] # "none" => mpu'[m] # "none"
                         /\ mpu[m] = "completed" => mpu'[m] = "completed"
                         /\ mpu[m] = "aborted" => mpu'[m] = "aborted"
                         /\ mpu'[m] = "completed" => mpu[m] = "completed" \/ fileLock[H[m]] = p
  BY DEF Careful
<1>5. \A id \in Attempt : fileLock[id] = q => fileLock'[id] = q
  BY DEF Careful
<1>6. r.pc \in Uses => In(H, L, r.id, r.seen)' /\ mpu'[r.id] # "none"
  BY <1>1, <1>3, <1>4, InStays DEF Copies
<1>7. r.write.row # Absent => In(H, L, r.write.id, r.write.row)'
  BY <1>1, <1>2, InStays DEF Copies
<1>8. \A t \in r.todo : In(H, L, t.id, t.row)' /\ mpu'[t.id] # "none"
  BY <1>1, <1>2, <1>4, InStays DEF Copies
<1>9. r.pc \in {"c_update", "c_finalize"} => mpu'[r.seen.mpu] = "completed"
  BY <1>1, <1>3, <1>4 DEF Copies, Uses
<1>10. ~ StatErrorMeansAbsent /\ r.pc \in {"a_commit", "a_refund", "k_delete"} =>
         mpu'[r.seen.mpu] = "aborted" \/ (mpu'[r.seen.mpu] # "completed" /\ fileLock'[r.id] = q)
  <2> SUFFICES ASSUME ~ StatErrorMeansAbsent, r.pc \in {"a_commit", "a_refund", "k_delete"}
               PROVE  mpu'[r.seen.mpu] = "aborted" \/ (mpu'[r.seen.mpu] # "completed" /\ fileLock'[r.id] = q)
    OBVIOUS
  <2>1. r.pc \in Uses /\ H[r.seen.mpu] = r.id
    BY <1>1 DEF Copies, Uses, In
  <2>2. mpu[r.seen.mpu] = "aborted" \/ (mpu[r.seen.mpu] # "completed" /\ fileLock[r.id] = q)
    BY <1>1 DEF Copies
  <2> QED
    BY <1>3, <1>4, <1>5, <2>1, <2>2
<1>11. r.pc \in Locked => fileLock'[r.id] = q
  <2>1. r.pc \in Locked => r.id \in Attempt
    BY <1>1 DEF RequestOK, Locked
  <2> QED
    BY <1>1, <1>5, <2>1 DEF Copies
<1>12. r.pc = "a_refund" => row'[r.id] = Absent
  <2> SUFFICES ASSUME r.pc = "a_refund", row'[r.id] # Absent PROVE FALSE
    OBVIOUS
  <2>1. r.pc \in Uses /\ r.id \in Attempt /\ row[r.id] = Absent
    BY <1>1, <1>3 DEF Copies, Uses, Present
  <2>2. New(p) /\ req[p].id = r.id
    BY <1>1, <2>1, ComesFrom DEF Present
  <2> QED
    BY <1>1, <2>1, <2>2 DEF Alone, Names
<1> QED
  BY <1>1, <1>6, <1>7, <1>8, <1>9, <1>10, <1>11, <1>12 DEF Copies, Present

\* What p does leaves the sessions that others open to them.
LEMMA OpensStay ==
  ASSUME Inv, NEW H, NEW L, Good(H, L), TypeOK', NEW p \in Process, NEW q \in Process, p # q, Careful(H, p)
  PROVE  Opens(q)'
<1>1. req'[q] = req[q] /\ Opens(q) /\ Alone(q, p) /\ Onwards(p)
  BY DEF Careful, Onwards, Good
<1>2. ASSUME Founding(q), NEW id \in Attempt, Present(id)' PROVE row'[id].mpu # req[q].id
  <2>1. ~ Knows(p, req[q].id) /\ (row[id] # Absent => row[id].mpu # req[q].id)
    BY <1>1, <1>2 DEF Alone, Opens, Present
  <2> QED
    BY <1>1, <1>2, <2>1 DEF Onwards, Present
<1> QED
  BY <1>1, <1>2 DEF Opens, Founding, Present

\* What p does takes nothing that another has to himself.
LEMMA AloneStays ==
  ASSUME Inv, NEW H, NEW L, Good(H, L), TypeOK', NEW p \in Process, Careful(H, p), Learns(p),
         NEW q \in Process, NEW s \in Process, q # s
  PROVE  Alone(q, s)'
<1>1. /\ Alone(q, s) /\ TypeOK /\ Onwards(p) /\ Opens(q) /\ Opens(s) /\ Copies(H, L, q) /\ Copies(H, L, s)
      /\ RequestOK(q) /\ RequestOK(s)
  BY DEF Good, Inv, Careful
<1>2. CASE q # p /\ s # p
  <2>1. req'[q] = req[q] /\ req'[s] = req[s] /\ (New(q)' => New(q))
    BY <1>1, <1>2, NewStays DEF Onwards
  <2> QED
    BY <1>1, <2>1 DEF Alone, Founding, At, Knows, Names
<1>3. CASE q = p
  <2>1. req'[s] = req[s]
    BY <1>1, <1>3 DEF Onwards
  <2>2. ASSUME Founding(p)' PROVE ~ Knows(s, req'[p].id) /\ (Founding(s) => req'[p].id # req[s].id)
    <3>1. CASE Founding(p) /\ req'[p].id = req[p].id
      BY <1>1, <1>3, <3>1 DEF Alone
    <3>2. CASE mpu[req'[p].id] = "none" /\ req[s].id # req'[p].id
      <4>1. ASSUME Knows(s, req'[p].id) PROVE FALSE
        <5>1. req'[p].id \in Attempt
          BY <1>1, <4>1, Rows DEF Knows
        <5> QED
          BY <3>2, <4>1, <5>1, KnownIsOpened
      <4> QED
        BY <3>2, <4>1
    <3> QED
      BY <1>3, <2>2, <3>1, <3>2 DEF Learns
  <2>3. ASSUME New(p)' PROVE ~ Names(s, req'[p].id)
    BY <1>1, <2>3 DEF Learns, Names, Copies
  <2>4. ASSUME At(p, "a_refund")', At(s, "a_refund") PROVE req'[p].id # req[s].id
    BY <1>1, <2>4 DEF Learns, Copies, At
  <2> QED
    BY <1>3, <2>1, <2>2, <2>3, <2>4 DEF Alone, Founding, At, Knows, Names
<1>4. CASE s = p /\ q # p
  <2>1. req'[q] = req[q] /\ (New(q)' => New(q)) /\ Alone(p, q)
    BY <1>1, <1>4, NewStays DEF Onwards, Good
  <2>2. ASSUME Founding(q) PROVE ~ Knows(p, req[q].id)' /\ (Founding(p)' => req[q].id # req'[p].id)
    <3>1. /\ req[q].id \in Attempt /\ \A id \in Attempt : Present(id) => row[id].mpu # req[q].id
      BY <1>1, <2>2 DEF Opens
    <3>2. ~ Knows(p, req[q].id) /\ (Founding(p) => req[q].id # req[p].id)
      BY <1>1, <1>4, <2>2 DEF Alone
    <3>3. \A m \in Attempt : m = req[q].id => ~ Knows(p, m)'
      BY <3>1, <3>2 DEF Learns
    <3>4. \A m \in Attempt : m = req'[q].id => ~ Knows(p, m)'
      BY <2>1, <3>3
    <3>5. req'[q].id \in Attempt
      BY <2>1, <3>1
    <3>6. ~ Knows(p, req[q].id)'
      BY <3>4, <3>5
    <3> QED
      BY <1>4, <3>2, <3>6 DEF Learns
  <2>3. ASSUME New(q) PROVE ~ Names(p, req[q].id)'
    <3>1. req[q].id \in Attempt /\ ~ Present(req[q].id) /\ ~ Names(p, req[q].id)
      BY <1>1, <1>4, <2>3 DEF New, Alone
    <3>2. \A id \in Attempt : id = req'[q].id => ~ Names(p, id)'
      BY <2>1, <3>1 DEF Learns
    <3> QED
      BY <2>1, <3>1, <3>2
  <2>4. ASSUME At(p, "a_refund")', At(q, "a_refund") PROVE req'[p].id # req[q].id
    BY <1>1, <2>4 DEF Learns, Copies, At
  <2> QED
    BY <1>4, <2>1, <2>2, <2>3, <2>4 DEF Alone, Founding, At, Knows, Names
<1> QED
  BY <1>2, <1>3, <1>4

\* A step of p that is in order keeps everything in order.
LEMMA GoodKeeper ==
  ASSUME Inv, TypeOK', NEW H \in [Attempt -> Attempt], NEW L \in [Attempt -> Attempt], Good(H, L),
         NEW p \in Process, Orderly(H, L, p)
  PROVE  Good(H, L)'
<1>1. \A q \in Process : Copies(H, L, q)' /\ Opens(q)'
  BY CopiesStay, OpensStay DEF Orderly
<1>2. \A q, s \in Process : q # s => Alone(q, s)'
  BY AloneStays DEF Orderly
<1> QED
  BY <1>1, <1>2 DEF Good, Orderly

\* What a step of p accounts for: nothing new but X, which p takes up.
LEMMA ClaimKeeper ==
  ASSUME Inv, TypeOK', NEW H, NEW L, Good(H, L), NEW p \in Process, Careful(H, p), NEW X,
         \A m \in Attempt : Claims(p, m)' => m \in Claimed \cup X,
         \A id \in Attempt : Present(id)' /\ mpu'[row'[id].mpu] # "completed" =>
           (Present(id) /\ row'[id].mpu = row[id].mpu) \/ row'[id].mpu \in Claimed
  PROVE  Claimed' \subseteq Claimed \cup X
<1>1. SUFFICES ASSUME NEW m \in Attempt, Recorded(m)' \/ \E q \in Process : Claims(q, m)'
               PROVE  m \in Claimed \cup X
  BY DEF Claimed
<1>2. mpu'[m] # "completed" => mpu[m] # "completed"
  BY DEF Careful
<1>3. CASE Recorded(m)'
  <2>1. PICK id \in Attempt : Present(id)' /\ row'[id].mpu = m /\ mpu'[m] # "completed"
    BY <1>3 DEF Recorded
  <2> QED
    BY <1>2, <2>1 DEF Claimed, Recorded
<1>4. ASSUME NEW q \in Process, q # p, Claims(q, m)' PROVE Claims(q, m)
  <2>1. req'[q] = req[q] /\ Alone(p, q) /\ Onwards(p) /\ RequestOK(q)
    BY <1>4 DEF Careful, Onwards, Good, Inv
  <2>2. ASSUME NEW id \in Attempt, Names(q, id), Present(id)' PROVE Present(id)
    BY <2>1, <2>2, ComesFrom DEF Alone
  <2>3. CASE (Founding(q) /\ req[q].id = m /\ ~ At(q, "i_reserve")) \/ (At(q, "c_finalize") /\ req[q].seen.mpu = m)
               \/ (At(q, "a_refund") /\ req[q].seen.mpu = m /\ mpu'[m] # "completed")
    BY <1>2, <2>3 DEF Claims
  <2>4. CASE At(q, "c_update") /\ req[q].seen.mpu = m /\ row'[req[q].id] # Absent
    <3>1. req[q].id \in Attempt /\ Names(q, req[q].id)
      BY <2>1, <2>4 DEF RequestOK, At, Names, Uses
    <3>2. Present(req[q].id)
      BY <2>2, <2>4, <3>1 DEF Present
    <3> QED
      BY <2>4, <3>2 DEF Claims
  <2>5. ASSUME mpu'[m] # "completed", NEW id \in Attempt, row'[id] # Absent, Mentions(q, id, m) PROVE Claims(q, m)
    <3>1. Present(id)
      BY <2>2, <2>5 DEF Mentions, Names, Present
    <3> QED
      BY <1>2, <2>5, <3>1 DEF Claims
  <2> QED
    BY <1>4, <2>1, <2>3, <2>4, <2>5 DEF Claims, Founding, At, Mentions, Present
<1> QED
  BY <1>1, <1>3, <1>4 DEF Claimed

-----------------------------------------------------------------------------
(* Steps that leave records, sessions and objects alone.                    *)

\* Records and completed sessions stay where they are.
LEMMA QuietPlaces ==
  ASSUME NEW H, NEW L, Good(H, L), UNCHANGED <<row, mpu, objects>>
  PROVE  Places(H, L)'
BY DEF Good, Places, In, Present

\* So does a step that touches no record, session or object; it claims no more than X.
LEMMA QuietStep ==
  ASSUME Inv, TypeOK', NEW H \in [Attempt -> Attempt], NEW L \in [Attempt -> Attempt], Good(H, L), NEW p \in Process,
         UNCHANGED <<row, mpu, objects>>, \A q \in Process \ {p} : req'[q] = req[q],
         \A id \in Attempt, q \in Process \ {p} : fileLock[id] = q => fileLock'[id] = q,
         Learns(p), Copies(H, L, p)', Opens(p)', NEW X,
         \A m \in Attempt : Claims(p, m)' => m \in Claimed \cup X
  PROVE  Good(H, L)' /\ Claimed' \subseteq Claimed \cup X
<1>1. Careful(H, p)
  BY DEF Careful, Onwards
<1>2. Orderly(H, L, p)
  BY <1>1, QuietPlaces DEF Orderly
<1>3. Claimed' \subseteq Claimed \cup X
  BY <1>1, ClaimKeeper DEF Present
<1> QED
  BY <1>2, <1>3, GoodKeeper

\* Nobody moves and no record changes; only locks may expire.
LEMMA StillStep ==
  ASSUME NEW H, NEW L, Good(H, L), UNCHANGED <<row, mpu, objects, req>>,
         \A id \in Attempt, q \in Process : fileLock[id] = q => fileLock'[id] = q,
         Inv
  PROVE  Good(H, L)' /\ Claimed' = Claimed
<1>1. Places(H, L)'
  BY QuietPlaces
<1>2. ASSUME NEW q \in Process PROVE Copies(H, L, q)' /\ Opens(q)'
  <2>1. Copies(H, L, q) /\ Opens(q) /\ RequestOK(q)
    BY DEF Good, Inv
  <2>2. req[q].pc \in {"a_commit", "a_refund", "k_delete"} \cup Locked => req[q].id \in Attempt
    BY <2>1 DEF RequestOK, Locked
  <2> QED
    BY <2>1, <2>2 DEF Copies, Opens, Founding, In, Present, Uses, Locked
<1>3. \A q, s \in Process : q # s => Alone(q, s)'
  BY DEF Good, Alone, Founding, Knows, New, Names, At, Present
<1>4. Claimed' = Claimed
  BY DEF Claimed, Recorded, Claims, Mentions, Founding, At, Present
<1> QED
  BY <1>1, <1>2, <1>3, <1>4 DEF Good

\* p keeps what it has or drops some of it, and goes where it uses no record.
LEMMA QuietRelaxes ==
  ASSUME Inv, TypeOK', NEW H \in [Attempt -> Attempt], NEW L \in [Attempt -> Attempt], Good(H, L), NEW p \in Process,
         UNCHANGED <<row, mpu, objects>>, \A q \in Process \ {p} : req'[q] = req[q],
         \A id \in Attempt, q \in Process \ {p} : fileLock[id] = q => fileLock'[id] = q,
         req'[p].pc \notin Uses, req'[p].pc = "idle" => req'[p].todo = {}, req'[p].write \in {req[p].write, NoWrite},
         req'[p].seen \in {req[p].seen, Absent}, req'[p].todo \subseteq req[p].todo,
         req'[p].pc \in Locked => fileLock'[req'[p].id] = p,
         req'[p].op = req[p].op \/ (req'[p].op = "none" /\ req'[p].write = NoWrite),
         req'[p].pc \in Founds \ {"commit"} => Founding(p)',
         Founding(p)' => req'[p].pc \in Founds /\ req'[p].id = req[p].id,
         ~ New(p)', NEW X,
         Founding(p)' /\ At(p, "i_reserve") => req[p].id \in X
  PROVE  Good(H, L)' /\ Claimed' \subseteq Claimed \cup X
<1>1. Copies(H, L, p) /\ Opens(p) /\ TypeOK
  BY DEF Good, Inv
<1>2. Copies(H, L, p)'
  BY <1>1, IdleForm DEF Copies, In, Uses, Locked
<1>3. Founding(p)' => Founding(p)
  BY DEF Founding
<1>4. Opens(p)'
  BY <1>1, <1>3, IdleForm DEF Opens, Founding, Present
<1>5. Learns(p)
  BY <1>3, IdleForm DEF Learns, Knows, Names, Uses, At
<1>6. ASSUME NEW m \in Attempt, Claims(p, m)' PROVE m \in Claimed \cup X
  <2>1. CASE Founding(p)' /\ req'[p].id = m
    BY <1>3, <2>1 DEF Claimed, Claims
  <2>2. CASE mpu[m] # "completed" /\ \E id \in Attempt : row[id] # Absent /\ \E t \in req'[p].todo : t.id = id /\ t.row.mpu = m
    <3>1. Claims(p, m)
      BY <2>2 DEF Claims, Mentions, Present
    <3> QED
      BY <3>1 DEF Claimed
  <2> QED
    BY <1>6, <2>1, <2>2 DEF Claims, Mentions, Uses, Present, At
<1> QED
  BY <1>2, <1>4, <1>5, <1>6, QuietStep

\* An operation ends and keeps nothing.
LEMMA QuietEnds ==
  ASSUME Inv, TypeOK', NEW H \in [Attempt -> Attempt], NEW L \in [Attempt -> Attempt], Good(H, L), NEW p \in Process,
         UNCHANGED <<row, mpu, objects>>, Ends(p),
         \A id \in Attempt, q \in Process \ {p} : fileLock[id] = q => fileLock'[id] = q
  PROVE  Good(H, L)' /\ Claimed' \subseteq Claimed
<1>1. req'[p] = Idle /\ \A q \in Process \ {p} : req'[q] = req[q]
  BY EndsForm DEF Inv
<1>2. ~ Founding(p)' /\ ~ New(p)' /\ req'[p].pc \notin Uses \cup Locked \cup Founds
  BY <1>1, IdleForm DEF Founding, New, At, Uses, Locked, Founds
<1>3. Good(H, L)' /\ Claimed' \subseteq Claimed \cup {}
  BY <1>1, <1>2, IdleForm, QuietRelaxes
<1> QED
  BY <1>3

\* p goes on to a step that uses no record.
LEMMA QuietGoes ==
  ASSUME Inv, TypeOK', NEW H \in [Attempt -> Attempt], NEW L \in [Attempt -> Attempt], Good(H, L), NEW p \in Process,
         UNCHANGED <<row, mpu, objects>>, fileLock' \in {fileLock, Unlocked(p)},
         NEW pc \in {"i_slot", "i_refund", "c_release", "c_finally", "commit", "c_catch"}, Goto(p, pc),
         req[p].pc \in (IF pc \in {"i_slot", "i_refund"} THEN Founds \ {"commit"} ELSE Location \ Founds),
         pc = "c_catch" => req[p].pc \in Locked /\ UNCHANGED fileLock,
         NEW X, At(p, "i_reserve") => req[p].id \in X
  PROVE  Good(H, L)' /\ Claimed' \subseteq Claimed \cup X
<1>1. TypeOK /\ RequestOK(p) /\ Copies(H, L, p) /\ Opens(p)
  BY DEF Inv, Good
<1>2. /\ \A q \in Process \ {p} : req'[q] = req[q]
      /\ req'[p].pc = pc /\ req'[p].op = req[p].op /\ req'[p].id = req[p].id /\ req'[p].seen = req[p].seen
      /\ req'[p].write = req[p].write /\ req'[p].todo = req[p].todo
  BY <1>1, GotoForm DEF Location
<1>3. \A id \in Attempt, q \in Process \ {p} : fileLock[id] = q => fileLock'[id] = q
  BY <1>1, Unlocking
<1>4. req'[p].pc \notin Uses /\ (req'[p].pc \in Locked => fileLock'[req'[p].id] = p)
  BY <1>1, <1>2 DEF Uses, Locked, Copies
<1>5. Founding(p)' => Founding(p)
  BY <1>2 DEF Founding
<1>6. /\ req'[p].pc \in Founds \ {"commit"} => Founding(p)'
      /\ Founding(p)' => req'[p].pc \in Founds
  BY <1>1, <1>2, <1>5 DEF Opens, Founds, Founding
<1>7. ~ New(p)'
  <2> SUFFICES ASSUME New(p)' PROVE FALSE
    OBVIOUS
  <2>1. req'[p].pc = "commit" /\ req[p].write.id # None /\ row[req[p].write.id] = Absent
    BY <1>2, SetAssumption DEF New, At, Present
  <2>2. New(p)
    BY <1>1, <2>1 DEF RequestOK, Present
  <2> QED
    BY <1>2, <2>1, <2>2 DEF New, At, Founds
<1> QED
  BY <1>2, <1>3, <1>4, <1>5, <1>6, <1>7, QuietRelaxes

\* An abort returns to the list it was called for, or to its caller.
LEMMA QuietReturns ==
  ASSUME Inv, TypeOK', NEW H \in [Attempt -> Attempt], NEW L \in [Attempt -> Attempt], Good(H, L), NEW p \in Process,
         UNCHANGED <<row, mpu, objects>>, NEW threw \in BOOLEAN, AbortReturns(p, threw),
         req[p].pc \in {"a_delete", "a_commit", "a_refund", "k_delete"}
  PROVE  Good(H, L)' /\ Claimed' \subseteq Claimed
<1> DEFINE r == req[p]
           back == [r EXCEPT !.pc = "next", !.id = None, !.seen = Absent,
                      !.todo = {t \in r.todo : t.id # r.id}, !.write = NoWrite,
                      !.failed = r.failed \/ (threw /\ r.op = "clear")]
<1>1. TypeOK /\ RequestOK(p) /\ r \in Operation /\ r.op \in {"abort", "complete", "clear", "cleanup"}
  BY DEF Inv, TypeOK, RequestOK, OpOK
<1>2. CASE r.op = "abort"
  <2>1. Ends(p) /\ fileLock' = Unlocked(p)
    BY <1>2 DEF AbortReturns
  <2> QED
    BY <1>1, <2>1, QuietEnds, Unlocking
<1>3. CASE r.op = "complete"
  <2>1. Goto(p, "c_finally") /\ fileLock' = fileLock
    BY <1>3 DEF AbortReturns
  <2>2. Good(H, L)' /\ Claimed' \subseteq Claimed \cup {}
    BY <2>1, QuietGoes DEF Founds, At, Location
  <2> QED
    BY <2>2
<1>4. CASE r.op \in {"clear", "cleanup"}
  <2>1. req' = [req EXCEPT ![p] = back] /\ fileLock' = Unlocked(p)
    BY <1>4 DEF AbortReturns
  <2>2. /\ back.pc = "next" /\ back.op = r.op /\ back.id = None /\ back.seen = Absent
        /\ back.todo \subseteq r.todo /\ back.write = NoWrite
    BY <1>1 DEF Operation
  <2>3. req'[p] = back /\ \A q \in Process \ {p} : req'[q] = req[q]
    BY <1>1, <2>1 DEF TypeOK
  <2> HIDE DEF back
  <2>4. ~ Founding(p)' /\ ~ New(p)' /\ req'[p].pc \notin Uses \cup Locked \cup Founds
    BY <1>4, <2>2, <2>3 DEF Founding, New, At, Uses, Locked, Founds
  <2>5. Good(H, L)' /\ Claimed' \subseteq Claimed \cup {}
    BY <1>1, <2>1, <2>2, <2>3, <2>4, Unlocking, QuietRelaxes
  <2> QED
    BY <2>5
<1> QED
  BY <1>1, <1>2, <1>3, <1>4

-----------------------------------------------------------------------------
(* The steps of the quota: locks, refusals, refunds.                        *)

\* Taking the quota lock changes no record and claims nothing.
LEMMA GoodTakeQuotaLock ==
  ASSUME Inv, NEW H \in [Attempt -> Attempt], NEW L \in [Attempt -> Attempt], Good(H, L), NEW p \in Process, TakeQuotaLock(p)
  PROVE  Good(H, L)' /\ Claimed' = Claimed /\ UNCHANGED <<reserved, unrecorded>>
<1>1. UNCHANGED <<row, mpu, objects, req, fileLock, reserved, unrecorded>>
  BY DEF TakeQuotaLock, store, redis
<1> QED
  BY <1>1, StillStep

\* Nor does finding it taken.
LEMMA GoodQuotaLockBusy ==
  ASSUME Inv, TypeOK', NEW H \in [Attempt -> Attempt], NEW L \in [Attempt -> Attempt], Good(H, L), NEW p \in Process, QuotaLockBusy(p)
  PROVE  Good(H, L)' /\ Claimed' \subseteq Claimed /\ UNCHANGED <<reserved, unrecorded>>
<1>1. UNCHANGED <<row, mpu, objects, fileLock, reserved, unrecorded>>
  BY DEF QuotaLockBusy, store, redis
<1>2. CASE Ends(p)
  BY <1>1, <1>2, QuietEnds
<1>3. CASE At(p, "c_finalize") /\ Goto(p, "c_catch")
  <2>1. Good(H, L)' /\ Claimed' \subseteq Claimed \cup {}
    BY <1>1, <1>3, QuietGoes DEF At, Founds, Location, Locked
  <2> QED
    BY <1>1, <2>1
<1> QED
  BY <1>2, <1>3 DEF QuotaLockBusy, InitiateThrows

\* A reservation: the bytes are added for the attempt that asks for them.
LEMMA GoodReserve ==
  ASSUME Inv, TypeOK', NEW H \in [Attempt -> Attempt], NEW L \in [Attempt -> Attempt], Good(H, L), NEW p \in Process, Reserve(p)
  PROVE  /\ Good(H, L)' /\ req[p].id \in Attempt
         /\ \/ UNCHANGED <<reserved, unrecorded>> /\ Claimed' \subseteq Claimed
            \/ AddReservation(req[p].id) /\ Claimed' \subseteq Claimed \cup {req[p].id}
<1>1. UNCHANGED <<row, mpu, objects, fileLock>> /\ At(p, "i_reserve") /\ RequestOK(p)
  BY DEF Reserve, store, Inv
<1>2. req[p].id \in Attempt
  BY <1>1 DEF RequestOK, Starting, At
<1>3. CASE Ends(p) /\ UNCHANGED <<reserved, unrecorded>>
  BY <1>1, <1>2, <1>3, QuietEnds
<1>4. CASE AddReservation(req[p].id) /\ Goto(p, "i_slot")
  <2>1. Good(H, L)' /\ Claimed' \subseteq Claimed \cup {req[p].id}
    BY <1>1, <1>4, QuietGoes DEF At, Founds
  <2> QED
    BY <1>2, <1>4, <2>1
<1> QED
  BY <1>3, <1>4 DEF Reserve, InitiateThrows

\* The bytes of a session are given back.
GivenBack(m) == reserved' = Decremented(reserved, Size[m]) /\ UNCHANGED unrecorded

\* When p gives back the bytes of a session, nobody else accounts for them.
LEMMA OnlyFounder ==
  ASSUME Inv, NEW H, NEW L, Good(H, L), NEW p \in Process, Founding(p)
  PROVE  /\ ~ Recorded(req[p].id)
         /\ \A q \in Process \ {p} : ~ Claims(q, req[p].id)
         /\ req[p].id \in Attempt
<1>1. Opens(p) /\ req[p].id \in Attempt /\ \A id \in Attempt : Present(id) => row[id].mpu # req[p].id
  BY DEF Good, Opens
<1>2. ASSUME NEW q \in Process, q # p, Claims(q, req[p].id) PROVE FALSE
  <2>1. ~ Knows(q, req[p].id) /\ (Founding(q) => req[p].id # req[q].id) /\ RequestOK(q)
    BY <1>2 DEF Good, Alone, Inv
  <2>2. req[q].pc \in Uses => req[q].seen # Absent
    BY <2>1 DEF RequestOK, Uses
  <2> QED
    BY <1>2, <2>1, <2>2 DEF Claims, Mentions, Knows, Uses, At
<1> QED
  BY <1>1, <1>2 DEF Recorded

\* The session that p refunds is in no record, and nobody else accounts for it.
LEMMA OnlyRefunder ==
  ASSUME Inv, NEW H, NEW L, Good(H, L), ~ StatErrorMeansAbsent, NEW p \in Process, At(p, "a_refund")
  PROVE  LET m == req[p].seen.mpu
         IN  m \in Attempt /\ ~ Recorded(m) /\ \A q \in Process \ {p} : ~ Claims(q, m)
<1> DEFINE m == req[p].seen.mpu
           id == req[p].id
<1>1. TypeOK /\ Copies(H, L, p) /\ RequestOK(p)
  BY DEF Good, Inv
<1>2. m \in Attempt /\ H[m] = id /\ id \in Attempt /\ ~ Present(id) /\ mpu[m] # "completed" /\ req[p].seen # Absent
  <2>1. req[p].seen # Absent /\ id \in Attempt
    BY <1>1 DEF RequestOK, At
  <2> QED
    BY <1>1, <2>1, Rows DEF Copies, At, Uses, In
<1>3. Knows(p, m)
  BY <1>2 DEF Knows
<1>4. ~ Recorded(m)
  BY <1>2 DEF Good, Places, In, Recorded
<1>5. ASSUME NEW q \in Process, q # p, Claims(q, m) PROVE FALSE
  <2>1. Alone(q, p) /\ Copies(H, L, q)
    BY <1>5 DEF Good
  <2>2. ~ (Founding(q) /\ req[q].id = m)
    BY <1>3, <2>1 DEF Alone
  <2>3. ~ (req[q].pc = "a_refund" /\ req[q].seen.mpu = m)
    BY <1>2, <2>1 DEF Alone, At, Copies, Uses, In
  <2>4. ~ (req[q].pc \in {"c_update", "c_finalize"} /\ req[q].seen.mpu = m)
    BY <1>2, <2>1 DEF Copies
  <2>5. \A x \in Attempt : Mentions(q, x, m) => x = id
    BY <1>2, <2>1 DEF Mentions, Copies, In
  <2> QED
    BY <1>2, <1>5, <2>2, <2>3, <2>4, <2>5 DEF Claims, At
<1> QED
  BY <1>2, <1>4, <1>5

\* The session that p has completed is in no record that counts, and nobody else accounts for it.
LEMMA OnlyFinalizer ==
  ASSUME Inv, NEW H, NEW L, Good(H, L), NEW p \in Process, At(p, "c_finalize")
  PROVE  LET m == req[p].seen.mpu
         IN  m \in Attempt /\ ~ Recorded(m) /\ \A q \in Process \ {p} : ~ Claims(q, m)
<1> DEFINE m == req[p].seen.mpu
           id == req[p].id
<1>1. TypeOK /\ Copies(H, L, p) /\ RequestOK(p)
  BY DEF Good, Inv
<1>2. m \in Attempt /\ H[m] = id /\ id \in Attempt /\ mpu[m] = "completed" /\ req[p].seen # Absent /\ fileLock[id] = p
  <2>1. req[p].seen # Absent /\ id \in Attempt
    BY <1>1 DEF RequestOK, At
  <2> QED
    BY <1>1, <2>1, Rows DEF Copies, At, Uses, In, Locked
<1>3. Knows(p, m)
  BY <1>2 DEF Knows
<1>5. ASSUME NEW q \in Process, q # p, Claims(q, m) PROVE FALSE
  <2>1. Alone(q, p) /\ Copies(H, L, q)
    BY <1>5 DEF Good
  <2>2. ~ (Founding(q) /\ req[q].id = m)
    BY <1>3, <2>1 DEF Alone
  <2>4. ~ (req[q].pc \in {"c_update", "c_finalize"} /\ req[q].seen.mpu = m)
    BY <1>2, <1>5, <2>1 DEF Copies, Locked, Uses, In
  <2> QED
    BY <1>2, <1>5, <2>2, <2>4 DEF Claims, At
<1> QED
  BY <1>2, <1>5 DEF Recorded

\* What nobody else accounts for is accounted for no longer when p drops it.
LEMMA NoLongerClaimed ==
  ASSUME NEW p \in Process, NEW m, UNCHANGED <<row, mpu>>, \A q \in Process \ {p} : req'[q] = req[q],
         ~ Recorded(m), \A q \in Process \ {p} : ~ Claims(q, m), ~ Claims(p, m)'
  PROVE  m \notin Claimed'
<1>1. ~ Recorded(m)'
  BY DEF Recorded, Present
<1>2. \A q \in Process : ~ Claims(q, m)'
  <2> TAKE q \in Process
  <2> QED
    BY DEF Claims, Founding, At, Mentions, Present
<1> QED
  BY <1>1, <1>2 DEF Claimed

\* A refund gives back bytes that p alone accounted for, or leaves them behind.
LEMMA GoodRefund ==
  ASSUME Inv, TypeOK', NEW H \in [Attempt -> Attempt], NEW L \in [Attempt -> Attempt], Good(H, L), NEW p \in Process, Refund(p)
  PROVE  /\ Good(H, L)'
         /\ \/ UNCHANGED <<reserved, unrecorded>> /\ Claimed' \subseteq Claimed
            \/ \E m \in Claimed : GivenBack(m) /\ Claimed' \subseteq Claimed \ {m}
            \/ StatErrorMeansAbsent
<1>1. /\ UNCHANGED <<row, mpu, objects>> /\ req[p].pc \in {"i_refund", "i_undo", "a_refund"} /\ TypeOK
      /\ UNCHANGED <<reserved, unrecorded>> \/ GivenBack(IF At(p, "a_refund") THEN req[p].seen.mpu ELSE req[p].id)
      /\ RequestOK(p) /\ Opens(p) /\ Copies(H, L, p)
  BY DEF Refund, store, Inv, Good, Outcomes, GivenBack
<1>2. CASE At(p, "a_refund")
  <2>1. AbortReturns(p, FALSE) /\ req[p].op \in {"abort", "complete", "clear", "cleanup"}
    BY <1>1, <1>2 DEF Refund, RequestOK, OpOK, At
  <2>2. Good(H, L)' /\ Claimed' \subseteq Claimed
    BY <1>1, <1>2, <2>1, QuietReturns DEF At
  <2>a. SUFFICES ASSUME ~ StatErrorMeansAbsent
                 PROVE  \/ UNCHANGED <<reserved, unrecorded>> /\ Claimed' \subseteq Claimed
                        \/ \E m \in Claimed : GivenBack(m) /\ Claimed' \subseteq Claimed \ {m}
    BY <2>2
  <2>3. PICK m \in Attempt : m = req[p].seen.mpu /\ ~ Recorded(m) /\ \A q \in Process \ {p} : ~ Claims(q, m)
    BY <1>2, <2>a, OnlyRefunder
  <2>4. m \in Claimed
    BY <1>1, <1>2, <2>3, <2>a DEF Copies, Claimed, Claims, At
  <2>5. /\ \A q \in Process \ {p} : req'[q] = req[q]
        /\ req'[p].pc \in {"idle", "c_finally", "next"} /\ req'[p].todo \subseteq req[p].todo
    BY <1>1, <2>1, ReturnsForm
  <2>6. ~ Founding(p)'
    <3>1. Opens(p)'
      BY <2>2 DEF Good
    <3> QED
      BY <2>5, <3>1 DEF Opens, Founds
  <2>7. ~ Claims(p, m)'
    <3>1. \A t \in req[p].todo : t.row.mpu = m => ~ Present(t.id)
      BY <1>1, <1>2, <2>3 DEF Copies, At, Uses, In
    <3>2. \A id \in Attempt : row'[id] # Absent => ~ \E t \in req'[p].todo : t.id = id /\ t.row.mpu = m
      BY <1>1, <2>5, <3>1 DEF Present
    <3> QED
      BY <2>5, <2>6, <3>2 DEF Claims, Mentions, At, Uses, Present
  <2>8. m \notin Claimed'
    BY <1>1, <2>3, <2>5, <2>7, NoLongerClaimed
  <2> QED
    BY <1>1, <1>2, <2>2, <2>3, <2>4, <2>8
<1>3. CASE ~ At(p, "a_refund")
  <2>1. Ends(p) /\ UNCHANGED fileLock /\ Founding(p)
    BY <1>1, <1>3 DEF Refund, InitiateThrows, Opens, Founds, At
  <2>2. Good(H, L)' /\ Claimed' \subseteq Claimed
    BY <1>1, <2>1, QuietEnds
  <2>3. PICK m \in Attempt : m = req[p].id /\ ~ Recorded(m) /\ \A q \in Process \ {p} : ~ Claims(q, m)
    BY <1>3, <2>1, OnlyFounder
  <2>4. m \in Claimed
    BY <1>1, <1>3, <2>1, <2>3 DEF Claimed, Claims, At
  <2>5. req'[p] = Idle /\ \A q \in Process \ {p} : req'[q] = req[q]
    BY <1>1, <2>1, EndsForm
  <2>7. ~ Claims(p, m)'
    BY <2>5, IdleForm DEF Claims, Mentions, Founding, At, Uses
  <2>8. m \notin Claimed'
    BY <1>1, <2>3, <2>5, <2>7, NoLongerClaimed
  <2> QED
    BY <1>1, <1>3, <2>2, <2>3, <2>4, <2>8
<1> QED
  BY <1>2, <1>3

\* A completion gives back the bytes it held: from now on the record counts them.
LEMMA GoodFinalize ==
  ASSUME Inv, TypeOK', NEW H \in [Attempt -> Attempt], NEW L \in [Attempt -> Attempt], Good(H, L), NEW p \in Process, Finalize(p)
  PROVE  /\ Good(H, L)'
         /\ \/ UNCHANGED <<reserved, unrecorded>> /\ Claimed' \subseteq Claimed
            \/ \E m \in Claimed : GivenBack(m) /\ Claimed' \subseteq Claimed \ {m}
<1>1. /\ UNCHANGED <<row, mpu, objects, fileLock>> /\ At(p, "c_finalize") /\ TypeOK /\ Goto(p, "c_release")
      /\ UNCHANGED <<reserved, unrecorded>> \/ GivenBack(req[p].seen.mpu)
      /\ Copies(H, L, p) /\ Opens(p)
  BY DEF Finalize, store, Inv, Good, Outcomes, GivenBack
<1>2. Good(H, L)' /\ Claimed' \subseteq Claimed \cup {}
  BY <1>1, QuietGoes DEF At, Founds, Location
<1>3. PICK m \in Attempt : m = req[p].seen.mpu /\ ~ Recorded(m) /\ \A q \in Process \ {p} : ~ Claims(q, m)
  BY <1>1, OnlyFinalizer
<1>4. m \in Claimed
  BY <1>1, <1>3 DEF Claimed, Claims, At
<1>5. /\ \A q \in Process \ {p} : req'[q] = req[q]
      /\ req'[p].pc = "c_release" /\ req'[p].op = req[p].op /\ req'[p].todo = req[p].todo
  BY <1>1, GotoForm DEF Location
<1>6. mpu'[m] = "completed" /\ ~ Founding(p)'
  BY <1>1, <1>3, <1>5 DEF Copies, Opens, Founding, Founds, At
<1>7. ~ Claims(p, m)'
  BY <1>5, <1>6 DEF Claims, At
<1>8. m \notin Claimed'
  BY <1>1, <1>3, <1>5, <1>7, NoLongerClaimed
<1> QED
  BY <1>1, <1>2, <1>3, <1>4, <1>8

\* The ends of a completion, of a clear and of the worker change no record.
LEMMA GoodEnds ==
  ASSUME Inv, TypeOK', NEW H \in [Attempt -> Attempt], NEW L \in [Attempt -> Attempt], Good(H, L), NEW p \in Process,
         CompleteFinally(p) \/ ClearSlots(p) \/ (p = Cleaner /\ EndCleanup)
  PROVE  Good(H, L)' /\ Claimed' \subseteq Claimed /\ UNCHANGED <<reserved, unrecorded>>
<1>1. /\ UNCHANGED <<row, mpu, objects, reserved, unrecorded>> /\ fileLock' \in {fileLock, Unlocked(p)} /\ TypeOK
      /\ Ends(p) \/ (At(p, "c_release") /\ Goto(p, "commit"))
  BY DEF CompleteFinally, ClearSlots, EndCleanup, store, redis, locks, Inv
<1>2. CASE Ends(p)
  BY <1>1, <1>2, QuietEnds, Unlocking
<1>3. CASE At(p, "c_release") /\ Goto(p, "commit")
  <2>1. Good(H, L)' /\ Claimed' \subseteq Claimed \cup {}
    BY <1>1, <1>3, QuietGoes DEF At, Founds, Location
  <2> QED
    BY <1>1, <2>1
<1> QED
  BY <1>1, <1>2, <1>3

-----------------------------------------------------------------------------
(* The steps that begin an operation or take up a record.                   *)

\* An initiate begins with a session of its own and claims nothing yet.
LEMMA GoodBeginInitiate ==
  ASSUME Inv, TypeOK', NEW H \in [Attempt -> Attempt], NEW L \in [Attempt -> Attempt], Good(H, L),
         NEW p \in Request, NEW u \in Attempt, BeginInitiate(p, u)
  PROVE  Good(H, L)' /\ Claimed' \subseteq Claimed /\ UNCHANGED <<reserved, unrecorded>>
<1> DEFINE new == [Idle EXCEPT !.pc = "i_reserve", !.op = "initiate", !.id = u, !.tx = "open"]
<1>1. /\ TypeOK /\ p \in Process /\ UNCHANGED <<row, mpu, objects, reserved, unrecorded, fileLock>>
      /\ req' = [req EXCEPT ![p] = new] /\ mpu[u] = "none" /\ \A q \in Process : req[q].id # u
  BY DEF Inv, BeginInitiate, store, redis, Process
<1>2. /\ new.pc = "i_reserve" /\ new.op = "initiate" /\ new.id = u /\ new.seen = Absent /\ new.write = NoWrite /\ new.todo = {}
  BY IdleForm DEF Operation
<1>3. req'[p] = new /\ \A q \in Process \ {p} : req'[q] = req[q]
  BY <1>1 DEF TypeOK
<1> HIDE DEF new
<1>4. Copies(H, L, p)'
  BY <1>2, <1>3, IdleForm DEF Copies, Uses, Locked
<1>5. Opens(p)'
  <2>1. \A id \in Attempt : row[id] # Absent => row[id].mpu # u
    BY <1>1 DEF Inv, RowsOK, RecordOK, Present
  <2> QED
    BY <1>1, <1>2, <1>3, <2>1, IdleForm DEF Opens, Founding, Founds, Present
<1>6. Learns(p)
  BY <1>1, <1>2, <1>3, IdleForm DEF Learns, Knows, Names, New, At, Uses
<1>7. \A m \in Attempt : Claims(p, m)' => m \in Claimed \cup {}
  BY <1>2, <1>3 DEF Claims, Mentions, At, Uses
<1>8. Good(H, L)' /\ Claimed' \subseteq Claimed \cup {}
  BY <1>1, <1>3, <1>4, <1>5, <1>6, <1>7, QuietStep
<1> QED
  BY <1>1, <1>8

\* p takes up committed records that are not uploaded, with the lock where one is needed.
LEMMA GoodTakes ==
  ASSUME Inv, TypeOK', NEW H \in [Attempt -> Attempt], NEW L \in [Attempt -> Attempt], Good(H, L), NEW p \in Process,
         UNCHANGED <<row, mpu, objects>>, \A q \in Process \ {p} : req'[q] = req[q],
         \A id \in Attempt, q \in Process \ {p} : fileLock[id] = q => fileLock'[id] = q,
         req'[p].pc \in {"c_store", "a_delete", "h_update", "next"},
         req'[p].pc # "next" => req'[p].id \in Attempt /\ Present(req'[p].id) /\ req'[p].seen = row[req'[p].id],
         req'[p].pc = "next" => req'[p].seen \in {req[p].seen, Absent},
         req'[p].pc \in Locked => fileLock'[req'[p].id] = p,
         ~ Founding(p), ~ Founding(p)', req'[p].write \in {req[p].write, NoWrite},
         \A t \in req'[p].todo : t \in req[p].todo \/ (t.id \in Attempt /\ Present(t.id) /\ t.row = row[t.id])
  PROVE  Good(H, L)' /\ Claimed' \subseteq Claimed
<1>1. /\ Copies(H, L, p) /\ Opens(p) /\ TypeOK /\ RowsOK
      /\ \A id \in Attempt : Present(id) => In(H, L, id, row[id]) /\ mpu[id] # "none"
  BY DEF Good, Places, Inv, RowsOK
<1>2. req'[p].pc \in Uses => req'[p].pc # "next"
  BY DEF Uses
<1>3. Copies(H, L, p)'
  BY <1>1, <1>2, IdleForm DEF Copies, In
<1>4. Opens(p)'
  BY <1>1, IdleForm DEF Opens, Founding, Founds, Present
<1>5. Learns(p)
  <2>1. ~ New(p)' /\ ~ At(p, "a_refund")'
    BY DEF New, At
  <2>2. ASSUME NEW m \in Attempt, Knows(p, m)'
        PROVE  Knows(p, m) \/ \E id \in Attempt : Present(id) /\ row[id].mpu = m
    BY <2>2, IdleForm DEF Knows
  <2>3. \A id \in Attempt : Names(p, id)' => Names(p, id) \/ Present(id)
    BY <1>2 DEF Names
  <2> QED
    BY <2>1, <2>2, <2>3 DEF Learns
<1>6. ASSUME NEW m \in Attempt, Claims(p, m)' PROVE m \in Claimed
  <2>1. mpu[m] # "completed" /\ \E id \in Attempt : Present(id) /\ Mentions(p, id, m)'
    BY <1>6 DEF Claims, At, Present
  <2>2. PICK id \in Attempt : Present(id) /\ Mentions(p, id, m)'
    BY <2>1
  <2>3. CASE row[id].mpu = m
    BY <2>1, <2>2, <2>3 DEF Claimed, Recorded
  <2>4. CASE row[id].mpu # m
    <3>1. \E t \in req[p].todo : t.id = id /\ t.row.mpu = m
      BY <1>2, <2>2, <2>4 DEF Mentions
    <3> QED
      BY <2>1, <2>2, <3>1 DEF Claimed, Claims, Mentions
  <2> QED
    BY <2>3, <2>4
<1>7. Good(H, L)' /\ Claimed' \subseteq Claimed \cup {}
  BY <1>3, <1>4, <1>5, <1>6, QuietStep
<1> QED
  BY <1>7

\* p was idle and begins to complete, abort or keep alive an upload.
LEMMA GoodBegins ==
  ASSUME Inv, TypeOK', NEW H \in [Attempt -> Attempt], NEW L \in [Attempt -> Attempt], Good(H, L),
         NEW p \in Request, NEW u \in Attempt, BeginComplete(p, u) \/ BeginAbort(p, u) \/ BeginHeartbeat(p, u)
  PROVE  Good(H, L)' /\ Claimed' \subseteq Claimed /\ UNCHANGED <<reserved, unrecorded>>
<1>1. /\ TypeOK /\ p \in Process /\ UNCHANGED <<row, mpu, objects, reserved, unrecorded>> /\ Present(u) /\ At(p, "idle")
      /\ UNCHANGED fileLock \/ (fileLock[u] = None /\ fileLock' = [fileLock EXCEPT ![u] = p])
  BY DEF Inv, BeginComplete, BeginAbort, BeginHeartbeat, Calls, Uploading, Present, store, redis, locks, Process
<1>2. \A id \in Attempt, q \in Process \ {p} : fileLock[id] = q => fileLock'[id] = q
  BY <1>1, SetAssumption DEF TypeOK, Process
<1>3. ~ Founding(p)
  BY <1>1 DEF Good, Opens, Founds, At
<1>4. CASE BeginComplete(p, u)
  <2> DEFINE new == [Idle EXCEPT !.pc = "c_store", !.op = "complete", !.id = u, !.seen = row[u], !.tx = "open"]
  <2>1. req' = [req EXCEPT ![p] = new] /\ fileLock'[u] = p
    BY <1>1, <1>4 DEF BeginComplete, TypeOK
  <2>2. new.pc = "c_store" /\ new.op = "complete" /\ new.id = u /\ new.seen = row[u] /\ new.write = NoWrite /\ new.todo = {}
    BY IdleForm DEF Operation
  <2>3. req'[p] = new /\ \A q \in Process \ {p} : req'[q] = req[q]
    BY <1>1, <2>1 DEF TypeOK
  <2> HIDE DEF new
  <2>4. ~ Founding(p)'
    BY <2>2, <2>3 DEF Founding
  <2> QED
    BY <1>1, <1>2, <1>3, <2>1, <2>2, <2>3, <2>4, GoodTakes
<1>5. CASE BeginAbort(p, u)
  <2> DEFINE new == [Idle EXCEPT !.pc = "a_delete", !.op = "abort", !.id = u, !.seen = row[u]]
  <2>1. req' = [req EXCEPT ![p] = new] /\ fileLock'[u] = p
    BY <1>1, <1>5 DEF BeginAbort, TypeOK
  <2>2. new.pc = "a_delete" /\ new.op = "abort" /\ new.id = u /\ new.seen = row[u] /\ new.write = NoWrite /\ new.todo = {}
    BY IdleForm DEF Operation
  <2>3. req'[p] = new /\ \A q \in Process \ {p} : req'[q] = req[q]
    BY <1>1, <2>1 DEF TypeOK
  <2> HIDE DEF new
  <2>4. ~ Founding(p)'
    BY <2>2, <2>3 DEF Founding
  <2> QED
    BY <1>1, <1>2, <1>3, <2>1, <2>2, <2>3, <2>4, GoodTakes
<1>6. CASE BeginHeartbeat(p, u)
  <2> DEFINE new == [Idle EXCEPT !.pc = "h_update", !.op = "heartbeat", !.id = u, !.seen = row[u]]
  <2>1. req' = [req EXCEPT ![p] = new]
    BY <1>6 DEF BeginHeartbeat
  <2>2. new.pc = "h_update" /\ new.op = "heartbeat" /\ new.id = u /\ new.seen = row[u] /\ new.write = NoWrite /\ new.todo = {}
    BY IdleForm DEF Operation
  <2>3. req'[p] = new /\ \A q \in Process \ {p} : req'[q] = req[q]
    BY <1>1, <2>1 DEF TypeOK
  <2> HIDE DEF new
  <2>4. ~ Founding(p)' /\ req'[p].pc \notin Locked
    BY <2>2, <2>3 DEF Founding, Locked
  <2> QED
    BY <1>1, <1>2, <1>3, <2>1, <2>2, <2>3, <2>4, GoodTakes
<1> QED
  BY <1>4, <1>5, <1>6

\* p, which was idle, lists records.
LEMMA GoodLists ==
  ASSUME Inv, TypeOK', NEW H \in [Attempt -> Attempt], NEW L \in [Attempt -> Attempt], Good(H, L), NEW p \in Process,
         At(p, "idle"), NEW ids \in SUBSET Active, NEW op \in {"clear", "cleanup"}, UNCHANGED <<row, mpu, objects, fileLock>>,
         req' = [req EXCEPT ![p] = [Idle EXCEPT !.pc = "next", !.op = op, !.todo = Listed(ids)]]
  PROVE  Good(H, L)' /\ Claimed' \subseteq Claimed
<1> DEFINE new == [Idle EXCEPT !.pc = "next", !.op = op, !.todo = Listed(ids)]
<1>1. new.pc = "next" /\ new.op = op /\ new.seen = Absent /\ new.write = NoWrite /\ new.todo = Listed(ids)
  BY IdleForm DEF Operation
<1>2. req'[p] = new /\ (\A q \in Process \ {p} : req'[q] = req[q]) /\ TypeOK
  BY DEF Inv, TypeOK
<1> HIDE DEF new
<1>3. \A t \in Listed(ids) : t.id \in Attempt /\ Present(t.id) /\ t.row = row[t.id]
  <2>1. ids \in SUBSET Attempt /\ \A id \in ids : Present(id)
    BY DEF Active, Uploading
  <2> QED
    BY <1>2, <2>1, ListedForm
<1>4. ~ Founding(p)
  BY DEF Good, Opens, Founds, At
<1>5. ~ Founding(p)' /\ req'[p].pc \notin Locked
  BY <1>1, <1>2 DEF Founding, Locked
<1> QED
  BY <1>1, <1>2, <1>3, <1>4, <1>5, GoodTakes

\* The administrator takes up the next record of the list, or passes over it.
LEMMA GoodClearNext ==
  ASSUME Inv, TypeOK', NEW H \in [Attempt -> Attempt], NEW L \in [Attempt -> Attempt], Good(H, L), NEW p \in Process,
         NEW t \in req[p].todo, ClearNext(p, t)
  PROVE  Good(H, L)' /\ Claimed' \subseteq Claimed /\ UNCHANGED <<reserved, unrecorded>>
<1>1. /\ TypeOK /\ UNCHANGED <<row, mpu, objects, reserved, unrecorded>>
      /\ req[p].pc = "next" /\ req[p].op = "clear" /\ req[p] \in Operation /\ t.id \in Attempt
  BY Rows DEF Inv, TypeOK, ClearNext, At, store, redis
<1>2. CASE /\ fileLock[t.id] = None /\ Uploading(t.id)
           /\ fileLock' = [fileLock EXCEPT ![t.id] = p]
           /\ req' = [req EXCEPT ![p].pc = "a_delete", ![p].id = t.id, ![p].seen = row[t.id]]
  <2> DEFINE new == [req[p] EXCEPT !.pc = "a_delete", !.id = t.id, !.seen = row[t.id]]
  <2>1. Present(t.id)
    BY <1>2 DEF Uploading
  <2>2. /\ new.pc = "a_delete" /\ new.op = "clear" /\ new.id = t.id /\ new.seen = row[t.id]
        /\ new.write = req[p].write /\ new.todo = req[p].todo
    BY <1>1 DEF Operation
  <2>3. req' = [req EXCEPT ![p] = new]
    BY <1>2
  <2>4. req'[p] = new /\ \A q \in Process \ {p} : req'[q] = req[q]
    BY <1>1, <2>3 DEF TypeOK
  <2> HIDE DEF new
  <2>5. fileLock'[t.id] = p /\ \A id \in Attempt, q \in Process \ {p} : fileLock[id] = q => fileLock'[id] = q
    BY <1>1, <1>2, SetAssumption DEF TypeOK, Process
  <2>6. ~ Founding(p) /\ ~ Founding(p)'
    BY <1>1, <2>2, <2>4 DEF Founding
  <2> QED
    BY <1>1, <2>1, <2>2, <2>4, <2>5, <2>6, GoodTakes
<1>3. ASSUME UNCHANGED fileLock, NEW f \in BOOLEAN,
             req' = [req EXCEPT ![p].todo = @ \ {t}, ![p].failed = f]
      PROVE  Good(H, L)' /\ Claimed' \subseteq Claimed /\ UNCHANGED <<reserved, unrecorded>>
  <2> DEFINE new == [req[p] EXCEPT !.todo = req[p].todo \ {t}, !.failed = f]
  <2>1. /\ new.pc = "next" /\ new.op = "clear" /\ new.id = req[p].id /\ new.seen = req[p].seen
        /\ new.write = req[p].write /\ new.todo \subseteq req[p].todo
    BY <1>1 DEF Operation
  <2>2. req' = [req EXCEPT ![p] = new]
    BY <1>3
  <2>3. req'[p] = new /\ \A q \in Process \ {p} : req'[q] = req[q]
    BY <1>1, <2>2 DEF TypeOK
  <2> HIDE DEF new
  <2>4. ~ Founding(p)' /\ ~ New(p)' /\ req'[p].pc \notin Uses \cup Locked \cup Founds
    BY <2>1, <2>3 DEF Founding, New, At, Uses, Locked, Founds
  <2>5. Good(H, L)' /\ Claimed' \subseteq Claimed \cup {}
    BY <1>1, <1>3, <2>1, <2>3, <2>4, QuietRelaxes
  <2> QED
    BY <1>1, <2>5
<1>4. req[p].failed \in BOOLEAN
  BY <1>1 DEF Operation
<1> QED
  BY <1>2, <1>3, <1>4 DEF ClearNext

\* With a slot the attempt has the record it will save; its bytes stay claimed.
LEMMA GoodAcquireSlot ==
  ASSUME Inv, TypeOK', NEW H \in [Attempt -> Attempt], NEW L \in [Attempt -> Attempt], Good(H, L), NEW p \in Process, AcquireSlot(p)
  PROVE  Good(H, L)' /\ Claimed' \subseteq Claimed /\ UNCHANGED <<reserved, unrecorded>>
<1> DEFINE u == req[p].id
<1>1. /\ TypeOK /\ UNCHANGED <<row, mpu, objects, fileLock, reserved, unrecorded>> /\ At(p, "i_slot") /\ Opens(p) /\ req[p] \in Operation
      /\ u \in Attempt /\ mpu[u] = "none" /\ req[p].todo = {} /\ req[p].write = NoWrite /\ Founding(p)
  BY DEF Inv, Good, AcquireSlot, store, TypeOK, RequestOK, Starting, At, Opens, Founds
<1>2. CASE \E path \in FreePaths(u) :
             req' = [req EXCEPT ![p].pc = "i_store", ![p].seen =
                       [path |-> path, mpu |-> u, st |-> "uploading", age |-> 0]]
  <2>1. PICK path \in FreePaths(u) :
          req' = [req EXCEPT ![p].pc = "i_store", ![p].seen =
                    [path |-> path, mpu |-> u, st |-> "uploading", age |-> 0]]
    BY <1>2
  <2> DEFINE r == [path |-> path, mpu |-> u, st |-> "uploading", age |-> 0]
             new == [req[p] EXCEPT !.pc = "i_store", !.seen = r]
  <2>2. req' = [req EXCEPT ![p] = new] /\ r.mpu = u
    BY <2>1
  <2> HIDE DEF r
  <2>3. /\ new.pc = "i_store" /\ new.op = req[p].op /\ new.seen = r /\ new.id = u /\ new.write = NoWrite /\ new.todo = {}
    BY <1>1 DEF Operation
  <2>4. req'[p] = new /\ \A q \in Process \ {p} : req'[q] = req[q]
    BY <1>1, <2>2 DEF TypeOK
  <2> HIDE DEF new
  <2>5. Copies(H, L, p)'
    BY <2>3, <2>4, IdleForm DEF Copies, Uses, Locked
  <2>6. Opens(p)'
    BY <1>1, <2>3, <2>4, IdleForm DEF Opens, Founding, Founds, Present
  <2>7. Learns(p)
    BY <1>1, <2>2, <2>3, <2>4, IdleForm DEF Learns, Founding, Knows, Names, New, At, Uses
  <2>8. \A m \in Attempt : Claims(p, m)' => m \in Claimed \cup {}
    BY <1>1, <2>3, <2>4 DEF Claimed, Claims, Founding, Mentions, At, Uses
  <2>9. Good(H, L)' /\ Claimed' \subseteq Claimed \cup {}
    BY <1>1, <2>4, <2>5, <2>6, <2>7, <2>8, QuietStep
  <2> QED
    BY <1>1, <2>9
<1>3. CASE Goto(p, "i_refund")
  <2>1. Good(H, L)' /\ Claimed' \subseteq Claimed \cup {}
    BY <1>1, <1>3, QuietGoes DEF At, Founds
  <2> QED
    BY <1>1, <2>1
<1>4. CASE Ends(p)
  BY <1>1, <1>4, QuietEnds
<1> QED
  BY <1>2, <1>3, <1>4 DEF AcquireSlot, InitiateThrows

-----------------------------------------------------------------------------
(* The steps of an initiate and of a completion.                            *)

\* Every session has such a place.
Housed == \E H, L \in [Attempt -> Attempt] : Good(H, L)

\* The step keeps the claims, if what p does is in order.
LEMMA GoodStep ==
  ASSUME Inv, TypeOK', NEW H \in [Attempt -> Attempt], NEW L \in [Attempt -> Attempt], Good(H, L), NEW p \in Process,
         Orderly(H, L, p), \A m \in Attempt : Claims(p, m)' => m \in Claimed,
         \A id \in Attempt : Present(id)' /\ mpu'[row'[id].mpu] # "completed" =>
           (Present(id) /\ row'[id].mpu = row[id].mpu) \/ row'[id].mpu \in Claimed
  PROVE  Good(H, L)' /\ Claimed' \subseteq Claimed
<1>1. Good(H, L)'
  BY GoodKeeper
<1>2. Claimed' \subseteq Claimed \cup {}
  BY ClaimKeeper DEF Orderly
<1> QED
  BY <1>1, <1>2

\* A session that was not opened may be recorded anywhere.
LEMMA Rehomes ==
  ASSUME Inv, NEW H \in [Attempt -> Attempt], NEW L \in [Attempt -> Attempt], Good(H, L),
         NEW u \in Attempt, mpu[u] = "none", NEW a \in Attempt, NEW b \in Attempt
  PROVE  Good([H EXCEPT ![u] = a], [L EXCEPT ![u] = b])
<1> DEFINE H2 == [H EXCEPT ![u] = a]
           L2 == [L EXCEPT ![u] = b]
<1>1. /\ H2 \in [Attempt -> Attempt] /\ L2 \in [Attempt -> Attempt]
      /\ \A m \in Attempt : mpu[m] # "none" => H2[m] = H[m] /\ L2[m] = L[m]
  OBVIOUS
<1> HIDE DEF H2, L2
<1>2. ASSUME NEW r \in Row, RecordOK(r), NEW id, In(H, L, id, r) PROVE In(H2, L2, id, r)
  <2>1. r.mpu \in Attempt
    BY DEF Row
  <2> QED
    BY <1>1, <1>2, <2>1 DEF In, RecordOK
<1>3. Places(H2, L2)
  <2>1. \A id \in Attempt : Present(id) => row[id] \in Row /\ RecordOK(row[id])
    BY DEF Inv, TypeOK, RowsOK, Present
  <2> QED
    BY <1>1, <1>2, <2>1 DEF Good, Places
<1>4. ASSUME NEW p \in Process PROVE Copies(H2, L2, p)
  <2>1. Copies(H, L, p) /\ RequestOK(p) /\ TypeOK
    BY DEF Good, Inv
  <2>2. req[p].pc \in Uses => req[p].seen \in Row /\ RecordOK(req[p].seen)
    BY <2>1, Rows DEF RequestOK, Uses
  <2>3. req[p].write.row # Absent => req[p].write.row \in Row /\ RecordOK(req[p].write.row)
    BY <2>1, Rows DEF RequestOK
  <2>4. \A t \in req[p].todo : t.row \in Row /\ RecordOK(t.row)
    BY <2>1, Rows DEF RequestOK
  <2> QED
    BY <1>2, <2>1, <2>2, <2>3, <2>4 DEF Copies
<1>5. Good(H2, L2)
  BY <1>3, <1>4 DEF Good
<1> QED
  BY <1>5 DEF H2, L2

\* The record is saved under the id of the record it meets, or its own.
LEMMA GoodStore ==
  ASSUME Inv, TypeOK', NEW H \in [Attempt -> Attempt], NEW L \in [Attempt -> Attempt], Good(H, L), NEW p \in Process, Store(p)
  PROVE  /\ Housed'
         /\ Claimed' \subseteq Claimed /\ UNCHANGED <<reserved, unrecorded>>
<1> DEFINE r == req[p].seen
           u == req[p].id
           w == Upsert(r)
           new == [req[p] EXCEPT !.pc = "commit", !.write = w]
<1>1. /\ TypeOK /\ UNCHANGED <<row, objects, fileLock, reserved, unrecorded>> /\ req[p] \in Operation /\ req[p].pc = "i_store"
      /\ u \in Attempt /\ mpu[u] = "none" /\ req[p].todo = {} /\ r # Absent /\ r.mpu = u /\ r.st = "uploading" /\ r \in Row
      /\ mpu' = [mpu EXCEPT ![r.mpu] = "open"] /\ req' = [req EXCEPT ![p] = new]
  BY Rows DEF Inv, Store, redis, TypeOK, RequestOK, Starting, At
<1>2. w.row = r /\ w.id \in Attempt
  <2>1. w = [id |-> IF RecordAt(r.path) = {} THEN r.mpu ELSE CHOOSE id \in RecordAt(r.path) : TRUE, row |-> r]
    BY DEF Upsert
  <2>2. RecordAt(r.path) \subseteq Attempt
    BY DEF RecordAt
  <2>3. RecordAt(r.path) # {} => (CHOOSE id \in RecordAt(r.path) : TRUE) \in RecordAt(r.path)
    OBVIOUS
  <2> QED
    BY <1>1, <2>1, <2>2, <2>3
<1> HIDE DEF w
<1>3. r.path \in Attempt
  BY <1>1 DEF Row
<1>a. PICK v \in Attempt, a \in Attempt, b \in Attempt : v = u /\ a = w.id /\ b = r.path
  BY <1>1, <1>2, <1>3
<1> DEFINE H2 == [H EXCEPT ![v] = a]
           L2 == [L EXCEPT ![v] = b]
<1>4. /\ H2 \in [Attempt -> Attempt] /\ L2 \in [Attempt -> Attempt]
      /\ Good(H2, L2) /\ H2[u] = w.id /\ L2[u] = r.path
  BY <1>1, <1>a, Rehomes
<1> HIDE DEF H2, L2
<1>5. /\ new.pc = "commit" /\ new.id = u /\ new.seen = r /\ new.write = w /\ new.todo = {}
      /\ new.op = req[p].op
  BY <1>1 DEF Operation
<1>6. req'[p] = new /\ \A q \in Process \ {p} : req'[q] = req[q]
  BY <1>1 DEF TypeOK
<1> HIDE DEF new
<1>7. mpu'[u] = "open" /\ \A m \in Attempt \ {u} : mpu'[m] = mpu[m]
  BY <1>1 DEF TypeOK
<1>8. Knows(p, u) /\ Founding(p) /\ Opens(p)
  BY <1>1 DEF Knows, Good, Opens, Founds
<1>9. Careful(H2, p)
  <2>1. Onwards(p)
    BY <1>1, <1>6, <1>7, <1>8 DEF Onwards
  <2> QED
    BY <1>1, <1>7, <2>1 DEF Careful
<1>10. Places(H2, L2)'
  <2>1. Places(H2, L2)
    BY <1>4 DEF Good
  <2>2. \A m \in Attempt : mpu[m] = "completed" <=> mpu'[m] = "completed"
    BY <1>1, <1>7
  <2>3. \A id \in Attempt : row[id] # Absent => row[id].mpu \in Attempt
    BY <1>1, Rows DEF TypeOK
  <2> QED
    BY <1>1, <2>1, <2>2, <2>3 DEF Places, In, Present
<1>11. Copies(H2, L2, p)'
  BY <1>1, <1>2, <1>4, <1>5, <1>6 DEF Copies, Uses, Locked, In
<1>12. Opens(p)'
  BY <1>1, <1>2, <1>5, <1>6, <1>8 DEF Opens, Founding, Founds, Present
<1>13. Learns(p)
  BY <1>1, <1>2, <1>5, <1>6, <1>8 DEF Learns, Founding, Knows, Names, Uses, At
<1>14. \A m \in Attempt : Claims(p, m)' => m \in Claimed
  BY <1>1, <1>5, <1>6, <1>8 DEF Claimed, Claims, Founding, Mentions, At, Uses
<1>15. Orderly(H2, L2, p)
  BY <1>9, <1>10, <1>11, <1>12, <1>13 DEF Orderly
<1>16. Good(H2, L2)' /\ Claimed' \subseteq Claimed
  BY <1>1, <1>4, <1>14, <1>15, GoodStep DEF Present
<1>17. Housed'
  <2>1. \E G, K \in [Attempt -> Attempt] : Good(G, K)'
    <3> H2 \in [Attempt -> Attempt] /\ L2 \in [Attempt -> Attempt]
      BY <1>4
    <3> WITNESS H2 \in [Attempt -> Attempt], L2 \in [Attempt -> Attempt]
    <3> QED
      BY <1>16
  <2> QED
    BY <2>1 DEF Housed
<1> QED
  BY <1>1, <1>16, <1>17

\* When saving fails the session may have been opened; the bytes stay claimed until they are refunded.
LEMMA GoodStoreFails ==
  ASSUME Inv, TypeOK', NEW H \in [Attempt -> Attempt], NEW L \in [Attempt -> Attempt], Good(H, L), NEW p \in Process, StoreFails(p)
  PROVE  Good(H, L)' /\ Claimed' \subseteq Claimed /\ UNCHANGED <<reserved, unrecorded>>
<1> DEFINE u == req[p].id
<1>1. /\ TypeOK /\ UNCHANGED <<row, objects, fileLock, reserved, unrecorded>> /\ Goto(p, "i_undo") /\ req[p].pc = "i_store"
      /\ u \in Attempt /\ mpu[u] = "none" /\ mpu' \in {mpu, [mpu EXCEPT ![u] = "open"]}
      /\ req[p].seen # Absent /\ req[p].seen.mpu = u /\ req[p].todo = {} /\ req[p].write.row = Absent
  BY IdleForm DEF Inv, StoreFails, RequestOK, Starting, At, locks, redis
<1>2. /\ \A q \in Process \ {p} : req'[q] = req[q]
      /\ req'[p].pc = "i_undo" /\ req'[p].op = req[p].op /\ req'[p].id = u /\ req'[p].seen = req[p].seen
      /\ req'[p].write = req[p].write /\ req'[p].todo = req[p].todo
  BY <1>1, GotoForm DEF Location
<1>3. \A m \in Attempt : mpu'[m] = mpu[m] \/ (m = u /\ mpu[m] = "none" /\ mpu'[m] = "open")
  BY <1>1 DEF TypeOK
<1>4. Knows(p, u) /\ Founding(p) /\ Opens(p)
  BY <1>1 DEF Knows, Good, Opens, Founds
<1>5. Careful(H, p)
  <2>1. Onwards(p)
    BY <1>1, <1>2, <1>3, <1>4 DEF Onwards
  <2> QED
    BY <1>1, <1>3, <2>1 DEF Careful
<1>6. Places(H, L)'
  <2>1. Places(H, L)
    BY DEF Good
  <2>2. \A m \in Attempt : mpu[m] = "completed" <=> mpu'[m] = "completed"
    BY <1>3
  <2>3. \A id \in Attempt : row[id] # Absent => row[id].mpu \in Attempt
    BY <1>1, Rows DEF TypeOK
  <2> QED
    BY <1>1, <2>1, <2>2, <2>3 DEF Places, In, Present
<1>7. Copies(H, L, p)'
  BY <1>1, <1>2 DEF Copies, Uses, Locked
<1>8. Opens(p)'
  BY <1>1, <1>2, <1>4 DEF Opens, Founding, Founds, Present
<1>9. Learns(p)
  BY <1>1, <1>2 DEF Learns, Founding, Knows, Names, New, Uses, At
<1>10. \A m \in Attempt : Claims(p, m)' => m \in Claimed
  BY <1>1, <1>2, <1>4 DEF Claimed, Claims, Founding, Mentions, At, Uses
<1>11. Orderly(H, L, p)
  BY <1>5, <1>6, <1>7, <1>8, <1>9 DEF Orderly
<1> QED
  BY <1>1, <1>10, <1>11, GoodStep DEF Present

\* A commit brings the session of the attempt into a record, or one that is completed.
LEMMA GoodCommit ==
  ASSUME Inv, TypeOK', NEW H \in [Attempt -> Attempt], NEW L \in [Attempt -> Attempt], Good(H, L), NEW p \in Process, Commit(p)
  PROVE  Good(H, L)' /\ Claimed' \subseteq Claimed /\ UNCHANGED <<reserved, unrecorded>>
<1> DEFINE w == req[p].write
<1>1. /\ TypeOK /\ UNCHANGED <<mpu, objects, fileLock, reserved, unrecorded>> /\ Ends(p) /\ w.id \in Attempt \cup {None}
      /\ row' = IF req[p].tx = "open" THEN [row EXCEPT ![w.id] = w.row] ELSE row
      /\ req[p].tx = "open" => w.row # Absent /\ w.id # None
      /\ Copies(H, L, p) /\ Opens(p) /\ Places(H, L) /\ req[p].pc = "commit" /\ w.row \in Row \cup {Absent}
  BY Rows DEF Inv, Good, Commit, store, redis, locks, RequestOK, At
<1>2. CASE req[p].tx # "open"
  BY <1>1, <1>2, QuietEnds
<1>3. CASE req[p].tx = "open"
  <2>1. w.id \in Attempt /\ row' = [row EXCEPT ![w.id] = w.row] /\ w.row # Absent /\ w.row \in Row /\ In(H, L, w.id, w.row)
    BY <1>1, <1>3 DEF Copies
  <2>2. row'[w.id] = w.row /\ \A id \in Attempt \ {w.id} : row'[id] = row[id]
    BY <1>1, <2>1 DEF TypeOK
  <2>3. req'[p] = Idle /\ \A q \in Process \ {p} : req'[q] = req[q]
    BY <1>1, EndsForm
  <2>4. Careful(H, p)
    <3>1. Knows(p, w.row.mpu)
      BY <2>1 DEF Knows
    <3>2. Onwards(p)
      BY <1>1, <2>1, <2>2, <2>3, <3>1 DEF Onwards
    <3> QED
      BY <1>1, <3>2 DEF Careful
  <2>5. Places(H, L)'
    BY <1>1, <2>1, <2>2 DEF Places, In, Present
  <2>6. Copies(H, L, p)' /\ Opens(p)' /\ Learns(p)
    BY <2>3, IdleForm DEF Copies, Opens, Learns, Founding, Founds, Knows, Names, New, Uses, Locked, At
  <2>7. \A m \in Attempt : Claims(p, m)' => m \in Claimed
    BY <2>3, IdleForm DEF Claims, Founding, Mentions, At, Uses
  <2>8. mpu[w.row.mpu] = "completed" \/ w.row.mpu \in Claimed
    <3>1. CASE Founding(p)
      BY <1>1, <2>1, <3>1 DEF Opens, Claimed, Claims, At
    <3>2. CASE ~ Founding(p)
      BY <1>1, <2>1, <3>2 DEF Opens, In
    <3> QED
      BY <3>1, <3>2
  <2>9. Orderly(H, L, p)
    BY <2>4, <2>5, <2>6 DEF Orderly
  <2>10. \A id \in Attempt : row'[id] # Absent /\ mpu'[row'[id].mpu] # "completed" =>
           (row[id] # Absent /\ row'[id].mpu = row[id].mpu) \/ row'[id].mpu \in Claimed
    BY <1>1, <2>2, <2>8
  <2> QED
    BY <1>1, <2>7, <2>9, <2>10, GoodStep DEF Present
<1> QED
  BY <1>2, <1>3

\* The session is completed by who holds the lock of the file.
LEMMA GoodCompleteInStore ==
  ASSUME Inv, TypeOK', NEW H \in [Attempt -> Attempt], NEW L \in [Attempt -> Attempt], Good(H, L), NEW p \in Process, CompleteInStore(p)
  PROVE  Good(H, L)' /\ Claimed' \subseteq Claimed /\ UNCHANGED <<reserved, unrecorded>>
<1> DEFINE s == req[p].seen
           id == req[p].id
<1>1. /\ TypeOK /\ UNCHANGED <<row, fileLock, reserved, unrecorded>> /\ req[p].pc = "c_store" /\ s # Absent /\ id \in Attempt /\ s \in Row
      /\ mpu[s.mpu] = "open" /\ mpu' = [mpu EXCEPT ![s.mpu] = "completed"] /\ objects' = objects \cup {s.path}
      /\ Copies(H, L, p) /\ Opens(p) /\ Places(H, L) /\ RequestOK(p)
  BY Rows DEF Inv, Good, CompleteInStore, locks, redis, RequestOK, At
<1>2. s.mpu \in Attempt /\ H[s.mpu] = id /\ L[s.mpu] = s.path /\ fileLock[id] = p
  BY <1>1 DEF Row, Copies, Uses, Locked, In
<1>3. /\ \A q \in Process \ {p} : req'[q] = req[q]
      /\ req'[p].pc \in {"c_update", "c_catch"} /\ req'[p].op = req[p].op /\ req'[p].id = id /\ req'[p].seen = s
      /\ req'[p].write = req[p].write /\ req'[p].todo = req[p].todo
  <2>1. PICK pc \in {"c_update", "c_catch"} : Goto(p, pc)
    BY DEF CompleteInStore
  <2> QED
    BY <1>1, <2>1, GotoForm DEF Location
<1>4. mpu'[s.mpu] = "completed" /\ \A m \in Attempt : m # s.mpu => mpu'[m] = mpu[m]
  BY <1>1, <1>2 DEF TypeOK
<1>5. Careful(H, p)
  <2>1. Knows(p, s.mpu)
    BY <1>1 DEF Knows
  <2>2. Onwards(p)
    BY <1>1, <1>3, <1>4, <2>1 DEF Onwards
  <2> QED
    BY <1>1, <1>2, <1>4, <2>2 DEF Careful
<1>6. Places(H, L)'
  <2>1. \A x \in Attempt : row[x] # Absent => row[x].mpu \in Attempt
    BY <1>1, Rows DEF TypeOK
  <2> QED
    BY <1>1, <1>2, <1>4, <2>1 DEF Places, In, Present
<1>7. Copies(H, L, p)'
  <2>1. \A m \in Attempt : /\ mpu[m] = "completed" => mpu'[m] = "completed"
                           /\ mpu[m] # "none" => mpu'[m] # "none"
    BY <1>1, <1>4
  <2>2. req[p].write.row # Absent => req[p].write.row.mpu \in Attempt
    BY <1>1, Rows
  <2>3. \A t \in req[p].todo : t.id \in Attempt /\ t.row.mpu \in Attempt
    BY <1>1, Rows
  <2>4. req[p].write.row # Absent => In(H, L, req[p].write.id, req[p].write.row)
    BY <1>1 DEF Copies
  <2>5. req'[p].write.row # Absent => In(H, L, req[p].write.id, req[p].write.row)'
    BY <1>3, <2>1, <2>2, <2>4 DEF In
  <2>6. \A t \in req[p].todo : In(H, L, t.id, t.row)' /\ mpu'[t.id] # "none"
    BY <1>1, <2>1, <2>3 DEF Copies, In
  <2>7. In(H, L, req[p].id, req[p].seen)' /\ mpu'[req'[p].id] # "none"
    BY <1>1, <1>2, <1>3, <1>4, <2>1 DEF Copies, In, Uses
  <2> QED
    BY <1>1, <1>2, <1>3, <1>4, <2>5, <2>6, <2>7 DEF Copies, Locked
<1>8. Opens(p)'
  BY <1>1, <1>3 DEF Opens, Founding, Founds, Present
<1>9. Learns(p)
  BY <1>1, <1>3 DEF Learns, Founding, Knows, Names, New, Uses, At
<1>10. ASSUME NEW m \in Attempt, Claims(p, m)' PROVE m \in Claimed
  <2>1. Claims(p, m)
    <3>1. ~ Founding(p) /\ ~ Founding(p)'
      BY <1>1, <1>3 DEF Opens, Founds, Founding
    <3>2. mpu'[m] # "completed" => mpu[m] # "completed"
      BY <1>1, <1>4
    <3>3. CASE At(p, "c_update")' /\ s.mpu = m /\ row[id] # Absent
      BY <1>1, <3>3 DEF Claims, Mentions, Uses, Present
    <3> QED
      BY <1>1, <1>3, <1>10, <3>1, <3>2, <3>3 DEF Claims, Mentions, Uses, At, Present
  <2> QED
    BY <2>1 DEF Claimed
<1>11. Orderly(H, L, p)
  BY <1>5, <1>6, <1>7, <1>8, <1>9 DEF Orderly
<1> QED
  BY <1>1, <1>10, <1>11, GoodStep DEF Present

\* p aborts an open session or leaves it; where it goes it accounts for nothing new.
LEMMA GoodAborts ==
  ASSUME Inv, TypeOK', NEW H \in [Attempt -> Attempt], NEW L \in [Attempt -> Attempt], Good(H, L), NEW p \in Process,
         UNCHANGED <<row, objects>>, \A q \in Process \ {p} : req'[q] = req[q],
         \A id \in Attempt, q \in Process \ {p} : fileLock[id] = q => fileLock'[id] = q,
         NEW s \in Attempt, Knows(p, s),
         \A m \in Attempt : mpu'[m] = mpu[m] \/ (m = s /\ mpu[m] = "open" /\ mpu'[m] = "aborted"),
         ~ Founding(p), ~ Founding(p)', req'[p].pc \in {"c_catch", "a_commit", "k_delete"},
         req'[p].todo = req[p].todo, req'[p].write.row \in {req[p].write.row, Absent},
         req'[p].write.row # Absent => req'[p].write.id = req[p].write.id,
         req'[p].id \in Attempt, req'[p].seen \in Row, Names(p, req'[p].id),
         In(H, L, req'[p].id, req'[p].seen), mpu[req'[p].id] # "none", Mentions(p, req'[p].id, req'[p].seen.mpu),
         ~ StatErrorMeansAbsent /\ req'[p].pc \in {"a_commit", "k_delete"} =>
           mpu'[req'[p].seen.mpu] = "aborted" \/ (mpu'[req'[p].seen.mpu] # "completed" /\ fileLock'[req'[p].id] = p),
         req'[p].pc \in Locked => fileLock'[req'[p].id] = p
  PROVE  Good(H, L)' /\ Claimed' \subseteq Claimed
<1>1. TypeOK /\ Copies(H, L, p) /\ Opens(p) /\ Places(H, L) /\ \A x \in Attempt : row[x] # Absent => row[x].mpu \in Attempt
  BY Rows DEF Inv, Good, TypeOK
<1>2. Careful(H, p)
  <2>1. Onwards(p)
    BY DEF Onwards
  <2> QED
    BY <2>1 DEF Careful
<1>3. Places(H, L)'
  BY <1>1 DEF Places, In, Present
<1>4. Copies(H, L, p)'
  <2>1. \A m \in Attempt : /\ mpu[m] = "completed" => mpu'[m] = "completed"
                           /\ mpu[m] # "none" => mpu'[m] # "none"
    OBVIOUS
  <2>2. req'[p].write.row # Absent => req'[p].write.row.mpu \in Attempt /\ In(H, L, req'[p].write.id, req'[p].write.row)
    BY <1>1, Rows DEF Copies
  <2>3. \A t \in req'[p].todo : t.id \in Attempt /\ t.row.mpu \in Attempt /\ In(H, L, t.id, t.row) /\ mpu[t.id] # "none"
    BY <1>1, Rows DEF Copies
  <2>4. req'[p].seen.mpu \in Attempt
    BY DEF Row
  <2>5. req'[p].write.row # Absent => In(H, L, req[p].write.id, req[p].write.row)'
    BY <2>1, <2>2 DEF In
  <2>6. \A t \in req'[p].todo : In(H, L, t.id, t.row)' /\ mpu'[t.id] # "none"
    BY <2>1, <2>3 DEF In
  <2>7. In(H, L, req[p].id, req[p].seen)' /\ mpu'[req'[p].id] # "none"
    BY <2>1, <2>4 DEF In
  <2> QED
    BY <2>5, <2>6, <2>7 DEF Copies, In, Locked
<1>5. Opens(p)'
  BY <1>1 DEF Opens, Founding, Founds, Present
<1>6. Learns(p)
  <2>1. \A m \in Attempt : Knows(p, m)' => Knows(p, m) \/ m = req'[p].seen.mpu
    BY DEF Knows
  <2>2. Knows(p, req'[p].seen.mpu)
    <3>1. req[p].pc \in Uses => req[p].seen # Absent
      BY DEF Inv, RequestOK, Uses
    <3> QED
      BY <3>1 DEF Mentions, Knows
  <2>3. \A id \in Attempt : Names(p, id)' => Names(p, id)
    BY DEF Names
  <2> QED
    BY <2>1, <2>2, <2>3 DEF Learns, New, At
<1>7. ASSUME NEW m \in Attempt, Claims(p, m)' PROVE m \in Claimed
  <2>1. mpu[m] # "completed" /\ \E id \in Attempt : Present(id) /\ Mentions(p, id, m)'
    BY <1>7 DEF Claims, At, Present
  <2>2. \A id \in Attempt : Mentions(p, id, m)' => Mentions(p, id, m)
    BY DEF Mentions
  <2> QED
    BY <2>1, <2>2 DEF Claimed, Claims
<1>8. Orderly(H, L, p)
  BY <1>2, <1>3, <1>4, <1>5, <1>6 DEF Orderly
<1> QED
  BY <1>1, <1>7, <1>8, GoodStep DEF Present

\* A completion that fails in the store leaves the session open or aborted.
LEMMA GoodCompleteInStoreFails ==
  ASSUME Inv, TypeOK', NEW H \in [Attempt -> Attempt], NEW L \in [Attempt -> Attempt], Good(H, L), NEW p \in Process, CompleteInStoreFails(p)
  PROVE  Good(H, L)' /\ Claimed' \subseteq Claimed /\ UNCHANGED <<reserved, unrecorded>>
<1> DEFINE s == req[p].seen
           id == req[p].id
<1>1. /\ TypeOK /\ UNCHANGED <<row, objects, fileLock, reserved, unrecorded>> /\ req[p].pc = "c_store" /\ s # Absent /\ id \in Attempt /\ s \in Row
      /\ (mpu' = mpu \/ (mpu[s.mpu] = "open" /\ mpu' = [mpu EXCEPT ![s.mpu] = "aborted"])) /\ Goto(p, "c_catch")
      /\ Copies(H, L, p) /\ Opens(p)
  BY Rows DEF Inv, Good, CompleteInStoreFails, locks, redis, RequestOK, At
<1>2. s.mpu \in Attempt /\ In(H, L, id, s) /\ fileLock[id] = p /\ mpu[id] # "none"
  BY <1>1 DEF Row, Copies, Uses, Locked
<1>3. /\ \A q \in Process \ {p} : req'[q] = req[q]
      /\ req'[p].pc = "c_catch" /\ req'[p].op = req[p].op /\ req'[p].id = id /\ req'[p].seen = s
      /\ req'[p].write = req[p].write /\ req'[p].todo = req[p].todo
  BY <1>1, GotoForm DEF Location
<1>4. \A m \in Attempt : mpu'[m] = mpu[m] \/ (m = s.mpu /\ mpu[m] = "open" /\ mpu'[m] = "aborted")
  BY <1>1, <1>2 DEF TypeOK
<1>5. ~ Founding(p) /\ ~ Founding(p)' /\ Knows(p, s.mpu) /\ Names(p, id) /\ Mentions(p, id, s.mpu)
  BY <1>1, <1>3 DEF Opens, Founding, Founds, Knows, Names, Mentions, Uses
<1> QED
  BY <1>1, <1>2, <1>3, <1>4, <1>5, GoodAborts

\* The record that is written says "uploaded" of a session that is completed.
LEMMA GoodCompleteUpdate ==
  ASSUME Inv, TypeOK', NEW H \in [Attempt -> Attempt], NEW L \in [Attempt -> Attempt], Good(H, L), NEW p \in Process, CompleteUpdate(p)
  PROVE  Good(H, L)' /\ Claimed' \subseteq Claimed /\ UNCHANGED <<reserved, unrecorded>>
<1> DEFINE r == req[p]
           done == [r.seen EXCEPT !.st = "uploaded", !.age = 0]
           w == [id |-> r.id, row |-> done]
           new == [r EXCEPT !.pc = "c_finalize", !.write = w]
<1>1. /\ TypeOK /\ UNCHANGED <<row, mpu, objects, fileLock, reserved, unrecorded>> /\ r \in Operation /\ r.pc = "c_update"
      /\ r.seen \in Row /\ r.id \in Attempt /\ Copies(H, L, p) /\ Opens(p)
  BY Rows DEF Inv, Good, TypeOK, CompleteUpdate, At, store, redis, locks, RequestOK
<1>2. ~ Founding(p) /\ In(H, L, r.id, r.seen) /\ mpu[r.seen.mpu] = "completed" /\ fileLock[r.id] = p /\ mpu[r.id] # "none"
  BY <1>1 DEF Opens, Founds, Copies, Uses, Locked
<1>3. CASE Present(r.id) /\ req' = [req EXCEPT ![p] = new]
  <2>1. done.mpu = r.seen.mpu /\ done.path = r.seen.path /\ done.st = "uploaded"
    BY <1>1 DEF Row
  <2>2. In(H, L, r.id, done)
    BY <1>2, <2>1 DEF In
  <2> HIDE DEF done
  <2>3. w.id = r.id /\ w.row = done
    OBVIOUS
  <2> HIDE DEF w
  <2>4. new.pc = "c_finalize" /\ new.op = r.op /\ new.id = r.id /\ new.seen = r.seen /\ new.write = w /\ new.todo = r.todo
    BY <1>1 DEF Operation
  <2>5. req'[p] = new /\ \A q \in Process \ {p} : req'[q] = req[q]
    BY <1>1, <1>3 DEF TypeOK
  <2> HIDE DEF new
  <2>6. Copies(H, L, p)'
    BY <1>1, <1>2, <2>2, <2>3, <2>4, <2>5 DEF Copies, In, Uses, Locked
  <2>7. Opens(p)'
    BY <1>1, <1>2, <2>1, <2>3, <2>4, <2>5 DEF Opens, Founding, Founds
  <2>8. Learns(p)
    <3>1. r.seen # Absent /\ ~ New(p)' /\ ~ Founding(p)'
      BY <1>1, <1>2, SetAssumption, <2>4, <2>5 DEF New, At, Founding, Row
    <3>2. \A m \in Attempt : Knows(p, m)' => Knows(p, m)
      BY <2>1, <2>3, <2>4, <2>5, <3>1 DEF Knows
    <3>3. \A id \in Attempt : Names(p, id)' => Names(p, id)
      BY <1>1, <2>4, <2>5 DEF Names, Uses
    <3> QED
      BY <2>4, <2>5, <3>1, <3>2, <3>3 DEF Learns, At
  <2>9. ASSUME NEW m \in Attempt, Claims(p, m)' PROVE m \in Claimed \cup {}
    <3>1. Claims(p, m)
      BY <1>1, <1>2, <1>3, <2>4, <2>5, <2>9 DEF Claims, Founding, Mentions, Uses, At, Present
    <3> QED
      BY <3>1 DEF Claimed
  <2>10. Good(H, L)' /\ Claimed' \subseteq Claimed \cup {}
    BY <1>1, <2>5, <2>6, <2>7, <2>8, <2>9, QuietStep
  <2> QED
    BY <1>1, <2>10
<1>4. CASE Goto(p, "c_catch")
  <2>1. Good(H, L)' /\ Claimed' \subseteq Claimed \cup {}
    BY <1>1, <1>4, QuietGoes DEF At, Founds, Location, Locked
  <2> QED
    BY <1>1, <2>1
<1> QED
  BY <1>3, <1>4 DEF CompleteUpdate

\* A completion that failed goes on to abort the upload, or ends.
LEMMA GoodCompleteCatch ==
  ASSUME Inv, TypeOK', NEW H \in [Attempt -> Attempt], NEW L \in [Attempt -> Attempt], Good(H, L), NEW p \in Process, CompleteCatch(p)
  PROVE  Good(H, L)' /\ Claimed' \subseteq Claimed /\ UNCHANGED <<reserved, unrecorded>>
<1> DEFINE r == req[p]
<1>1. /\ TypeOK /\ UNCHANGED <<row, mpu, objects, fileLock, reserved, unrecorded>> /\ r.pc = "c_catch" /\ r \in Operation
      /\ Copies(H, L, p) /\ Opens(p) /\ r.id \in Attempt
  BY DEF Inv, Good, TypeOK, CompleteCatch, At, store, redis, locks, RequestOK
<1>2. CASE Goto(p, "c_finally")
  <2>1. Good(H, L)' /\ Claimed' \subseteq Claimed \cup {}
    BY <1>1, <1>2, QuietGoes DEF At, Founds, Location
  <2> QED
    BY <1>1, <2>1
<1>3. CASE Uploading(r.id) /\ req' = [req EXCEPT ![p].pc = "a_delete", ![p].seen = row[r.id]]
  <2> DEFINE new == [r EXCEPT !.pc = "a_delete", !.seen = row[r.id]]
  <2>1. fileLock[r.id] = p /\ Present(r.id) /\ ~ Founding(p)
    BY <1>1, <1>3 DEF Copies, Locked, Uploading, Opens, Founds
  <2>2. /\ new.pc = "a_delete" /\ new.op = r.op /\ new.id = r.id /\ new.seen = row[r.id]
        /\ new.write = r.write /\ new.todo = r.todo
    BY <1>1 DEF Operation
  <2>3. req' = [req EXCEPT ![p] = new]
    BY <1>3
  <2>4. req'[p] = new /\ \A q \in Process \ {p} : req'[q] = req[q]
    BY <1>1, <2>3 DEF TypeOK
  <2> HIDE DEF new
  <2>5. ~ Founding(p)'
    BY <2>1, <2>2, <2>4 DEF Founding
  <2> QED
    BY <1>1, <2>1, <2>2, <2>4, <2>5, GoodTakes
<1> QED
  BY <1>2, <1>3 DEF CompleteCatch

-----------------------------------------------------------------------------
(* The steps of an abort, a heartbeat and the cleanup worker.               *)

\* Where the answer of objectExists can be trusted, the deletion goes on only if the session
\* is not and will not be completed.
LEMMA GoodAbortDelete ==
  ASSUME Inv, TypeOK', NEW H \in [Attempt -> Attempt], NEW L \in [Attempt -> Attempt], Good(H, L), NEW p \in Process, AbortDelete(p)
  PROVE  Good(H, L)' /\ Claimed' \subseteq Claimed /\ UNCHANGED <<reserved, unrecorded>>
<1> DEFINE r == req[p]
           s == r.seen.mpu
           w == [id |-> r.id, row |-> Absent]
           new == [r EXCEPT !.pc = "a_commit", !.write = w]
<1>1. /\ TypeOK /\ r \in Operation /\ r.pc = "a_delete" /\ UNCHANGED <<row, objects, reserved, unrecorded>>
      /\ r.seen # Absent /\ r.seen \in Row /\ r.id \in Attempt /\ Copies(H, L, p) /\ Opens(p) /\ Places(H, L)
  BY Rows DEF Inv, Good, TypeOK, AbortDelete, At, RequestOK, redis
<1>2. /\ s \in Attempt /\ In(H, L, r.id, r.seen) /\ fileLock[r.id] = p /\ mpu[r.id] # "none" /\ ~ Founding(p)
  BY <1>1 DEF Row, Copies, Uses, Locked, Opens, Founds
<1>3. CASE /\ req' = [req EXCEPT ![p] = new] /\ UNCHANGED fileLock
           /\ \/ mpu[s] = "open" /\ mpu' = [mpu EXCEPT ![s] = "aborted"]
              \/ FALSE \in ObjectExists(r.seen.path) /\ UNCHANGED mpu
  <2>1. w.row = Absent
    OBVIOUS
  <2> HIDE DEF w
  <2>2. /\ new.pc = "a_commit" /\ new.op = r.op /\ new.id = r.id /\ new.seen = r.seen
        /\ new.write = w /\ new.todo = r.todo
    BY <1>1 DEF Operation
  <2>3. req'[p] = new /\ \A q \in Process \ {p} : req'[q] = req[q]
    BY <1>1, <1>3 DEF TypeOK
  <2> HIDE DEF new
  <2>4. \A m \in Attempt : mpu'[m] = mpu[m] \/ (m = s /\ mpu[m] = "open" /\ mpu'[m] = "aborted")
    BY <1>1, <1>2, <1>3 DEF TypeOK
  <2>5. ~ StatErrorMeansAbsent => mpu'[s] # "completed"
    <3>1. CASE mpu[s] = "open" /\ mpu' = [mpu EXCEPT ![s] = "aborted"]
      BY <1>1, <1>2, <3>1 DEF TypeOK
    <3>2. CASE FALSE \in ObjectExists(r.seen.path) /\ UNCHANGED mpu
      <4>1. ~ StatErrorMeansAbsent => r.seen.path \notin objects
        BY <3>2 DEF ObjectExists
      <4> QED
        BY <1>1, <1>2, <3>2, <4>1 DEF Places, In
    <3> QED
      BY <1>3, <3>1, <3>2
  <2>6. ~ Founding(p)' /\ Knows(p, s) /\ Names(p, r.id) /\ Mentions(p, r.id, s)
    BY <1>1, <1>2, <2>2, <2>3 DEF Founding, Knows, Names, Mentions, Uses
  <2> QED
    BY <1>1, <1>2, <1>3, <2>1, <2>2, <2>3, <2>4, <2>5, <2>6, GoodAborts
<1>4. CASE AbortReturns(p, TRUE) /\ UNCHANGED mpu
  BY <1>1, <1>4, QuietReturns
<1> QED
  BY <1>3, <1>4 DEF AbortDelete

\* p deletes the record of what it has found not to be completed.
LEMMA GoodDeletes ==
  ASSUME Inv, TypeOK', NEW H \in [Attempt -> Attempt], NEW L \in [Attempt -> Attempt], Good(H, L), NEW p \in Process,
         UNCHANGED <<mpu, objects, fileLock>>, \A q \in Process \ {p} : req'[q] = req[q] /\ req[q].write.id # req[p].id,
         req[p].pc \in {"a_commit", "k_delete"}, Present(req[p].id), row' = [row EXCEPT ![req[p].id] = Absent],
         req'[p].pc = "a_refund", req'[p].op = req[p].op, req'[p].id = req[p].id, req'[p].seen = req[p].seen,
         req'[p].todo = req[p].todo, req'[p].write.row = Absent
  PROVE  Good(H, L)' /\ Claimed' \subseteq Claimed
<1> DEFINE id == req[p].id
           m == req[p].seen.mpu
<1>1. /\ TypeOK /\ Copies(H, L, p) /\ Opens(p) /\ Places(H, L) /\ id \in Attempt /\ req[p].seen \in Row /\ m \in Attempt
      /\ req[p].seen # Absent
  BY Rows DEF Inv, Good, RequestOK
<1>2. row'[id] = Absent /\ \A x \in Attempt : x # id => row'[x] = row[x]
  BY <1>1 DEF TypeOK
<1>3. ~ Founding(p) /\ ~ Founding(p)'
  BY <1>1 DEF Opens, Founds, Founding
<1>4. Careful(H, p)
  <2>1. Onwards(p)
    BY <1>1, <1>2 DEF Onwards
  <2> QED
    BY <2>1 DEF Careful
<1>5. Places(H, L)'
  BY <1>1, <1>2 DEF Places, In, Present
<1>6. Copies(H, L, p)'
  BY <1>1, <1>2 DEF Copies, In, Uses, Locked, Present
<1>7. Opens(p)'
  BY <1>3 DEF Opens, Founding, Founds
<1>8. Learns(p)
  BY <1>1, <1>3 DEF Learns, Knows, Names, New, Uses, At
<1>9. ASSUME NEW n \in Attempt, Claims(p, n)' PROVE n \in Claimed
  <2>1. \A x \in Attempt : row'[x] # Absent => Present(x)
    BY <1>1, <1>2 DEF Present
  <2>2. CASE m = n
    <3>1. mpu[n] # "completed"
      BY <1>3, <1>9, <2>2 DEF Claims, At
    <3>2. Mentions(p, id, n)
      BY <2>2 DEF Mentions, Uses
    <3> QED
      BY <1>1, <3>1, <3>2 DEF Claimed, Claims
  <2>3. CASE m # n
    <3>1. mpu[n] # "completed" /\ \E x \in Attempt : Present(x) /\ Mentions(p, x, n)
      BY <1>3, <1>9, <2>1, <2>3 DEF Claims, Mentions, At, Present
    <3> QED
      BY <3>1 DEF Claimed, Claims
  <2> QED
    BY <2>2, <2>3
<1>10. Orderly(H, L, p)
  BY <1>4, <1>5, <1>6, <1>7, <1>8 DEF Orderly
<1>11. \A x \in Attempt : Present(x)' /\ mpu'[row'[x].mpu] # "completed" => Present(x) /\ row'[x].mpu = row[x].mpu
  BY <1>1, <1>2 DEF Present
<1> QED
  BY <1>9, <1>10, <1>11, GoodStep

\* The deletion of an abort commits, or is rolled back.
LEMMA GoodAbortCommit ==
  ASSUME Inv, TypeOK', NEW H \in [Attempt -> Attempt], NEW L \in [Attempt -> Attempt], Good(H, L), NEW p \in Process, AbortCommit(p)
  PROVE  Good(H, L)' /\ Claimed' \subseteq Claimed /\ UNCHANGED <<reserved, unrecorded>>
<1> DEFINE r == req[p]
<1>1. /\ TypeOK /\ r \in Operation /\ r.pc = "a_commit" /\ UNCHANGED <<mpu, objects, reserved, unrecorded>>
      /\ Copies(H, L, p) /\ Opens(p) /\ RequestOK(p) /\ r.id \in Attempt /\ r.id # None /\ r.write.id = r.id
  BY SetAssumption DEF Inv, Good, TypeOK, AbortCommit, At, store, redis, RequestOK
<1>2. CASE /\ row' = [row EXCEPT ![r.id] = Absent] /\ UNCHANGED fileLock
           /\ req' = [req EXCEPT ![p].pc = "a_refund", ![p].write = NoWrite]
  <2> DEFINE new == [r EXCEPT !.pc = "a_refund", !.write = NoWrite]
  <2>1. /\ new.pc = "a_refund" /\ new.op = r.op /\ new.id = r.id /\ new.seen = r.seen
        /\ new.write = NoWrite /\ new.todo = r.todo
    BY <1>1 DEF Operation
  <2>2. req' = [req EXCEPT ![p] = new]
    BY <1>2
  <2>3. req'[p] = new /\ \A q \in Process \ {p} : req'[q] = req[q]
    BY <1>1, <2>2 DEF TypeOK
  <2> HIDE DEF new
  <2>4. Present(r.id)
    BY <1>1 DEF RequestOK, New, At
  <2>5. \A q \in Process \ {p} : req[q].write.id # r.id
    BY <1>1 DEF Inv, Apart
  <2>6. \A q \in Process \ {p} : req'[q] = req[q] /\ req[q].write.id # req[p].id
    BY <2>3, <2>5
  <2>7. /\ req'[p].pc = "a_refund" /\ req'[p].op = req[p].op /\ req'[p].id = req[p].id /\ req'[p].seen = req[p].seen
        /\ req'[p].todo = req[p].todo /\ req'[p].write.row = Absent
    BY <2>1, <2>3, IdleForm
  <2>8. Good(H, L)' /\ Claimed' \subseteq Claimed
    BY <1>1, <1>2, <2>4, <2>6, <2>7, GoodDeletes
  <2> QED
    BY <1>1, <2>8
<1>3. CASE /\ UNCHANGED <<row, fileLock>>
           /\ req' = [req EXCEPT ![p].pc = "c_finally", ![p].write = NoWrite]
  <2> DEFINE new == [r EXCEPT !.pc = "c_finally", !.write = NoWrite]
  <2>1. /\ new.pc = "c_finally" /\ new.op = r.op /\ new.id = r.id /\ new.seen = r.seen
        /\ new.write = NoWrite /\ new.todo = r.todo
    BY <1>1 DEF Operation
  <2>2. req' = [req EXCEPT ![p] = new]
    BY <1>3
  <2>3. req'[p] = new /\ \A q \in Process \ {p} : req'[q] = req[q]
    BY <1>1, <2>2 DEF TypeOK
  <2> HIDE DEF new
  <2>4. ~ Founding(p)' /\ ~ New(p)' /\ req'[p].pc \notin Uses \cup Locked \cup Founds /\ req'[p].pc # "idle"
    BY <1>1, <2>1, <2>3 DEF Opens, Founding, New, At, Uses, Locked, Founds
  <2>5. Good(H, L)' /\ Claimed' \subseteq Claimed \cup {}
    BY <1>1, <1>3, <2>1, <2>3, <2>4, QuietRelaxes
  <2> QED
    BY <1>1, <2>5
<1>4. CASE AbortReturns(p, TRUE) /\ UNCHANGED row
  BY <1>1, <1>4, QuietReturns
<1> QED
  BY <1>2, <1>3, <1>4 DEF AbortCommit

\* A heartbeat writes back a session that was in the record, or that it has accounted for since.
LEMMA GoodHeartbeatUpdate ==
  ASSUME Inv, TypeOK', NEW H \in [Attempt -> Attempt], NEW L \in [Attempt -> Attempt], Good(H, L), NEW p \in Process, HeartbeatUpdate(p)
  PROVE  Good(H, L)' /\ Claimed' \subseteq Claimed /\ UNCHANGED <<reserved, unrecorded>>
<1> DEFINE r == req[p]
           w == [r.seen EXCEPT !.age = 0]
<1>1. /\ TypeOK /\ Ends(p) /\ UNCHANGED <<mpu, objects, fileLock, reserved, unrecorded>> /\ Copies(H, L, p) /\ Places(H, L)
      /\ row' = IF Present(r.id) THEN [row EXCEPT ![r.id] = w] ELSE row
      /\ r.id \in Attempt /\ r.seen \in Row /\ r.seen # Absent /\ r.pc = "h_update"
  BY Rows DEF Inv, Good, HeartbeatUpdate, At, store, redis, locks, RequestOK
<1>2. CASE ~ Present(r.id)
  BY <1>1, <1>2, QuietEnds
<1>3. CASE Present(r.id)
  <2>1. In(H, L, r.id, r.seen) /\ r.seen.mpu \in Attempt
    BY <1>1 DEF Copies, Uses, Row
  <2>2. w \in Row /\ w.mpu = r.seen.mpu /\ w.path = r.seen.path /\ w.st = r.seen.st
    BY <1>1, Written
  <2> HIDE DEF w
  <2>3. row'[r.id] = w /\ \A x \in Attempt : x # r.id => row'[x] = row[x]
    BY <1>1, <1>3 DEF TypeOK
  <2>4. req'[p] = Idle /\ \A q \in Process \ {p} : req'[q] = req[q]
    BY <1>1, EndsForm
  <2>5. Knows(p, w.mpu) /\ w # Absent
    BY <1>1, <2>2, SetAssumption DEF Knows, Row
  <2>6. Careful(H, p)
    <3>1. Onwards(p)
      BY <1>1, <1>3, <2>3, <2>4, <2>5 DEF Onwards, Present
    <3> QED
      BY <1>1, <3>1 DEF Careful
  <2>7. Places(H, L)'
    BY <1>1, <2>1, <2>2, <2>3 DEF Places, In, Present
  <2>8. Copies(H, L, p)' /\ Opens(p)' /\ Learns(p)
    BY <2>4, IdleForm DEF Copies, Opens, Learns, Founding, Founds, Knows, Names, New, Uses, Locked, At
  <2>9. \A m \in Attempt : Claims(p, m)' => m \in Claimed
    BY <2>4, IdleForm DEF Claims, Founding, Mentions, At, Uses
  <2>10. mpu[w.mpu] = "completed" \/ w.mpu \in Claimed
    BY <1>1, <1>3, <2>1, <2>2 DEF Claimed, Claims, Mentions, Uses
  <2>11. \A x \in Attempt : row'[x] # Absent /\ mpu'[row'[x].mpu] # "completed" =>
           (row[x] # Absent /\ row'[x].mpu = row[x].mpu) \/ row'[x].mpu \in Claimed
    BY <1>1, <2>3, <2>10
  <2>12. Orderly(H, L, p)
    BY <2>6, <2>7, <2>8 DEF Orderly
  <2> QED
    BY <1>1, <2>9, <2>11, <2>12, GoodStep DEF Present
<1> QED
  BY <1>2, <1>3

\* The worker aborts the session of a stale record, or passes over it.
LEMMA GoodCleanupAbort ==
  ASSUME Inv, TypeOK', NEW H \in [Attempt -> Attempt], NEW L \in [Attempt -> Attempt], Good(H, L),
         NEW t \in req[Cleaner].todo, CleanupAbort(t)
  PROVE  Good(H, L)' /\ Claimed' \subseteq Claimed /\ UNCHANGED <<reserved, unrecorded>>
<1> DEFINE r == req[Cleaner]
<1>1. /\ TypeOK /\ Cleaner \in Process /\ r \in Operation /\ r.pc = "next" /\ UNCHANGED <<row, objects, fileLock, reserved, unrecorded>>
      /\ Copies(H, L, Cleaner) /\ Opens(Cleaner)
  BY DEF Inv, Good, TypeOK, CleanupAbort, At, locks, redis, Process
<1>2. t.id \in Attempt /\ t.row \in Row /\ t.row.mpu \in Attempt /\ In(H, L, t.id, t.row) /\ mpu[t.id] # "none" /\ ~ Founding(Cleaner)
  BY <1>1, Rows DEF Copies, Opens, Founds
<1>3. CASE /\ mpu[t.row.mpu] = "open" /\ mpu' = [mpu EXCEPT ![t.row.mpu] = "aborted"]
           /\ req' = [req EXCEPT ![Cleaner].pc = "k_delete", ![Cleaner].id = t.id, ![Cleaner].seen = t.row]
  <2> DEFINE new == [r EXCEPT !.pc = "k_delete", !.id = t.id, !.seen = t.row]
  <2>1. /\ new.pc = "k_delete" /\ new.op = r.op /\ new.id = t.id /\ new.seen = t.row
        /\ new.write = r.write /\ new.todo = r.todo
    BY <1>1 DEF Operation
  <2>2. req' = [req EXCEPT ![Cleaner] = new]
    BY <1>3
  <2>3. req'[Cleaner] = new /\ \A q \in Process \ {Cleaner} : req'[q] = req[q]
    BY <1>1, <2>2 DEF TypeOK
  <2> HIDE DEF new
  <2>4. /\ mpu'[t.row.mpu] = "aborted"
        /\ \A m \in Attempt : mpu'[m] = mpu[m] \/ (m = t.row.mpu /\ mpu[m] = "open" /\ mpu'[m] = "aborted")
    BY <1>1, <1>2, <1>3 DEF TypeOK
  <2>5. /\ Knows(Cleaner, t.row.mpu) /\ Names(Cleaner, t.id) /\ Mentions(Cleaner, t.id, t.row.mpu)
        /\ ~ Founding(Cleaner)' /\ req'[Cleaner].pc \notin Locked
    BY <1>2, <2>1, <2>3 DEF Knows, Names, Mentions, Founding, Locked
  <2>6. /\ req'[Cleaner].pc = "k_delete" /\ req'[Cleaner].id = t.id /\ req'[Cleaner].seen = t.row
        /\ req'[Cleaner].write = req[Cleaner].write /\ req'[Cleaner].todo = req[Cleaner].todo
    BY <2>1, <2>3
  <2>7. /\ req'[Cleaner].id \in Attempt /\ req'[Cleaner].seen \in Row /\ Names(Cleaner, req'[Cleaner].id)
        /\ In(H, L, req'[Cleaner].id, req'[Cleaner].seen) /\ mpu[req'[Cleaner].id] # "none"
        /\ Mentions(Cleaner, req'[Cleaner].id, req'[Cleaner].seen.mpu) /\ mpu'[req'[Cleaner].seen.mpu] = "aborted"
    BY <1>2, <2>4, <2>5, <2>6
  <2>8. PICK s \in Attempt : s = t.row.mpu
    BY <1>2
  <2>9. Knows(Cleaner, s) /\ \A m \in Attempt : mpu'[m] = mpu[m] \/ (m = s /\ mpu[m] = "open" /\ mpu'[m] = "aborted")
    BY <2>4, <2>5, <2>8
  <2>10. \A id \in Attempt, q \in Process \ {Cleaner} : fileLock[id] = q => fileLock'[id] = q
    BY <1>1
  <2>11. Good(H, L)' /\ Claimed' \subseteq Claimed
    BY <1>1, <1>2, <2>3, <2>5, <2>6, <2>7, <2>9, <2>10, GoodAborts
  <2> QED
    BY <1>1, <2>11
<1>4. CASE req' = [req EXCEPT ![Cleaner].todo = @ \ {t}] /\ UNCHANGED mpu
  <2> DEFINE new == [r EXCEPT !.todo = r.todo \ {t}]
  <2>1. /\ new.pc = "next" /\ new.op = r.op /\ new.id = r.id /\ new.seen = r.seen
        /\ new.write = r.write /\ new.todo \subseteq r.todo
    BY <1>1 DEF Operation
  <2>2. req' = [req EXCEPT ![Cleaner] = new]
    BY <1>4
  <2>3. req'[Cleaner] = new /\ \A q \in Process \ {Cleaner} : req'[q] = req[q]
    BY <1>1, <2>2 DEF TypeOK
  <2> HIDE DEF new
  <2>4. ~ Founding(Cleaner)' /\ ~ New(Cleaner)' /\ req'[Cleaner].pc \notin Uses \cup Locked \cup Founds /\ req'[Cleaner].pc # "idle"
    BY <1>2, <2>1, <2>3 DEF Founding, New, At, Uses, Locked, Founds
  <2>5. Good(H, L)' /\ Claimed' \subseteq Claimed \cup {}
    BY <1>1, <1>4, <2>1, <2>3, <2>4, QuietRelaxes
  <2> QED
    BY <1>1, <2>5
<1> QED
  BY <1>3, <1>4 DEF CleanupAbort

\* The worker deletes the record of the session it has aborted, if it is still there.
LEMMA GoodCleanupDelete ==
  ASSUME Inv, TypeOK', NEW H \in [Attempt -> Attempt], NEW L \in [Attempt -> Attempt], Good(H, L), CleanupDelete
  PROVE  Good(H, L)' /\ Claimed' \subseteq Claimed /\ UNCHANGED <<reserved, unrecorded>>
<1> DEFINE r == req[Cleaner]
<1>1. /\ TypeOK /\ Cleaner \in Process /\ r.pc = "k_delete" /\ UNCHANGED <<mpu, objects, reserved, unrecorded>>
      /\ r.write = NoWrite /\ RowFree(Cleaner, r.id)
  BY DEF Inv, CleanupDelete, At, store, redis, Process, RequestOK
<1>2. CASE Present(r.id) /\ row' = [row EXCEPT ![r.id] = Absent] /\ Goto(Cleaner, "a_refund") /\ UNCHANGED fileLock
  <2>1. /\ \A q \in Process \ {Cleaner} : req'[q] = req[q] /\ req[q].write.id # r.id
        /\ req'[Cleaner].pc = "a_refund" /\ req'[Cleaner].op = r.op /\ req'[Cleaner].id = r.id /\ req'[Cleaner].seen = r.seen
        /\ req'[Cleaner].write = r.write /\ req'[Cleaner].todo = r.todo
    BY <1>1, <1>2, GotoForm DEF Location, RowFree
  <2>2. req'[Cleaner].write.row = Absent
    BY <1>1, <2>1, IdleForm
  <2>3. Good(H, L)' /\ Claimed' \subseteq Claimed
    BY <1>1, <1>2, <2>1, <2>2, GoodDeletes
  <2> QED
    BY <1>1, <2>3
<1>3. CASE AbortReturns(Cleaner, FALSE) /\ UNCHANGED row
  BY <1>1, <1>3, QuietReturns
<1> QED
  BY <1>2, <1>3 DEF CleanupDelete

-----------------------------------------------------------------------------
(* Time and failures.                                                       *)

\* A record that ages keeps its session and its path.
LEMMA GoodAge ==
  ASSUME Inv, NEW H \in [Attempt -> Attempt], NEW L \in [Attempt -> Attempt], Good(H, L), NEW id \in Attempt, Age(id)
  PROVE  Good(H, L)' /\ Claimed' = Claimed /\ UNCHANGED <<reserved, unrecorded>>
<1> DEFINE w == [row[id] EXCEPT !.age = row[id].age + 1]
<1>1. /\ TypeOK /\ UNCHANGED <<mpu, objects, fileLock, req, reserved, unrecorded>> /\ row' = [row EXCEPT ![id] = w]
      /\ row[id] # Absent /\ row[id] \in Row /\ row[id].age < 2
  BY DEF Inv, TypeOK, Age, Uploading, Present, store, redis, locks
<1>2. w \in Row /\ w.mpu = row[id].mpu /\ w.path = row[id].path /\ w.st = row[id].st
  BY <1>1, Written
<1>3. w # Absent
  BY <1>2, SetAssumption DEF Row
<1> HIDE DEF w
<1>4. row'[id] = w /\ \A x \in Attempt : x # id => row'[x] = row[x]
  BY <1>1 DEF TypeOK
<1>5. \A x \in Attempt : /\ row'[x] # Absent <=> row[x] # Absent
                         /\ row[x] # Absent => /\ row'[x].mpu = row[x].mpu /\ row'[x].path = row[x].path
                                               /\ row'[x].st = row[x].st
  BY <1>1, <1>2, <1>3, <1>4
<1>6. Places(H, L)'
  BY <1>1, <1>5 DEF Good, Places, In, Present
<1>7. ASSUME NEW p \in Process PROVE Copies(H, L, p)' /\ Opens(p)' /\ (New(p)' => New(p))
  <2>1. Copies(H, L, p) /\ Opens(p) /\ RequestOK(p)
    BY DEF Good, Inv
  <2>2. req[p].pc = "a_refund" => req[p].id \in Attempt
    BY <2>1 DEF RequestOK
  <2>3. Copies(H, L, p)'
    BY <1>1, <1>5, <2>1, <2>2 DEF Copies, In, Present
  <2>4. Opens(p)'
    BY <1>1, <1>5, <2>1 DEF Opens, Founding, Present
  <2>5. New(p)' => New(p)
    BY <1>1, <1>5 DEF New, Present, At
  <2> QED
    BY <2>3, <2>4, <2>5
<1>8. \A p, q \in Process : p # q => Alone(p, q)'
  BY <1>1, <1>7 DEF Good, Alone, Founding, Knows, Names, At
<1>9. Claimed' = Claimed
  <2>1. \A m \in Attempt : Recorded(m)' <=> Recorded(m)
    BY <1>1, <1>5 DEF Recorded, Present
  <2>2. \A p \in Process, m \in Attempt : Claims(p, m)' <=> Claims(p, m)
    <3> TAKE p \in Process, m \in Attempt
    <3>1. At(p, "c_update") => req[p].id \in Attempt
      BY DEF Inv, RequestOK, At
    <3> QED
      BY <1>1, <1>5, <3>1 DEF Claims, Founding, Mentions, At, Present
  <2> QED
    BY <2>1, <2>2 DEF Claimed
<1> QED
  BY <1>1, <1>6, <1>7, <1>8, <1>9 DEF Good

\* A transaction that times out loses the record it has written.
LEMMA GoodTxTimeout ==
  ASSUME Inv, TypeOK', NEW H \in [Attempt -> Attempt], NEW L \in [Attempt -> Attempt], Good(H, L), NEW p \in Process, TxTimeout(p)
  PROVE  Good(H, L)' /\ Claimed' \subseteq Claimed /\ UNCHANGED <<reserved, unrecorded>>
<1> DEFINE r == req[p]
           new == [r EXCEPT !.tx = "closed", !.write = NoWrite]
<1>1. /\ TypeOK /\ r \in Operation /\ req' = [req EXCEPT ![p] = new] /\ Copies(H, L, p) /\ Opens(p)
      /\ UNCHANGED <<row, mpu, objects, reserved, unrecorded, fileLock>>
      /\ r.pc \in {"i_reserve", "i_slot", "i_store", "commit", "c_store", "c_update", "c_finalize"}
  BY DEF Inv, Good, TypeOK, TxTimeout, redis, store, locks
<1>2. /\ new.pc = r.pc /\ new.op = r.op /\ new.id = r.id /\ new.seen = r.seen
      /\ new.write = NoWrite /\ new.todo = r.todo
  BY <1>1 DEF Operation
<1>3. req'[p] = new /\ \A q \in Process \ {p} : req'[q] = req[q]
  BY <1>1 DEF TypeOK
<1> HIDE DEF new
<1>4. Copies(H, L, p)'
  BY <1>1, <1>2, <1>3, IdleForm DEF Copies, In
<1>5. Opens(p)'
  BY <1>1, <1>2, <1>3, IdleForm DEF Opens, Founding, Present
<1>6. Learns(p)
  <2>1. ~ New(p)'
    BY <1>2, <1>3, IdleForm, SetAssumption DEF New
  <2> QED
    BY <1>1, <1>2, <1>3, <2>1, IdleForm DEF Learns, Founding, Knows, Names, At
<1>7. ASSUME NEW m \in Attempt, Claims(p, m)' PROVE m \in Claimed \cup {}
  <2>1. Claims(p, m)
    BY <1>1, <1>2, <1>3, <1>7 DEF Claims, Founding, Mentions, At, Present
  <2> QED
    BY <2>1 DEF Claimed
<1>8. Good(H, L)' /\ Claimed' \subseteq Claimed \cup {}
  BY <1>1, <1>3, <1>4, <1>5, <1>6, <1>7, QuietStep
<1> QED
  BY <1>1, <1>8

\* A crash drops what the process had in hand.
LEMMA GoodCrash ==
  ASSUME Inv, TypeOK', NEW H \in [Attempt -> Attempt], NEW L \in [Attempt -> Attempt], Good(H, L), NEW p \in Process, Crash(p)
  PROVE  Good(H, L)' /\ Claimed' \subseteq Claimed /\ UNCHANGED <<reserved, unrecorded>>
<1>1. /\ UNCHANGED <<row, mpu, objects, reserved, unrecorded>> /\ Ends(p)
      /\ fileLock' = [id \in Attempt |-> IF fileLock[id] = p THEN Dead ELSE fileLock[id]]
  BY DEF Crash, store, redis
<1>2. \A id \in Attempt, q \in Process \ {p} : fileLock[id] = q => fileLock'[id] = q
  BY <1>1
<1> QED
  BY <1>1, <1>2, QuietEnds

\* Slots and locks that expire change no record; a holder keeps his lock.
LEMMA GoodExpires ==
  ASSUME Inv, NEW H \in [Attempt -> Attempt], NEW L \in [Attempt -> Attempt], Good(H, L),
         SlotsExpire \/ QuotaLockStrays \/ LocksExpire
  PROVE  Good(H, L)' /\ Claimed' = Claimed /\ UNCHANGED <<reserved, unrecorded>>
<1>1. UNCHANGED <<row, mpu, objects, req, reserved, unrecorded>>
  BY DEF SlotsExpire, QuotaLockStrays, LocksExpire, store, redis
<1>2. \A id \in Attempt, q \in Process : fileLock[id] = q => fileLock'[id] = q
  BY SetAssumption DEF SlotsExpire, QuotaLockStrays, LocksExpire, locks, Process
<1> QED
  BY <1>1, <1>2, StillStep

\* When nobody does anything and no upload is active, nothing is accounted for.
LEMMA NothingClaimed ==
  ASSUME Inv, NEW H, NEW L, Good(H, L), Active = {}, \A p \in Process : At(p, "idle")
  PROVE  Claimed = {}
<1>1. ASSUME NEW m \in Attempt, Recorded(m) PROVE FALSE
  <2>1. PICK id \in Attempt : Present(id) /\ row[id].mpu = m /\ mpu[m] # "completed"
    BY <1>1 DEF Recorded
  <2>2. row[id].st = "uploading"
    BY <2>1 DEF Inv, TypeOK, Row, Present, Good, Places, In
  <2> QED
    BY <2>1, <2>2 DEF Active, Uploading
<1>2. ASSUME NEW p \in Process, NEW m \in Attempt, Claims(p, m) PROVE FALSE
  <2>1. req[p].pc = "idle" /\ Opens(p)
    BY DEF Good, At
  <2> QED
    BY <1>2, <2>1 DEF Opens, Founding, Founds, Claims, Mentions, Uses, At
<1> QED
  BY <1>1, <1>2 DEF Claimed

\* The counter of reserved bytes runs out: nothing else changes, and in a quiet time nothing
\* is accounted for.
LEMMA GoodReservedExpires ==
  ASSUME Inv, NEW H \in [Attempt -> Attempt], NEW L \in [Attempt -> Attempt], Good(H, L), ReservedExpires
  PROVE  Good(H, L)' /\ reserved' = Missing /\ UNCHANGED unrecorded /\ (Expiry = "quiet" => Claimed' = {})
<1>1. UNCHANGED <<row, mpu, objects, req, fileLock, unrecorded>> /\ reserved' = Missing
  BY DEF ReservedExpires, store, locks
<1>2. Expiry = "quiet" => Active = {} /\ \A p \in Process : At(p, "idle")
  BY DEF ReservedExpires, MayExpire
<1>3. Expiry = "quiet" => Claimed = {}
  BY <1>2, NothingClaimed
<1>4. Good(H, L)' /\ Claimed' = Claimed
  BY <1>1, StillStep
<1> QED
  BY <1>1, <1>3, <1>4

-----------------------------------------------------------------------------
(* The bytes of what is accounted for stay reserved.                        *)

\* What is accounted for is reserved, but for the bytes that Redis failed to record.
ClaimInv == Sum(Size, Claimed) <= reserved.n + Sum(Size, unrecorded)

\* Sizes are numbers, and so are their sums.
LEMMA SizesForm ==
  ASSUME NEW S \in SUBSET Attempt
  PROVE  /\ IsFiniteSet(Attempt) /\ Size \in [Attempt -> Nat] /\ Sum(Size, S) \in Nat
         /\ \A m \in Attempt : Size[m] \in Nat
<1>1. IsFiniteSet(Attempt) /\ Size \in [Attempt -> Nat]
  BY SetAssumption, LimitAssumption
<1> QED
  BY <1>1, SumType

\* The sums in question, and what is claimed after a step that adds and drops sessions.
LEMMA ClaimsForm ==
  ASSUME TypeOK, NEW A \in SUBSET Attempt, NEW T \in SUBSET A
  PROVE  /\ Claimed \in SUBSET Attempt /\ unrecorded \in SUBSET Attempt /\ reserved \in Key /\ reserved.n \in Nat
         /\ Sum(Size, Claimed) \in Nat /\ Sum(Size, unrecorded) \in Nat
         /\ Sum(Size, T) \in Nat /\ Sum(Size, A) \in Nat /\ Sum(Size, T) <= Sum(Size, A)
<1>1. Claimed \in SUBSET Attempt /\ unrecorded \in SUBSET Attempt /\ reserved \in Key /\ reserved.n \in Nat
  BY DEF TypeOK, Key, Claimed
<1>2. T \in SUBSET Attempt
  OBVIOUS
<1> QED
  BY <1>1, <1>2, SizesForm, SumGrows

\* Less to account for.
LEMMA ClaimsDrop ==
  ASSUME TypeOK, ClaimInv, UNCHANGED <<reserved, unrecorded>>, Claimed' \subseteq Claimed
  PROVE  ClaimInv'
<1> DEFINE S == Claimed
           T == Claimed'
           U == Sum(Size, unrecorded)
<1>1. S \in SUBSET Attempt /\ T \in SUBSET S /\ reserved.n \in Nat /\ U \in Nat /\ Sum(Size, S) <= reserved.n + U
  BY ClaimsForm DEF ClaimInv, Claimed
<1>2. ClaimInv' <=> Sum(Size, T) <= reserved.n + U
  BY DEF ClaimInv
<1> HIDE DEF S, T, U
<1>3. Sum(Size, T) <= Sum(Size, S) /\ Sum(Size, T) \in Nat /\ Sum(Size, S) \in Nat
  BY <1>1, SizesForm, SumGrows
<1> QED
  BY <1>1, <1>2, <1>3

\* A reservation for what is accounted for in addition, recorded or not.
LEMMA ClaimsAdd ==
  ASSUME TypeOK, ClaimInv, NEW m \in Attempt, AddReservation(m), Claimed' \subseteq Claimed \cup {m}
  PROVE  ClaimInv'
<1> DEFINE S == Claimed
           T == Claimed'
           U == Sum(Size, unrecorded)
           V == Sum(Size, unrecorded')
<1>1. /\ S \in SUBSET Attempt /\ T \in SUBSET (S \cup {m}) /\ reserved.n \in Nat /\ U \in Nat
      /\ Sum(Size, S) <= reserved.n + U
  BY ClaimsForm DEF ClaimInv, Claimed
<1>2. ClaimInv' <=> Sum(Size, T) <= reserved'.n + V
  BY DEF ClaimInv
<1>3. Size[m] \in Nat \ {0}
  BY LimitAssumption
<1>4. reserved'.n + V = reserved.n + U + Size[m]
  <2>1. CASE reserved' = Adjusted(reserved, Size[m]) /\ UNCHANGED unrecorded
    <3>1. reserved'.n = reserved.n + Size[m]
      BY <1>1, <1>3, <2>1 DEF Adjusted
    <3>2. V = U
      BY <2>1
    <3> HIDE DEF U, V
    <3> QED
      BY <1>1, <1>3, <3>1, <3>2
  <2>2. CASE m \notin unrecorded /\ unrecorded' = unrecorded \cup {m} /\ UNCHANGED reserved
    <3>1. V = Size[m] + Sum(Size, unrecorded' \ {m})
      BY <2>2, SizesForm, SumBegins DEF TypeOK
    <3>2. unrecorded' \ {m} = unrecorded
      BY <2>2
    <3>3. V = Size[m] + U
      BY <3>1, <3>2
    <3> HIDE DEF U, V
    <3> QED
      BY <1>1, <1>3, <2>2, <3>3
  <2> QED
    BY <2>1, <2>2 DEF AddReservation
<1> HIDE DEF S, T, U, V
<1>5. Sum(Size, T) <= Sum(Size, S \cup {m}) /\ Sum(Size, S \cup {m}) <= Sum(Size, S) + Size[m]
  BY <1>1, SizesForm, SumGrows, SumAdds
<1>6. Sum(Size, T) \in Nat /\ Sum(Size, S) \in Nat /\ Sum(Size, S \cup {m}) \in Nat
  BY <1>1, SizesForm
<1> QED
  BY <1>1, <1>2, <1>3, <1>4, <1>5, <1>6

\* What is given back is accounted for no more.
LEMMA ClaimsEnd ==
  ASSUME TypeOK, ClaimInv, NEW m \in Claimed, GivenBack(m), Claimed' \subseteq Claimed \ {m}
  PROVE  ClaimInv'
<1> DEFINE S == Claimed
           T == Claimed'
           U == Sum(Size, unrecorded)
<1>1. /\ S \in SUBSET Attempt /\ T \in SUBSET (S \ {m}) /\ m \in S /\ reserved \in Key /\ reserved.n \in Nat
      /\ U \in Nat /\ Sum(Size, S) <= reserved.n + U
  BY ClaimsForm DEF ClaimInv, Claimed
<1>2. ClaimInv' <=> Sum(Size, T) <= reserved'.n + U
  BY DEF ClaimInv, GivenBack
<1> HIDE DEF S, T, U
<1>3. Size[m] \in Nat
  BY <1>1, SizesForm
<1>4. Sum(Size, S) = Size[m] + Sum(Size, S \ {m}) /\ Sum(Size, T) <= Sum(Size, S \ {m})
  BY <1>1, SizesForm, SumBegins, SumGrows
<1>5. Sum(Size, T) \in Nat /\ Sum(Size, S) \in Nat /\ Sum(Size, S \ {m}) \in Nat
  BY <1>1, SizesForm
<1>7. reserved'.n \in Nat /\ reserved'.n >= reserved.n - Size[m]
  <2>1. CASE reserved.n = Size[m]
    BY <1>1, <1>3, <2>1 DEF Decremented, Missing, GivenBack
  <2>2. CASE reserved.n > Size[m]
    BY <1>1, <1>3, <2>2 DEF Decremented, Key, GivenBack
  <2>3. CASE reserved.n < Size[m]
    BY <1>1, <1>3, <2>3 DEF Decremented, Key, GivenBack
  <2> QED
    BY <1>1, <1>3, <2>1, <2>2, <2>3
<1> QED
  BY <1>1, <1>2, <1>3, <1>4, <1>5, <1>7

\* What every step does: it accounts for no more, or reserves what it adds, or gives back what it drops.
Settles ==
  \/ UNCHANGED <<reserved, unrecorded>> /\ Claimed' \subseteq Claimed
  \/ \E m \in Attempt : AddReservation(m) /\ Claimed' \subseteq Claimed \cup {m}
  \/ \E m \in Claimed : GivenBack(m) /\ Claimed' \subseteq Claimed \ {m}
  \/ reserved' = Missing /\ UNCHANGED unrecorded /\ Claimed' = {}

\* A step that settles keeps what is accounted for reserved.
LEMMA Settled ==
  ASSUME TypeOK, ClaimInv, Settles
  PROVE  ClaimInv'
<1>1. CASE UNCHANGED <<reserved, unrecorded>> /\ Claimed' \subseteq Claimed
  BY <1>1, ClaimsDrop
<1>2. ASSUME NEW m \in Attempt, AddReservation(m), Claimed' \subseteq Claimed \cup {m} PROVE ClaimInv'
  BY <1>2, ClaimsAdd
<1>3. ASSUME NEW m \in Claimed, GivenBack(m), Claimed' \subseteq Claimed \ {m} PROVE ClaimInv'
  BY <1>3, ClaimsEnd
<1>4. CASE reserved' = Missing /\ UNCHANGED unrecorded /\ Claimed' = {}
  <2>1. Sum(Size, {}) = 0 /\ Sum(Size, unrecorded) \in Nat
    BY SizesForm, SumPicks DEF TypeOK
  <2>2. reserved'.n = 0 /\ (ClaimInv' <=> Sum(Size, {}) <= 0 + Sum(Size, unrecorded))
    BY <1>4 DEF Missing, ClaimInv
  <2> QED
    BY <2>1, <2>2
<1> QED
  BY <1>1, <1>2, <1>3, <1>4 DEF Settles

\* Every step keeps the records and copies in order, and settles its account unless the
\* counter runs out under an upload, or what is refunded was completed.
LEMMA StepSettles ==
  ASSUME Inv, TypeOK', Housed, [Next]_vars
  PROVE  Housed' /\ (Expiry = "quiet" /\ ~ StatErrorMeansAbsent => Settles)
<1>1. PICK H, L \in [Attempt -> Attempt] : Good(H, L)
  BY DEF Housed
<1>2. ASSUME Good(H, L)' PROVE Housed'
  <2>1. \E G, K \in [Attempt -> Attempt] : Good(G, K)'
    <3> WITNESS H \in [Attempt -> Attempt], L \in [Attempt -> Attempt]
    <3> QED
      BY <1>2
  <2> QED
    BY <2>1 DEF Housed
<1>3. ASSUME Good(H, L)' /\ Claimed' \subseteq Claimed /\ UNCHANGED <<reserved, unrecorded>> PROVE Housed' /\ Settles
  BY <1>2, <1>3 DEF Settles
<1>4. CASE UNCHANGED vars
  <2>1. Good(H, L)' /\ Claimed' = Claimed
    BY <1>1, <1>4, StillStep DEF vars, store, locks
  <2> QED
    BY <1>3, <1>4, <2>1 DEF vars, redis
<1>5. ASSUME NEW p \in Request, Starts(p) PROVE Housed' /\ Settles
  <2>1. ASSUME NEW u \in Attempt, BeginInitiate(p, u) \/ BeginComplete(p, u) \/ BeginAbort(p, u) \/ BeginHeartbeat(p, u)
        PROVE  Housed' /\ Settles
    BY <1>1, <1>3, <2>1, GoodBeginInitiate, GoodBegins
  <2>2. CASE BeginClear(p)
    <3>1. UNCHANGED <<row, mpu, objects, fileLock, reserved, unrecorded>> /\ p \in Process /\ At(p, "idle")
      BY <2>2 DEF BeginClear, Calls, store, redis, locks, Process
    <3>2. req' = [req EXCEPT ![p] = [Idle EXCEPT !.pc = "next", !.op = "clear", !.todo = Listed(Active)]]
      BY <2>2 DEF BeginClear
    <3>3. Good(H, L)' /\ Claimed' \subseteq Claimed
      BY <1>1, <3>1, <3>2, GoodLists
    <3> QED
      BY <1>3, <3>1, <3>3
  <2> QED
    BY <1>5, <2>1, <2>2 DEF Starts
<1>6. ASSUME NEW p \in Process, Continues(p) PROVE Housed' /\ (~ StatErrorMeansAbsent => Settles)
  <2>1. CASE TakeQuotaLock(p) \/ QuotaLockBusy(p) \/ CompleteFinally(p) \/ ClearSlots(p)
    BY <1>1, <1>3, <2>1, GoodTakeQuotaLock, GoodQuotaLockBusy, GoodEnds
  <2>2. CASE Reserve(p)
    BY <1>1, <1>2, <2>2, GoodReserve DEF Settles
  <2>3. ASSUME Refund(p) PROVE Housed' /\ (~ StatErrorMeansAbsent => Settles)
    BY <1>1, <1>2, <2>3, GoodRefund DEF Settles
  <2>4. CASE Finalize(p)
    BY <1>1, <1>2, <2>4, GoodFinalize DEF Settles
  <2>5. CASE Store(p)
    BY <1>1, <2>5, GoodStore DEF Settles
  <2>6. CASE AcquireSlot(p) \/ StoreFails(p) \/ Commit(p)
    BY <1>1, <1>3, <2>6, GoodAcquireSlot, GoodStoreFails, GoodCommit
  <2>7. CASE CompleteInStore(p) \/ CompleteInStoreFails(p) \/ CompleteUpdate(p) \/ CompleteCatch(p)
    BY <1>1, <1>3, <2>7, GoodCompleteInStore, GoodCompleteInStoreFails, GoodCompleteUpdate, GoodCompleteCatch
  <2>8. CASE AbortDelete(p) \/ AbortCommit(p) \/ HeartbeatUpdate(p)
    BY <1>1, <1>3, <2>8, GoodAbortDelete, GoodAbortCommit, GoodHeartbeatUpdate
  <2>9. CASE \E t \in req[p].todo : ClearNext(p, t)
    BY <1>1, <1>3, <2>9, GoodClearNext
  <2> QED
    BY <1>6, <2>1, <2>2, <2>3, <2>4, <2>5, <2>6, <2>7, <2>8, <2>9 DEF Continues
<1>7. CASE Cleans
  <2>0. Cleaner \in Process
    BY DEF Process
  <2>1. CASE BeginCleanup
    <3> DEFINE stale == {id \in Active : row[id].age = 2}
    <3>1. UNCHANGED <<row, mpu, objects, fileLock, reserved, unrecorded>> /\ At(Cleaner, "idle") /\ stale \in SUBSET Active
      BY <2>1 DEF BeginCleanup, store, redis, locks
    <3>2. req' = [req EXCEPT ![Cleaner] = [Idle EXCEPT !.pc = "next", !.op = "cleanup", !.todo = Listed(stale)]]
      BY <2>1 DEF BeginCleanup
    <3> HIDE DEF stale
    <3>3. Good(H, L)' /\ Claimed' \subseteq Claimed
      BY <1>1, <2>0, <3>1, <3>2, GoodLists
    <3> QED
      BY <1>3, <3>1, <3>3
  <2>2. CASE (\E t \in req[Cleaner].todo : CleanupAbort(t)) \/ CleanupDelete \/ EndCleanup
    BY <1>1, <1>3, <2>0, <2>2, GoodCleanupAbort, GoodCleanupDelete, GoodEnds
  <2> QED
    BY <1>7, <2>1, <2>2 DEF Cleans
<1>8. ASSUME Environment PROVE Housed' /\ (Expiry = "quiet" => Settles)
  <2>1. CASE (\E id \in Attempt : Age(id)) \/ SlotsExpire \/ QuotaLockStrays \/ LocksExpire
    BY <1>1, <1>3, <2>1, GoodAge, GoodExpires
  <2>2. CASE \E p \in Process : TxTimeout(p) \/ Crash(p)
    BY <1>1, <1>3, <2>2, GoodTxTimeout, GoodCrash
  <2>3. CASE ReservedExpires
    BY <1>1, <1>2, <2>3, GoodReservedExpires DEF Settles
  <2> QED
    BY <1>8, <2>1, <2>2, <2>3 DEF Environment
<1> QED
  BY <1>4, <1>5, <1>6, <1>7, <1>8 DEF Next

\* At first nothing is recorded, and nothing accounted for.
LEMMA InitiallyClaimed == Init => Housed /\ ClaimInv
<1> SUFFICES ASSUME Init PROVE Housed /\ ClaimInv
  OBVIOUS
<1>1. \A p \in Process : req[p] = Idle
  BY DEF Init
<1>2. \A id \in Attempt : ~ Present(id) /\ mpu[id] = "none"
  BY DEF Init, Present
<1> DEFINE H == [u \in Attempt |-> u]
<1>3. H \in [Attempt -> Attempt]
  OBVIOUS
<1> HIDE DEF H
<1>4. Places(H, H)
  BY <1>2 DEF Places
<1>5. \A p \in Process : Copies(H, H, p) /\ Opens(p)
  BY <1>1, IdleForm DEF Copies, Opens, Founding, Founds, Uses, Locked
<1>6. \A p, q \in Process : p # q => Alone(p, q)
  BY <1>1, IdleForm DEF Alone, Founding, New, At
<1>7. Good(H, H)
  BY <1>4, <1>5, <1>6 DEF Good
<1>8. Housed
  BY <1>3, <1>7 DEF Housed
<1>9. Claimed = {}
  BY <1>1, <1>2, IdleForm DEF Claimed, Recorded, Claims, Founding, Mentions, Uses, At
<1>10. Sum(Size, {}) = 0 /\ reserved.n = 0 /\ unrecorded = {}
  BY SizesForm, SumPicks DEF Init, Missing
<1> QED
  BY <1>8, <1>9, <1>10 DEF ClaimInv

\* A live upload is accounted for, and no two for one session.
LEMMA LiveIsClaimed ==
  ASSUME Inv, Housed, ClaimInv
  PROVE  LiveBytesReserved
<1>1. PICK H, L \in [Attempt -> Attempt] : Good(H, L)
  BY DEF Housed
<1> DEFINE v == [id \in Live |-> Size[row[id].mpu]]
           g == [id \in Live |-> row[id].mpu]
           S == {g[id] : id \in Live}
<1>2. /\ Live \in SUBSET Attempt /\ TypeOK
      /\ \A id \in Live : Present(id) /\ row[id] \in Row /\ row[id].mpu \in Attempt /\ mpu[row[id].mpu] = "open"
  BY DEF Inv, TypeOK, Live, Active, Uploading, Present, Row
<1>3. g \in [Live -> Attempt] /\ \A id \in Live : g[id] = row[id].mpu /\ v[id] = Size[g[id]]
  BY <1>2
<1>4. \A x, y \in Live : g[x] = g[y] => x = y
  <2>1. \A id \in Live : H[g[id]] = id
    BY <1>1, <1>2, <1>3 DEF Good, Places, In
  <2> QED
    BY <2>1
<1>5. S \in SUBSET Claimed
  BY <1>2, <1>3 DEF Claimed, Recorded
<1>6. MapThenSumSet(LAMBDA id : Size[row[id].mpu], Live) = Sum(v, Live)
  BY <1>2, LiveSum
<1> HIDE DEF v, g
<1>7. Sum(v, Live) = Sum(Size, S)
  <2>1. IsFiniteSet(Attempt) /\ Size \in [Attempt -> Nat]
    BY SetAssumption, LimitAssumption
  <2>2. Sum(v, Live) = Sum(Size, {g[id] : id \in Live})
    BY <1>2, <1>3, <1>4, <2>1, SumStands
  <2> QED
    BY <2>2
<1> HIDE DEF S
<1>8. Claimed \in SUBSET Attempt /\ reserved.n \in Nat /\ unrecorded \in SUBSET Attempt
  BY <1>2 DEF Claimed, TypeOK, Key
<1>9. Sum(Size, S) <= Sum(Size, Claimed) /\ Sum(Size, S) \in Nat /\ Sum(Size, Claimed) \in Nat
  BY <1>5, <1>8, SizesForm, SumGrows
<1>10. Sum(v, Live) <= reserved.n + Sum(Size, unrecorded)
  <2>1. Sum(Size, unrecorded) \in Nat
    BY <1>8, SizesForm
  <2> QED
    BY <1>7, <1>8, <1>9, <2>1 DEF ClaimInv
<1>11. MapThenSumSet(LAMBDA u : Size[u], unrecorded) = Sum(Size, unrecorded)
  BY <1>8, SizeSum
<1> QED
  BY <1>6, <1>10, <1>11, Zenon DEF LiveBytesReserved

\* The bytes of the live uploads stay reserved, whatever requests race, fail or crash and
\* whatever calls of Redis fail, for attempts of any sizes on any paths: what a refund or a
\* completion gives back was accounted for by nobody else.  An upload that the service lets
\* through although its reservation was not recorded costs its own bytes, once, and no more.
\* It holds while the counter runs out only when no upload is active and as far as the
\* answer of objectExists can be trusted.
THEOREM LiveBytesKept ==
  ASSUME Expiry = "quiet", ~ StatErrorMeansAbsent
  PROVE  Spec => []LiveBytesReserved
<1>1. Inv /\ Housed /\ ClaimInv /\ [Next]_vars => Housed' /\ ClaimInv'
  <2> SUFFICES ASSUME Inv, Housed, ClaimInv, [Next]_vars PROVE Housed' /\ ClaimInv'
    OBVIOUS
  <2>1. TypeOK' /\ TypeOK
    BY StepKeeps DEF Inv
  <2> QED
    BY <2>1, StepSettles, Settled
<1>2. Inv /\ Housed /\ ClaimInv => LiveBytesReserved
  BY LiveIsClaimed
<1> QED
  BY <1>1, <1>2, InitiallyClaimed, Always, PTL DEF Spec

\* A session belongs to one record, and a record says uploaded of a completed session only.
RecordsStandForSessions ==
  /\ \A a, b \in Attempt : Present(a) /\ Present(b) /\ row[a].mpu = row[b].mpu => a = b
  /\ \A id \in Attempt : Present(id) /\ row[id].st = "uploaded" => mpu[row[id].mpu] = "completed"

\* No retry, upsert or late update lets two records name one multipart session, so that no
\* session is completed, aborted or refunded for two files, and no record says uploaded of a
\* session that was not completed: for attempts on any paths, whatever expires or fails.
THEOREM SessionsRecordedOnce == Spec => []RecordsStandForSessions
<1>1. Inv /\ Housed /\ [Next]_vars => Housed'
  <2> SUFFICES ASSUME Inv, Housed, [Next]_vars PROVE Housed'
    OBVIOUS
  <2>1. TypeOK'
    BY StepKeeps DEF Inv
  <2> QED
    BY <2>1, StepSettles
<1>2. Inv /\ Housed => RecordsStandForSessions
  <2> SUFFICES ASSUME Inv, Housed PROVE RecordsStandForSessions
    OBVIOUS
  <2>1. PICK H, L \in [Attempt -> Attempt] : Good(H, L)
    BY DEF Housed
  <2>2. \A id \in Attempt : Present(id) => In(H, L, id, row[id])
    BY <2>1 DEF Good, Places
  <2> QED
    BY <2>2 DEF In, RecordsStandForSessions
<1> QED
  BY <1>1, <1>2, InitiallyClaimed, Always, PTL DEF Spec

===============================================================================
