---------------------------- MODULE TaskLockProofs ----------------------------
(***************************************************************************)
(* Proofs about TaskLock, for any nodes, tasks and periods.  The invariant *)
(* is split in two: what concerns the locks (LockInv) and what concerns    *)
(* the running markers (MarkInv); each is kept by every step.              *)
(***************************************************************************)
EXTENDS TaskLock, TLAPS

(***************************************************************************)
(* Names: a job is a node and a task, the jobs of a global task share one  *)
(* name, and a local job has a name of its own.                            *)
(***************************************************************************)
LEMMA JobParts ==
    \A j \in Job : j[1] \in Node /\ j[2] \in Task /\ j = <<j[1], j[2]>>
  BY DEF Job

\* The name of a job is a key.
LEMMA NameType == \A j \in Job : Name(j) \in Key
<1> TAKE j \in Job
<1>1. j[1] \in Node /\ j[2] \in Task /\ j = <<j[1], j[2]>>
  BY Zenon, JobParts
<1> QED
  BY Zenon, <1>1 DEF Name, Key

\* Two jobs share a global name exactly when they are runs of one task.
LEMMA GlobalName ==
    \A i, j \in Job : i[2] \in Global =>
        /\ Name(i) = <<None, i[2]>>
        /\ Name(i) = Name(j) <=> i[2] = j[2]
<1> SUFFICES ASSUME NEW i \in Job, NEW j \in Job, i[2] \in Global
             PROVE  /\ Name(i) = <<None, i[2]>>
                    /\ Name(i) = Name(j) <=> i[2] = j[2]
  BY Zenon
<1>1. j[1] \in Node /\ j[2] \in Task /\ j = <<j[1], j[2]>>
  BY Zenon, JobParts
<1>2. None \notin Node
  BY Zenon, TaskAssumption
<1> QED
  BY <1>1, <1>2 DEF Name

\* A job is its node and its task.
LEMMA SameJob == \A i, j \in Job : i[1] = j[1] /\ i[2] = j[2] => i = j
  BY Zenon, JobParts

-------------------------------------------------------------------------------
(***************************************************************************)
(* Type correctness.                                                       *)
(***************************************************************************)
LEMMA TypeMove ==
    ASSUME TypeOK, NEW j \in Job, NEW p \in Pc, Goto(j, p),
           lock' \in [Key -> Marker], mark' \in [Key -> Marker],
           left' \in [Job -> SUBSET Task], waited' \in [Job -> Nat],
           current' \subseteq current \cup {j}, j \in current' => p \in GetPc,
           induced' \subseteq Job, lost' \subseteq Job, raced' \subseteq Job,
           UNCHANGED <<up, boot, sweep>>
    PROVE  TypeOK'
<1>1. pc' \in [Job -> Pc] /\ \A i \in Job : pc'[i] = IF i = j THEN p ELSE pc[i]
  BY Zenon DEF TypeOK, Goto
<1>2. current' \subseteq {i \in Job : pc'[i] \in GetPc}
  BY Zenon, <1>1 DEF TypeOK
<1> QED
  BY Zenon, <1>1, <1>2 DEF TypeOK

\* The markers that runNamedTask and runMarkedTask write are markers,
\* and not Absent.
LEMMA OwnMarker ==
    \A j \in Job : /\ [node |-> j[1], ttl |-> Period[j[2]]] \in Marker
                   /\ [node |-> j[1], ttl |-> RunTTL] \in Marker
                   /\ [node |-> j[1], ttl |-> RunTTL] # Absent
  BY Zenon, JobParts, TaskAssumption, PeriodAssumption DEF Marker, Absent

\* No document is a marker, too.
LEMMA AbsentType == Absent \in Marker
  BY Zenon DEF Absent, Marker

\* What a write to the job marker of j does.
LEMMA SetLockType ==
    ASSUME TypeOK, NEW j \in Job, NEW m \in Marker, WriteLock(Name(j), m)
    PROVE  /\ lock' \in [Key -> Marker]
           /\ current' \subseteq current
           /\ j \notin current'
           /\ \A k \in Key : lock'[k] = IF k = Name(j) THEN m ELSE lock[k]
  BY Zenon, NameType DEF TypeOK, WriteLock, Named

\* cleanNodeTaskMarkers keeps the types.
LEMMA CleanType ==
    ASSUME TypeOK, NEW n, NEW t \in Global, CleanMarker(n, t)
    PROVE  mark' \in [Key -> Marker] /\ raced' \subseteq Job
<1>1. Marked(<<None, t>>) \subseteq Job
  BY Zenon DEF Marked
<1> QED
  BY Zenon, <1>1, AbsentType DEF CleanMarker, TypeOK

\* A marker that has not expired still names its node.
LEMMA AgedType == \A m \in Marker : Aged(m) \in Marker /\ (Aged(m) # Absent => Aged(m).node = m.node)
<1> SUFFICES ASSUME NEW m \in Marker
             PROVE  Aged(m) \in Marker /\ (Aged(m) # Absent => Aged(m).node = m.node)
  BY Zenon
<1>1. CASE m.ttl <= 1
  BY Zenon, <1>1, AbsentType DEF Aged
<1>2. CASE ~(m.ttl <= 1)
  BY <1>2 DEF Aged, Marker
<1> QED
  BY Zenon, <1>1, <1>2

\* A goroutine in runNamedTask keeps the types.
LEMMA JobType ==
    ASSUME TypeOK, NEW j \in Job, JobStep(j)
    PROVE  TypeOK'
<1> USE DEF TypeOK
<1>0. j[2] \in Task /\ Excl[j[2]] \subseteq Task /\ Period[j[2]] \in Nat
      /\ Name(j) \in Key
  BY JobParts, NameType, TaskAssumption, PeriodAssumption
<1>1. CASE Prepare(j)
  <2>1. PICK p \in {"waiting", "closing"} : Goto(j, p)
    BY Zenon, <1>1 DEF Prepare
  <2>2. p \in Pc /\ j \notin current /\ UNCHANGED <<lock, mark, current, induced, lost, raced>>
    BY Zenon, <1>1, <2>1 DEF Prepare, Pc, GetPc
  <2>3. left' \in [Job -> SUBSET Task] /\ waited' \in [Job -> Nat]
    BY Zenon, <1>0, <1>1 DEF Prepare
  <2> QED
    BY Zenon, <1>1, <2>1, <2>2, <2>3, TypeMove DEF Prepare
<1>2. ASSUME NEW u \in Task, NotRunning(j, u) PROVE TypeOK'
  BY Zenon, <1>2 DEF NotRunning
<1>3. ASSUME NEW u \in Task, Running(j, u) PROVE TypeOK'
  BY Zenon, <1>3, TypeMove DEF Running, Pc, GetPc
<1>4. CASE Retry(j)
  BY Zenon, <1>0, <1>4, TypeMove DEF Retry, Pc, GetPc
<1>5. CASE RelockGet(j)
  BY Zenon, <1>5, TypeMove DEF RelockGet, Goto, Pc, GetPc, LockedPc, MarkedPc
<1>6. CASE RelockSet(j)
  BY Zenon, <1>6, TypeMove, SetLockType, OwnMarker DEF RelockSet, Goto, Pc, GetPc,
     LockedPc, MarkedPc
<1>7. CASE SetMark(j)
  <2>1. PICK p \in {"marked", "closing"} : Goto(j, p)
    BY Zenon, <1>7 DEF SetMark
  <2>2. p \in Pc /\ j \notin current
    BY Zenon, <1>7 DEF SetMark, Pc, GetPc, LockedPc, MarkedPc
  <2>3. mark' \in [Key -> Marker] /\ raced' \subseteq Job
    BY Zenon, <1>0, <1>7, OwnMarker DEF SetMark
  <2> QED
    BY Zenon, <1>7, <2>1, <2>2, <2>3, TypeMove DEF SetMark
<1>8. CASE RunTask(j)
  BY Zenon, <1>8, TypeMove DEF RunTask, Goto, Pc, GetPc, LockedPc, MarkedPc
<1>9. CASE Finish(j)
  BY Zenon, <1>9, TypeMove DEF Finish, Pc, GetPc
<1>10. CASE Unmark(j)
  BY <1>0, <1>10, TypeMove, AbsentType DEF Unmark, Pc, GetPc, Marked
<1>11. CASE Close(j)
  BY Zenon, <1>11, TypeMove DEF Close, Pc, GetPc
<1> QED
  BY Zenon, <1>1, <1>2, <1>3, <1>4, <1>5, <1>6, <1>7, <1>8, <1>9, <1>10, <1>11 DEF JobStep

\* A node that stops or starts, and a cleanup, keep the types.
LEMMA NodeType ==
    ASSUME TypeOK, NEW n \in Node, NodeStep(n)
    PROVE  TypeOK'
<1> USE DEF TypeOK
<1>1. CASE Crash(n)
  <2>1. pc' \in [Job -> Pc] /\ left' \in [Job -> SUBSET Task] /\ waited' \in [Job -> Nat]
    BY Zenon, <1>1 DEF Crash, Pc
  <2>2. current' \subseteq {j \in Job : pc'[j] \in GetPc}
    BY Zenon, <1>1 DEF Crash
  <2> QED
    BY Zenon, <1>1, <2>1, <2>2 DEF Crash
<1>2. CASE Restart(n)
  <2>1. lock' \in [Key -> Marker]
    BY Zenon, <1>2, AbsentType DEF Restart
  <2>2. {n} \X Global \subseteq Node \X Global /\ {n} \X Induced \subseteq Job
    BY Zenon, TaskAssumption DEF Job, Task
  <2> QED
    BY Zenon, <1>2, <2>1, <2>2 DEF Restart
<1>3. CASE FoundDead(n)
  BY Zenon, <1>3 DEF FoundDead
<1>4. ASSUME NEW t \in Global, BootClean(n, t) PROVE TypeOK'
  BY Zenon, <1>4, CleanType DEF BootClean
<1>5. ASSUME NEW t \in Global, Sweep(n, t) PROVE TypeOK'
  BY Zenon, <1>5, CleanType DEF Sweep
<1> QED
  BY Zenon, <1>1, <1>2, <1>3, <1>4, <1>5 DEF NodeStep

\* Every step keeps the types.
LEMMA TypeStep == TypeOK /\ [Next]_vars => TypeOK'
<1> SUFFICES ASSUME TypeOK, [Next]_vars PROVE TypeOK'
  BY Zenon
<1>1. ASSUME NEW j \in Job, NEW force \in BOOLEAN, RunNamedTask(j, force)
      PROVE  TypeOK'
  <2>1. CASE AddMarker(j)
    <3>1. PICK p \in {"added", "idle"} : Goto(j, p)
      BY Zenon, <2>1 DEF AddMarker
    <3>2. p \in Pc
      BY Zenon DEF Pc
    <3>3. /\ lock' \in [Key -> Marker] /\ current' \subseteq current /\ j \notin current'
          /\ lost' \subseteq Job
      BY Zenon, <2>1, OwnMarker, SetLockType DEF AddMarker, Locked, TypeOK
    <3> QED
      BY Zenon, <1>1, <3>1, <3>2, <3>3, TypeMove DEF RunNamedTask, TypeOK
  <2>2. CASE UNCHANGED <<lock, current, pc, lost>>
    BY Zenon, <1>1, <2>2 DEF RunNamedTask, TypeOK
  <2> QED
    BY Zenon, <1>1, <2>1, <2>2 DEF RunNamedTask
<1>2. ASSUME NEW j \in Job, JobStep(j) PROVE TypeOK'
  BY Zenon, <1>2, JobType
<1>3. ASSUME NEW j \in Job, InduceTask(j) PROVE TypeOK'
  BY Zenon, <1>3 DEF InduceTask, TypeOK
<1>4. ASSUME NEW n \in Node, NodeStep(n) PROVE TypeOK'
  BY Zenon, <1>4, NodeType
<1>5. CASE Tick
  <2>1. lock' \in [Key -> Marker] /\ mark' \in [Key -> Marker]
    BY Zenon, <1>5, AgedType DEF Tick, TypeOK
  <2>2. waited' \in [Job -> Nat]
    BY <1>5 DEF Tick, TypeOK
  <2> QED
    BY Zenon, <1>5, <2>1, <2>2 DEF Tick, TypeOK
<1>6. CASE UNCHANGED vars
  BY Zenon, <1>6 DEF vars, TypeOK
<1> QED
  BY Zenon, <1>1, <1>2, <1>3, <1>4, <1>5, <1>6 DEF Next

-------------------------------------------------------------------------------
(***************************************************************************)
(* The locks.                                                              *)
(***************************************************************************)
LockInv == LostPast /\ CasOwn /\ LockedOrLost

(***************************************************************************)
(* A goroutine that moves without writing a lock.                          *)
(***************************************************************************)
LEMMA LockKept ==
    ASSUME TypeOK, LockInv, NEW j \in Job, NEW p, Goto(j, p),
           UNCHANGED <<lock, lost>>,
           current' \subseteq current \cup {j},
           j \in current' => j \in current \/ (j[2] \in Global /\ lock[Name(j)].node = j[1]),
           p \in LockedPc /\ j[2] \in Global => pc[j] \in LockedPc,
           j \in lost => p \in LockedPc \cup {"unmarking", "closing"}
    PROVE  LockInv'
<1>1. \A i \in Job : pc'[i] = IF i = j THEN p ELSE pc[i]
  BY Zenon DEF TypeOK, Goto
<1>2. LostPast'
  BY Zenon, <1>1 DEF LockInv, LostPast, TypeOK
<1>3. CasOwn'
  BY Zenon DEF LockInv, CasOwn
<1>4. LockedOrLost'
  BY Zenon, <1>1 DEF LockInv, LockedOrLost
<1> QED
  BY Zenon, <1>2, <1>3, <1>4 DEF LockInv

(***************************************************************************)
(* relockTask writes a lock that was its own, and is still the only one.   *)
(***************************************************************************)
LEMMA LockAgain ==
    ASSUME TypeOK, LockInv, NEW j \in Job, NEW p, Goto(j, p), j \in current,
           WriteLock(Name(j), [node |-> j[1], ttl |-> Period[j[2]]]),
           p \in LockedPc \cup {"unmarking", "closing"}, UNCHANGED lost
    PROVE  LockInv'
<1>1. \A i \in Job : pc'[i] = IF i = j THEN p ELSE pc[i]
  BY Zenon DEF TypeOK, Goto
<1>2. /\ current' \subseteq current
      /\ \A k \in Key : lock'[k].node = lock[k].node
  <2>1. lock[Name(j)].node = j[1]
    BY Zenon DEF LockInv, CasOwn
  <2> QED
    BY <2>1, SetLockType, OwnMarker DEF Marker
<1>3. j[2] \in Global /\ lock[Name(j)].node = j[1] /\ pc[j] \in GetPc
  BY Zenon DEF LockInv, CasOwn, TypeOK
<1>4. j \notin lost
  BY Zenon, <1>3 DEF LockInv, LostPast, LockedOrLost, GetPc, LockedPc, MarkedPc
<1>5. LostPast'
  BY Zenon, <1>1 DEF LockInv, LostPast, TypeOK
<1>6. CasOwn'
  BY Zenon, <1>2, NameType DEF LockInv, CasOwn, TypeOK
<1>7. LockedOrLost'
  <2> SUFFICES ASSUME NEW i \in Job, i[2] \in Global, pc'[i] \in LockedPc
               PROVE  i \in lost <=> lock'[Name(i)].node # i[1]
    BY Zenon DEF LockedOrLost
  <2>1. lock'[Name(i)].node = lock[Name(i)].node
    BY Zenon, <1>2, NameType
  <2> QED
    BY Zenon, <1>1, <1>3, <1>4, <2>1 DEF LockInv, LockedOrLost
<1> QED
  BY Zenon, <1>5, <1>6, <1>7 DEF LockInv

\* A goroutine in runNamedTask keeps the invariant of the locks.
LEMMA LockJob ==
    ASSUME TypeOK, LockInv, NEW j \in Job, JobStep(j)
    PROVE  LockInv'
<1>0. j \in lost => pc[j] \in LockedPc \cup {"unmarking", "closing"}
  BY Zenon DEF LockInv, LostPast
<1> USE <1>0, LockKept DEF Goto
<1>1. CASE Prepare(j)
  BY Zenon, <1>1 DEF Prepare, LockedPc, MarkedPc
<1>2. ASSUME NEW u \in Task, NotRunning(j, u) PROVE LockInv'
  BY Zenon, <1>2 DEF NotRunning, LockInv, LostPast, CasOwn, LockedOrLost
<1>3. ASSUME NEW u \in Task, Running(j, u) PROVE LockInv'
  BY Zenon, <1>3 DEF Running, LockedPc, MarkedPc
<1>4. CASE Retry(j)
  BY Zenon, <1>4 DEF Retry, LockedPc, MarkedPc
<1>5. CASE RelockGet(j)
  <2>1. j[2] \in Local => j[2] \notin Global
    BY Zenon, TaskAssumption
  <2> QED
    BY Zenon, <1>5, <2>1 DEF RelockGet, LockedPc, MarkedPc
<1>6. CASE RelockSet(j)
  BY Zenon, <1>6, LockAgain DEF RelockSet, LockedPc, MarkedPc, GetPc
<1>7. CASE SetMark(j)
  BY Zenon, <1>7 DEF SetMark, LockedPc, MarkedPc
<1>8. CASE RunTask(j)
  BY Zenon, <1>8 DEF RunTask, LockedPc, MarkedPc
<1>9. CASE Finish(j)
  BY Zenon, <1>9 DEF Finish, LockedPc, MarkedPc
<1>10. CASE Unmark(j)
  BY Zenon, <1>10 DEF Unmark, LockedPc, MarkedPc
<1>11. CASE Close(j)
  <2>1. \A i \in Job : pc'[i] = IF i = j THEN "idle" ELSE pc[i]
    BY Zenon, <1>11 DEF Close, TypeOK
  <2> QED
    BY Zenon, <1>11, <2>1 DEF Close, LockInv, LostPast, CasOwn, LockedOrLost, LockedPc,
       MarkedPc, TypeOK
<1> QED
  BY Zenon, <1>1, <1>2, <1>3, <1>4, <1>5, <1>6, <1>7, <1>8, <1>9, <1>10, <1>11 DEF JobStep

\* A node that stops or starts, and a cleanup, keep it: startTasks only
\* deletes local markers.
LEMMA LockNode ==
    ASSUME TypeOK, LockInv, NEW n \in Node, NodeStep(n)
    PROVE  LockInv'
<1>1. CASE Crash(n)
  <2>1. /\ \A j \in Job : pc'[j] = IF j \in {n} \X Task THEN "idle" ELSE pc[j]
        /\ lock' = lock
        /\ current' = current \ ({n} \X Task)
        /\ lost' = lost \ ({n} \X Task)
    BY Zenon, <1>1 DEF Crash
  <2>2. "idle" \notin LockedPc
    BY Zenon DEF LockedPc, MarkedPc
  <2>3. LostPast'
    BY Zenon, <2>1 DEF LockInv, LostPast, TypeOK
  <2>4. CasOwn'
    BY Zenon, <2>1 DEF LockInv, CasOwn
  <2>5. LockedOrLost'
    BY Zenon, <2>1, <2>2 DEF LockInv, LockedOrLost
  <2> QED
    BY Zenon, <2>3, <2>4, <2>5 DEF LockInv
<1>2. CASE Restart(n)
  <2>1. \A j \in Job : j[2] \in Global => lock'[Name(j)] = lock[Name(j)]
    <3> SUFFICES ASSUME NEW j \in Job, j[2] \in Global
                 PROVE  lock'[Name(j)] = lock[Name(j)]
      BY Zenon
    <3>1. Name(j) \in Key /\ Name(j) = <<None, j[2]>> /\ None \notin Node
      BY Zenon, NameType, GlobalName, TaskAssumption
    <3>2. Name(j) \notin {n} \X Forgotten
      BY <3>1
    <3> QED
      BY Zenon, <1>2, <3>1, <3>2 DEF Restart
  <2>2. UNCHANGED <<pc, current, lost>>
    BY Zenon, <1>2 DEF Restart
  <2> QED
    BY Zenon, <2>1, <2>2 DEF LockInv, LostPast, CasOwn, LockedOrLost, TypeOK
<1>3. CASE UNCHANGED <<pc, lock, current, lost>>
  BY Zenon, <1>3 DEF LockInv, LostPast, CasOwn, LockedOrLost
<1> QED
  BY Zenon, <1>1, <1>2, <1>3 DEF NodeStep, FoundDead, BootClean, Sweep

(***************************************************************************)
(* A lock that is added or taken: those who had it have lost it.           *)
(***************************************************************************)
LEMMA LockTaken ==
    ASSUME TypeOK, LockInv, NEW j \in Job, pc[j] = "idle", AddMarker(j)
    PROVE  LockInv'
<1> DEFINE k == Name(j)
<1>1. PICK p \in {"added", "idle"} : Goto(j, p)
  BY Zenon DEF AddMarker
<1>2. /\ \A i \in Job : pc'[i] = IF i = j THEN p ELSE pc[i]
      /\ p \notin LockedPc
      /\ pc[j] = "idle"
      /\ lost' = lost \cup Locked(k)
  BY Zenon, <1>1 DEF TypeOK, Goto, AddMarker, LockedPc, MarkedPc
<1>3. /\ \A i \in Key : lock'[i] = IF i = k THEN [node |-> j[1], ttl |-> Period[j[2]]] ELSE lock[i]
      /\ current' = current \ Named(k)
  BY Zenon, NameType DEF AddMarker, WriteLock, TypeOK
<1>4. j \notin lost /\ j \notin Locked(k)
  BY Zenon, <1>2 DEF LockInv, LostPast, Locked, LockedPc, MarkedPc
<1>5. LostPast'
  <2>1. \A i \in Locked(k) : i \in Job /\ pc[i] \in LockedPc
    BY Zenon DEF Locked
  <2> QED
    BY Zenon, <1>2, <1>4, <2>1 DEF LockInv, LostPast, TypeOK
<1>6. CasOwn'
  <2>1. \A i \in current' : i \in Job /\ i \in current /\ Name(i) # k
    BY Zenon, <1>3 DEF Named, TypeOK
  <2> QED
    BY Zenon, <1>3, <2>1, NameType DEF LockInv, CasOwn
<1>7. LockedOrLost'
  <2> SUFFICES ASSUME NEW i \in Job, i[2] \in Global, pc'[i] \in LockedPc
               PROVE  i \in lost' <=> lock'[Name(i)].node # i[1]
    BY Zenon DEF LockedOrLost
  <2>1. i # j /\ pc[i] \in LockedPc
    BY Zenon, <1>2
  <2>2. CASE Name(i) = k
    <3>1. i \in lost' /\ lock'[Name(i)].node = j[1]
      BY <1>2, <1>3, <2>1, <2>2, NameType DEF Locked
    <3>2. i[2] = j[2]
      BY Zenon, <2>2, GlobalName
    <3> QED
      BY Zenon, <2>1, <3>1, <3>2, SameJob
  <2>3. CASE Name(i) # k
    <3>1. i \notin Locked(k) /\ lock'[Name(i)] = lock[Name(i)]
      BY Zenon, <1>3, <2>3, NameType DEF Locked
    <3> QED
      BY Zenon, <1>2, <2>1, <3>1 DEF LockInv, LockedOrLost
  <2> QED
    BY Zenon, <2>2, <2>3
<1> QED
  BY Zenon, <1>5, <1>6, <1>7 DEF LockInv

\* A lock that expires is lost to those who had it.
LEMMA LockTick ==
    ASSUME TypeOK, LockInv, Tick
    PROVE  LockInv'
<1>1. \A k \in Key : lock'[k] = Aged(lock[k]) /\ lock[k] \in Marker
  BY Zenon DEF Tick, TypeOK
<1>2. \A k \in Key : IF lock'[k] = Absent THEN lock'[k].node = None
                                           ELSE lock'[k].node = lock[k].node
  BY <1>1, AgedType DEF Absent
<1>3. /\ pc' = pc
      /\ current' = {j \in current : lock'[Name(j)] # Absent}
      /\ lost' = lost \cup {j \in Job : j \in Locked(Name(j)) /\ lock'[Name(j)] = Absent}
  BY Zenon DEF Tick
<1>4. \A j \in Job : j \in Locked(Name(j)) <=> pc[j] \in LockedPc
  BY Zenon DEF Locked
<1>5. LostPast'
  BY Zenon, <1>3, <1>4 DEF LockInv, LostPast
<1>6. CasOwn'
  BY Zenon, <1>2, <1>3, NameType DEF LockInv, CasOwn, TypeOK
<1>7. LockedOrLost'
  <2> SUFFICES ASSUME NEW i \in Job, i[2] \in Global, pc[i] \in LockedPc
               PROVE  i \in lost' <=> lock'[Name(i)].node # i[1]
    BY Zenon, <1>3 DEF LockedOrLost
  <2>0. Name(i) \in Key /\ i[1] \in Node /\ None \notin Node
    BY Zenon, NameType, JobParts, TaskAssumption
  <2>2. CASE lock'[Name(i)] = Absent
    BY Zenon, <1>2, <1>3, <1>4, <2>0, <2>2
  <2>3. CASE lock'[Name(i)] # Absent
    BY Zenon, <1>2, <1>3, <2>0, <2>3 DEF LockInv, LockedOrLost
  <2> QED
    BY Zenon, <2>2, <2>3
<1> QED
  BY Zenon, <1>5, <1>6, <1>7 DEF LockInv

\* Every step keeps the invariant of the locks.
LEMMA LockStep == TypeOK /\ LockInv /\ [Next]_vars => LockInv'
<1> SUFFICES ASSUME TypeOK, LockInv, [Next]_vars PROVE LockInv'
  BY Zenon
<1>1. CASE UNCHANGED <<pc, lock, current, lost>>
  BY Zenon, <1>1 DEF LockInv, LostPast, CasOwn, LockedOrLost
<1> QED
  BY Zenon, <1>1, LockTaken, LockJob, LockNode, LockTick DEF Next, RunNamedTask,
     InduceTask, vars

-------------------------------------------------------------------------------
(***************************************************************************)
(* The running markers.                                                    *)
(***************************************************************************)
MarkInv == HasMark /\ PassedUnseen /\ Exclusion

(***************************************************************************)
(* A step in which nobody passes a task, nobody is marked, and markers     *)
(* only go where their runs are counted as raced.                          *)
(***************************************************************************)
LEMMA MarkKept ==
    ASSUME TypeOK, MarkInv,
           \A j \in Job : pc'[j] \in MarkedPc => pc[j] \in MarkedPc,
           \A j \in Job, u \in Global : Passed(j, u)' => Passed(j, u),
           \A j \in Job : j \in raced =>
               \/ j \in raced'
               \/ pc'[j] \notin MarkedPc /\ \A u \in Global : ~Passed(j, u)',
           \A j \in Job : pc'[j] \in MarkedPc /\ mark'[Name(j)] = Absent =>
               j \in raced' \/ mark[Name(j)] = Absent
    PROVE  MarkInv'
<1>1. HasMark'
  BY Zenon DEF MarkInv, HasMark
<1>2. PassedUnseen'
  BY Zenon DEF MarkInv, PassedUnseen
<1>3. Exclusion'
  BY Zenon DEF MarkInv, Exclusion
<1> QED
  BY Zenon, <1>1, <1>2, <1>3 DEF MarkInv

(***************************************************************************)
(* A goroutine that moves, without passing anything or setting its marker. *)
(***************************************************************************)
LEMMA MarkMove ==
    ASSUME TypeOK, MarkInv, NEW j \in Job, NEW p, Goto(j, p),
           p \in MarkedPc => pc[j] \in MarkedPc,
           \A i \in Job : i # j => left'[i] = left[i],
           \A u \in Global : Passed(j, u)' => Passed(j, u),
           \A i \in Job : i \in raced => i \in raced' \/ i = j,
           j \in raced' \/ j \notin raced \/
               (p \notin MarkedPc /\ \A u \in Global : ~Passed(j, u)'),
           \A i \in Job : pc'[i] \in MarkedPc /\ mark'[Name(i)] = Absent =>
               i \in raced' \/ mark[Name(i)] = Absent
    PROVE  MarkInv'
<1>1. \A i \in Job : pc'[i] = IF i = j THEN p ELSE pc[i]
  BY Zenon DEF TypeOK, Goto
<1>2. \A i \in Job, u \in Global : i # j => (Passed(i, u)' <=> Passed(i, u))
  BY Zenon, <1>1 DEF Passed
<1> QED
  BY Zenon, <1>1, <1>2, MarkKept

(***************************************************************************)
(* Only a waiting goroutine that goes on has passed a task.                *)
(***************************************************************************)
LEMMA NotPassed ==
    ASSUME TypeOK, NEW j \in Job, NEW p, Goto(j, p),
           p \notin {"waiting", "relocking", "locked"} \/
               (p = "waiting" /\ left'[j] = Excl[j[2]])
    PROVE  \A u \in Global : ~Passed(j, u)'
<1>1. pc'[j] = p
  BY Zenon DEF TypeOK, Goto
<1> QED
  BY Zenon, <1>1 DEF Passed

(***************************************************************************)
(* A marker that is taken away.                                            *)
(***************************************************************************)
LEMMA MarkGone ==
    ASSUME TypeOK, NEW k \in Key, mark' = [mark EXCEPT ![k] = Absent],
           raced' = raced \cup Marked(k), NEW i \in Job, pc[i] \in MarkedPc,
           mark'[Name(i)] = Absent
    PROVE  i \in raced' \/ mark[Name(i)] = Absent
<1>1. CASE Name(i) = k
  BY Zenon, <1>1 DEF Marked
<1>2. CASE Name(i) # k
  BY Zenon, <1>2, NameType DEF TypeOK
<1> QED
  BY Zenon, <1>1, <1>2

(***************************************************************************)
(* Passing a task: a run of it that is not in raced would have its marker. *)
(***************************************************************************)
LEMMA MarkPass ==
    ASSUME TypeOK, MarkInv, NEW j \in Job, NEW u \in Task, NotRunning(j, u)
    PROVE  MarkInv'
<1>0. UNCHANGED <<pc, mark>> /\ raced \subseteq raced' /\ pc[j] = "waiting"
  BY Zenon DEF NotRunning
<1>1. HasMark'
  BY Zenon, <1>0 DEF MarkInv, HasMark
<1>2. Exclusion'
  BY Zenon, <1>0 DEF MarkInv, Exclusion
<1>3. PassedUnseen'
  <2> SUFFICES ASSUME NEW a \in Job, NEW b \in Job, b[2] \in Global,
                      Passed(a, b[2])', pc[b] \in MarkedPc
               PROVE  a \in raced' \/ b \in raced'
    BY Zenon, <1>0 DEF PassedUnseen
  <2>1. CASE Passed(a, b[2])
    BY Zenon, <1>0, <2>1 DEF MarkInv, PassedUnseen
  <2>2. CASE ~Passed(a, b[2])
    <3>1. a = j /\ b[2] = u
      BY Zenon, <1>0, <2>2 DEF Passed, NotRunning, TypeOK
    <3>2. CASE raced' = raced \cup {j}
      BY Zenon, <3>1, <3>2
    <3>3. CASE mark[<<None, u>>] = Absent
      <4>1. mark[Name(b)] = Absent
        BY Zenon, <3>1, <3>3, GlobalName
      <4> QED
        BY Zenon, <1>0, <4>1 DEF MarkInv, HasMark
    <3> QED
      BY Zenon, <3>2, <3>3 DEF NotRunning
  <2> QED
    BY Zenon, <2>1, <2>2
<1> QED
  BY Zenon, <1>1, <1>2, <1>3 DEF MarkInv

(***************************************************************************)
(* Setting the marker: who has passed this task is in raced from now on,   *)
(* and this task has passed those that exclude it.                         *)
(***************************************************************************)
LEMMA MarkSet ==
    ASSUME TypeOK, MarkInv, NEW j \in Job, Goto(j, "marked"), pc[j] = "locked",
           mark' = [mark EXCEPT ![Name(j)] = [node |-> j[1], ttl |-> RunTTL]],
           raced' = raced \cup {i \in Job : Passed(i, j[2])}, UNCHANGED left
    PROVE  MarkInv'
<1>1. \A i \in Job : pc'[i] = IF i = j THEN "marked" ELSE pc[i]
  BY Zenon DEF TypeOK, Goto
<1>2. \A i \in Job, u \in Task : Passed(i, u)' => i # j /\ Passed(i, u)
  BY Zenon, <1>1 DEF Passed
<1>3. HasMark'
  <2> SUFFICES ASSUME NEW i \in Job, pc'[i] \in MarkedPc, i \notin raced'
               PROVE  mark'[Name(i)] # Absent
    BY Zenon DEF HasMark
  <2>1. CASE Name(i) = Name(j)
    BY Zenon, <2>1, OwnMarker, NameType DEF TypeOK
  <2>2. CASE Name(i) # Name(j)
    BY Zenon, <1>1, <2>2, NameType DEF TypeOK, MarkInv, HasMark
  <2> QED
    BY Zenon, <2>1, <2>2
<1>4. PassedUnseen'
  BY Zenon, <1>1, <1>2 DEF MarkInv, PassedUnseen, Job
<1>5. Exclusion'
  <2> SUFFICES ASSUME NEW a \in Job, NEW b \in Job, a[2] \in Global,
                      b[2] \in Excl[a[2]], pc'[a] \in MarkedPc, pc'[b] \in MarkedPc
               PROVE  a \in raced' \/ b \in raced'
    BY Zenon DEF Exclusion
  <2>0. b[2] \in Global /\ a[2] \in Excl[b[2]] /\ a[2] # b[2]
    BY Zenon, TaskAssumption
  <2>1. CASE a # j /\ b # j
    BY Zenon, <1>1, <2>1 DEF MarkInv, Exclusion
  <2>2. CASE a = j
    <3>1. Passed(j, b[2]) /\ pc[b] \in MarkedPc
      BY Zenon, <1>1, <2>0, <2>2 DEF Passed
    <3> QED
      BY Zenon, <2>0, <2>2, <3>1 DEF MarkInv, PassedUnseen
  <2>3. CASE b = j
    <3>1. Passed(j, a[2]) /\ pc[a] \in MarkedPc
      BY Zenon, <1>1, <2>0, <2>3 DEF Passed
    <3> QED
      BY Zenon, <2>0, <2>3, <3>1 DEF MarkInv, PassedUnseen
  <2> QED
    BY Zenon, <2>1, <2>2, <2>3
<1> QED
  BY Zenon, <1>3, <1>4, <1>5 DEF MarkInv

\* A goroutine in runNamedTask keeps the invariant of the running markers.
LEMMA MarkJob ==
    ASSUME TypeOK, MarkInv, NEW j \in Job, JobStep(j)
    PROVE  MarkInv'
<1>1. CASE Prepare(j)
  <2>1. PICK p \in {"waiting", "closing"} : Goto(j, p)
    BY Zenon, <1>1 DEF Prepare
  <2>2. left'[j] = Excl[j[2]] /\ \A i \in Job : i # j => left'[i] = left[i]
    BY Zenon, <1>1 DEF Prepare, TypeOK
  <2>3. p \notin MarkedPc /\ UNCHANGED <<mark, raced>>
    BY Zenon, <1>1 DEF Prepare, MarkedPc
  <2> QED
    BY Zenon, <2>1, <2>2, <2>3, NotPassed, MarkMove
<1>2. ASSUME NEW u \in Task, NotRunning(j, u) PROVE MarkInv'
  BY Zenon, <1>2, MarkPass
<1>3. ASSUME NEW u \in Task, Running(j, u) PROVE MarkInv'
  BY Zenon, <1>3, NotPassed, MarkMove DEF Running, MarkedPc
<1>4. CASE Retry(j)
  <2>1. PICK p \in {"waiting", "closing"} : Goto(j, p)
    BY Zenon, <1>4 DEF Retry
  <2>2. left'[j] = Excl[j[2]] /\ \A i \in Job : i # j => left'[i] = left[i]
    BY Zenon, <1>4 DEF Retry, TypeOK
  <2>3. p \notin MarkedPc /\ UNCHANGED mark /\ raced' = raced \ {j}
    BY Zenon, <1>4 DEF Retry, MarkedPc
  <2> QED
    BY Zenon, <2>1, <2>2, <2>3, NotPassed, MarkMove
<1>5. CASE RelockGet(j)
  <2>0. UNCHANGED <<left, mark, raced>>
    BY Zenon, <1>5 DEF RelockGet
  <2>1. CASE pc[j] = "running"
    <3>1. PICK p \in {"paging", "unmarking"} : Goto(j, p)
      BY Zenon, <1>5, <2>1, TaskAssumption DEF RelockGet
    <3>2. pc[j] \in MarkedPc
      BY Zenon, <2>1 DEF MarkedPc
    <3> QED
      BY Zenon, <2>0, <3>1, <3>2, NotPassed, MarkMove
  <2>2. CASE pc[j] = "waiting" /\ left[j] = {}
    <3>1. PICK p \in {"locked", "relocking", "closing"} : Goto(j, p)
      BY Zenon, <1>5, <2>2 DEF RelockGet
    <3>2. p \notin MarkedPc
      BY Zenon, <3>1 DEF MarkedPc
    <3>3. pc'[j] = p
      BY Zenon, <3>1 DEF Goto, TypeOK
    <3>4. \A u \in Global : Passed(j, u)' => Passed(j, u)
      BY Zenon, <2>0, <2>2, <3>1, <3>3 DEF Passed
    <3> QED
      BY Zenon, <2>0, <3>1, <3>2, <3>4, MarkMove
  <2> QED
    BY Zenon, <1>5, <2>1, <2>2 DEF RelockGet
<1>6. CASE RelockSet(j)
  <2>0. UNCHANGED <<left, mark, raced>>
    BY Zenon, <1>6 DEF RelockSet
  <2>1. CASE pc[j] = "paging"
    <3>1. PICK p \in {"running", "unmarking"} : Goto(j, p)
      BY Zenon, <1>6, <2>1, TaskAssumption DEF RelockSet, GetPc
    <3>2. pc[j] \in MarkedPc
      BY Zenon, <2>1 DEF MarkedPc
    <3> QED
      BY Zenon, <2>0, <3>1, <3>2, NotPassed, MarkMove
  <2>2. CASE pc[j] = "relocking"
    <3>1. PICK p \in {"locked", "closing"} : Goto(j, p)
      BY Zenon, <1>6, <2>2 DEF RelockSet, GetPc
    <3>2. p \notin MarkedPc
      BY Zenon, <3>1 DEF MarkedPc
    <3>3. pc'[j] = p
      BY Zenon, <3>1 DEF Goto, TypeOK
    <3>4. \A u \in Global : Passed(j, u)' => Passed(j, u)
      BY Zenon, <2>0, <2>2, <3>1, <3>3 DEF Passed
    <3> QED
      BY Zenon, <2>0, <3>1, <3>2, <3>4, MarkMove
  <2> QED
    BY Zenon, <1>6, <2>1, <2>2 DEF RelockSet, GetPc
<1>7. CASE SetMark(j)
  <2>1. CASE Goto(j, "closing")
    <3>1. \A i \in Job : mark'[Name(i)] = Absent => mark[Name(i)] = Absent
      BY Zenon, <1>7, OwnMarker, NameType DEF SetMark, TypeOK
    <3>2. raced \subseteq raced' /\ UNCHANGED left
      BY Zenon, <1>7 DEF SetMark
    <3> QED
      BY Zenon, <2>1, <3>1, <3>2, NotPassed, MarkMove DEF MarkedPc
  <2>2. CASE ~Goto(j, "closing")
    BY Zenon, <1>7, <2>2, MarkSet DEF SetMark
  <2> QED
    BY Zenon, <2>1, <2>2
<1>8. CASE RunTask(j)
  <2>1. PICK p \in {"running", "unmarking"} : Goto(j, p)
    BY Zenon, <1>8 DEF RunTask
  <2> QED
    BY Zenon, <1>8, <2>1, NotPassed, MarkMove DEF RunTask, MarkedPc
<1>9. CASE Finish(j)
  BY Zenon, <1>9, NotPassed, MarkMove DEF Finish, MarkedPc
<1>10. CASE Unmark(j)
  <2>1. Goto(j, "closing") /\ raced \subseteq raced' /\ UNCHANGED left
    BY Zenon, <1>10 DEF Unmark
  <2>2. \A i \in Job : pc'[i] \in MarkedPc => pc[i] \in MarkedPc
    BY Zenon, <2>1 DEF Goto, TypeOK, MarkedPc
  <2>3. \A i \in Job : pc'[i] \in MarkedPc /\ mark'[Name(i)] = Absent =>
            i \in raced' \/ mark[Name(i)] = Absent
    BY Zenon, <1>10, <2>2, MarkGone, NameType DEF Unmark
  <2> QED
    BY Zenon, <2>1, <2>3, NotPassed, MarkMove DEF MarkedPc
<1>11. CASE Close(j)
  <2>1. Goto(j, "idle") /\ UNCHANGED mark /\ raced' = raced \ {j}
        /\ \A i \in Job : i # j => left'[i] = left[i]
    BY Zenon, <1>11 DEF Close, TypeOK
  <2> QED
    BY Zenon, <2>1, NotPassed, MarkMove DEF MarkedPc
<1> QED
  BY Zenon, <1>1, <1>2, <1>3, <1>4, <1>5, <1>6, <1>7, <1>8, <1>9, <1>10, <1>11 DEF JobStep

(***************************************************************************)
(* A crash ends the node's runs; a cleanup deletes one marker.             *)
(***************************************************************************)
LEMMA MarkNode ==
    ASSUME TypeOK, MarkInv, NEW n \in Node, NodeStep(n)
    PROVE  MarkInv'
<1>1. CASE Crash(n)
  <2>1. /\ \A j \in Job : pc'[j] = IF j \in {n} \X Task THEN "idle" ELSE pc[j]
        /\ \A j \in Job : j \notin {n} \X Task => left'[j] = left[j]
        /\ raced' = raced \ ({n} \X Task)
        /\ mark' = mark
    BY Zenon, <1>1 DEF Crash
  <2>2. \A j \in Job, u \in Global :
            Passed(j, u)' => Passed(j, u) /\ j \notin {n} \X Task
    BY Zenon, <2>1 DEF Passed
  <2>3. \A j \in Job : pc'[j] \in MarkedPc => pc[j] \in MarkedPc /\ j \notin {n} \X Task
    BY Zenon, <2>1 DEF MarkedPc
  <2> QED
    BY Zenon, <2>1, <2>2, <2>3, MarkKept
<1>2. CASE UNCHANGED <<pc, left, mark, raced>>
  BY Zenon, <1>2 DEF MarkInv, HasMark, PassedUnseen, Exclusion, Passed
<1>3. ASSUME NEW t \in Global, CleanMarker(n, t), UNCHANGED <<pc, left>>
      PROVE  MarkInv'
  <2>1. CASE UNCHANGED <<mark, raced>>
    BY Zenon, <1>2, <1>3, <2>1
  <2>2. CASE ~UNCHANGED <<mark, raced>>
    <3>1. /\ mark' = [mark EXCEPT ![<<None, t>>] = Absent]
          /\ raced' = raced \cup Marked(<<None, t>>)
      BY Zenon, <1>3, <2>2 DEF CleanMarker
    <3>2. <<None, t>> \in Key
      BY Zenon DEF Key, Task
    <3>3. \A j \in Job, u \in Global : Passed(j, u)' => Passed(j, u)
      BY Zenon, <1>3 DEF Passed
    <3>4. \A j \in Job : pc'[j] \in MarkedPc /\ mark'[Name(j)] = Absent =>
              j \in raced' \/ mark[Name(j)] = Absent
      BY Zenon, <1>3, <3>1, <3>2, MarkGone
    <3> QED
      BY Zenon, <1>3, <3>1, <3>3, <3>4, MarkKept
  <2> QED
    BY Zenon, <2>1, <2>2
<1> QED
  BY Zenon, <1>1, <1>2, <1>3 DEF NodeStep, Restart, FoundDead, BootClean, Sweep

\* Every step keeps the invariant of the running markers.
LEMMA MarkStep == TypeOK /\ MarkInv /\ [Next]_vars => MarkInv'
<1> SUFFICES ASSUME TypeOK, MarkInv, [Next]_vars PROVE MarkInv'
  BY Zenon
<1>1. ASSUME NEW j \in Job, AddMarker(j), UNCHANGED <<mark, left, raced>>
      PROVE  MarkInv'
  <2>1. PICK p \in {"added", "idle"} : Goto(j, p)
    BY Zenon, <1>1 DEF AddMarker
  <2> QED
    BY Zenon, <1>1, <2>1, NotPassed, MarkMove DEF MarkedPc
<1>2. CASE Tick
  <2>1. UNCHANGED <<pc, left>> /\ raced \subseteq raced'
    BY Zenon, <1>2 DEF Tick
  <2>2. \A j \in Job, u \in Global : Passed(j, u)' => Passed(j, u)
    BY Zenon, <2>1 DEF Passed
  <2>3. \A j \in Job : pc'[j] \in MarkedPc /\ mark'[Name(j)] = Absent => j \in raced'
    BY Zenon, <1>2, <2>1 DEF Tick, Marked
  <2> QED
    BY Zenon, <2>1, <2>2, <2>3, MarkKept
<1>3. CASE UNCHANGED <<pc, left, mark, raced>>
  BY Zenon, <1>3 DEF MarkInv, HasMark, PassedUnseen, Exclusion, Passed
<1> QED
  BY Zenon, <1>1, <1>2, <1>3, MarkJob, MarkNode DEF Next, RunNamedTask, InduceTask, vars

-------------------------------------------------------------------------------
(***************************************************************************)
(* Init establishes the invariant: no job runs.                            *)
(***************************************************************************)
LEMMA InvInit == Init => Inv
<1> SUFFICES ASSUME Init PROVE Inv
  BY Zenon
<1>1. TypeOK
  BY Zenon, AbsentType DEF Init, TypeOK, Pc
<1>2. \A j \in Job : pc[j] = "idle"
  BY Zenon DEF Init
<1>3. LostPast /\ CasOwn
  BY Zenon DEF Init, LostPast, CasOwn
<1>4. LockedOrLost /\ HasMark /\ PassedUnseen /\ Exclusion
  BY Zenon, <1>2 DEF LockedOrLost, HasMark, PassedUnseen, Exclusion, LockedPc, MarkedPc
<1> QED
  BY Zenon, <1>1, <1>3, <1>4 DEF Inv

(***************************************************************************)
(* The invariant of the jobs: for any nodes, tasks, periods and exclusion  *)
(* lists that name global tasks both ways.                                 *)
(***************************************************************************)
THEOREM Invariance == Spec => []Inv
<1>1. Inv /\ [Next]_vars => Inv'
  BY Zenon, TypeStep, LockStep, MarkStep DEF Inv, LockInv, MarkInv
<1> QED
  BY <1>1, InvInit, PTL DEF Spec

(***************************************************************************)
(* Every variable keeps its type, and only goroutines in relockTask have a *)
(* CAS.                                                                    *)
(***************************************************************************)
THEOREM TypeCorrect == Spec => []TypeOK
<1>1. Inv => TypeOK
  BY Zenon DEF Inv
<1> QED
  BY <1>1, Invariance, PTL

(***************************************************************************)
(* Past relockTask a global job has its lock or has lost it for good.      *)
(***************************************************************************)
THEOREM LocksKept == Spec => []LockedOrLost
<1>1. Inv => LockedOrLost
  BY Zenon DEF Inv
<1> QED
  BY <1>1, Invariance, PTL

(***************************************************************************)
(* Tasks that exclude each other run together only through the gaps of     *)
(* runMarkedTask's check-then-set.                                         *)
(***************************************************************************)
THEOREM Excluded == Spec => []Exclusion
<1>1. Inv => Exclusion
  BY Zenon DEF Inv
<1> QED
  BY <1>1, Invariance, PTL

-------------------------------------------------------------------------------
(***************************************************************************)
(* The lease of a task is held by its jobs that are past relockTask with   *)
(* their lock.                                                             *)
(***************************************************************************)
Holds(j) == pc[j] \in LockedPc /\ j \notin lost

\* Who holds a lease.
LEMMA HeldBy ==
    /\ held \in [Global -> SUBSET Node]
    /\ \A t \in Global, n \in Node : n \in held[t] <=> Holds(<<n, t>>)
  BY Zenon DEF held, Holds

\* Who holds a lease after a step.
LEMMA HeldByNext ==
    /\ held' \in [Global -> SUBSET Node]
    /\ \A t \in Global, n \in Node : n \in held'[t] <=> Holds(<<n, t>>)'
  BY Zenon DEF held, Holds

\* A step after which nobody holds a lease who did not hold it before.
LEMMA LeaseEnds ==
    ASSUME \A j \in Job : j[2] \in Global /\ Holds(j)' => Holds(j)
    PROVE  L!End
<1>1. ASSUME NEW t \in Global, NEW n \in Node, n \in held'[t]
      PROVE  n \in held[t]
  <2>1. <<n, t>> \in Job /\ <<n, t>>[2] = t
    BY Zenon DEF Job, Task
  <2> QED
    BY Zenon, <1>1, <2>1, HeldBy, HeldByNext
<1>2. \A t \in Global : held'[t] \subseteq held[t]
  BY Zenon, <1>1, HeldByNext
<1> QED
  BY Zenon, <1>2, HeldByNext DEF L!End

\* A goroutine that moves without getting past relockTask.
LEMMA LeaseMove ==
    ASSUME TypeOK, NEW j \in Job, NEW p, Goto(j, p),
           p \in LockedPc /\ j[2] \in Global => pc[j] \in LockedPc,
           \A i \in Job : i \in lost => i \in lost' \/ (i = j /\ p \notin LockedPc)
    PROVE  L!End
<1>1. \A i \in Job : pc'[i] = IF i = j THEN p ELSE pc[i]
  BY Zenon DEF TypeOK, Goto
<1> QED
  BY Zenon, <1>1, LeaseEnds DEF Holds

(***************************************************************************)
(* A relock with a good CAS: the marker named this node, so no other node  *)
(* holds the lease.                                                        *)
(***************************************************************************)
LEMMA LeaseGranted ==
    ASSUME TypeOK, LockInv, NEW j \in current, pc[j] = "relocking",
           Goto(j, "locked"), UNCHANGED lost
    PROVE  L!Grant(j[2], j[1])
<1>0. /\ j \in Job /\ j[1] \in Node /\ j[2] \in Global /\ j = <<j[1], j[2]>>
      /\ lock[Name(j)].node = j[1]
  BY Zenon, JobParts DEF TypeOK, LockInv, CasOwn
<1>1. \A i \in Job : pc'[i] = IF i = j THEN "locked" ELSE pc[i]
  BY Zenon, <1>0 DEF TypeOK, Goto
<1>2. j \notin lost
  BY Zenon DEF LockInv, LostPast, LockedPc, MarkedPc
<1>3. ASSUME NEW n \in held[j[2]] PROVE FALSE
  <2> DEFINE i == <<n, j[2]>>
  <2>1. n \in Node /\ i \in Job /\ i[1] = n /\ i[2] = j[2]
    BY Zenon, <1>0, HeldBy DEF Job, Task
  <2>2. pc[i] \in LockedPc /\ i \notin lost
    BY Zenon, <1>0, <2>1, HeldBy DEF Holds
  <2>3. lock[Name(i)].node = n
    BY Zenon, <1>0, <2>1, <2>2 DEF LockInv, LockedOrLost
  <2>4. Name(i) = Name(j)
    BY Zenon, <1>0, <2>1, GlobalName
  <2>5. i = j
    BY Zenon, <1>0, <2>3, <2>4
  <2> QED
    BY Zenon, <2>2, <2>5 DEF LockedPc, MarkedPc
<1>4. ASSUME NEW t \in Global, NEW n \in Node
      PROVE  n \in held'[t] <=> IF t = j[2] THEN n = j[1] ELSE n \in held[t]
  <2>1. <<n, t>> \in Job /\ (<<n, t>> = j <=> t = j[2] /\ n = j[1])
    BY <1>0 DEF Job, Task
  <2>2. CASE <<n, t>> = j
    BY Zenon, <1>1, <1>2, <2>1, <2>2, HeldByNext DEF Holds, LockedPc
  <2>3. CASE <<n, t>> # j
    <3>1. Holds(<<n, t>>)' <=> Holds(<<n, t>>)
      BY Zenon, <1>1, <2>1, <2>3 DEF Holds
    <3> QED
      BY Zenon, <1>3, <2>1, <2>3, <3>1, HeldBy, HeldByNext
  <2> QED
    BY Zenon, <2>2, <2>3
<1>5. held[j[2]] = {}
  BY Zenon, <1>3
<1>6. held' = [held EXCEPT ![j[2]] = {j[1]}]
  BY SMTT(30), <1>0, <1>4, HeldBy, HeldByNext
<1> QED
  BY Zenon, <1>5, <1>6 DEF L!Grant

\* A goroutine in runNamedTask gets, keeps or ends a lease.
LEMMA LeaseJob ==
    ASSUME TypeOK, LockInv, NEW j \in Job, JobStep(j)
    PROVE  L!Next
<1>1. CASE Prepare(j)
  <2>1. PICK p \in {"waiting", "closing"} : Goto(j, p)
    BY Zenon, <1>1 DEF Prepare
  <2> QED
    BY Zenon, <1>1, <2>1, LeaseMove DEF Prepare, LockedPc, MarkedPc, L!Next
<1>2. ASSUME NEW u \in Task, NotRunning(j, u) PROVE L!Next
  BY Zenon, <1>2, LeaseEnds DEF NotRunning, Holds, L!Next
<1>3. ASSUME NEW u \in Task, Running(j, u) PROVE L!Next
  BY Zenon, <1>3, LeaseMove DEF Running, LockedPc, MarkedPc, L!Next
<1>4. CASE Retry(j)
  <2>1. PICK p \in {"waiting", "closing"} : Goto(j, p)
    BY Zenon, <1>4 DEF Retry
  <2> QED
    BY Zenon, <1>4, <2>1, LeaseMove DEF Retry, LockedPc, MarkedPc, L!Next
<1>5. CASE RelockGet(j)
  <2>1. CASE j[2] \in Global
    <3>1. PICK p \in {"paging", "relocking", "unmarking", "closing"} :
              Goto(j, p) /\ (p = "paging" => pc[j] = "running")
      BY Zenon, <1>5, <2>1, TaskAssumption DEF RelockGet
    <3> QED
      BY Zenon, <1>5, <3>1, LeaseMove DEF RelockGet, LockedPc, MarkedPc, L!Next
  <2>2. CASE j[2] \notin Global
    <3>1. PICK p \in {"locked"} : Goto(j, p)
      BY Zenon, <1>5, <2>2 DEF RelockGet
    <3> QED
      BY Zenon, <1>5, <2>2, <3>1, LeaseMove DEF RelockGet, L!Next
  <2> QED
    BY Zenon, <2>1, <2>2
<1>6. CASE RelockSet(j)
  <2>0. UNCHANGED lost
    BY Zenon, <1>6 DEF RelockSet
  <2>1. CASE pc[j] = "relocking" /\ Goto(j, "locked") /\ j \in current
    <3>1. L!Grant(j[2], j[1])
      BY Zenon, <2>0, <2>1, LeaseGranted
    <3>2. j[1] \in Node /\ j[2] \in Global
      BY Zenon, <2>1, JobParts DEF LockInv, CasOwn
    <3> QED
      BY Zenon, <3>1, <3>2 DEF L!Next
  <2>2. ASSUME NEW p \in {"unmarking", "closing"}, Goto(j, p) PROVE L!Next
    BY Zenon, <2>0, <2>2, LeaseMove DEF LockedPc, MarkedPc, L!Next
  <2>3. CASE pc[j] = "paging" /\ Goto(j, "running")
    BY Zenon, <2>0, <2>3, LeaseMove DEF LockedPc, MarkedPc, L!Next
  <2> QED
    BY Zenon, <1>6, <2>1, <2>2, <2>3 DEF RelockSet, GetPc
<1>7. CASE SetMark(j)
  <2>1. PICK p \in {"marked", "closing"} : Goto(j, p)
    BY Zenon, <1>7 DEF SetMark
  <2> QED
    BY Zenon, <1>7, <2>1, LeaseMove DEF SetMark, LockedPc, MarkedPc, L!Next
<1>8. CASE RunTask(j)
  <2>1. PICK p \in {"running", "unmarking"} : Goto(j, p)
    BY Zenon, <1>8 DEF RunTask
  <2> QED
    BY Zenon, <1>8, <2>1, LeaseMove DEF RunTask, LockedPc, MarkedPc, L!Next
<1>9. CASE Finish(j)
  BY Zenon, <1>9, LeaseMove DEF Finish, LockedPc, MarkedPc, L!Next
<1>10. CASE Unmark(j)
  BY Zenon, <1>10, LeaseMove DEF Unmark, LockedPc, MarkedPc, L!Next
<1>11. CASE Close(j)
  BY <1>11, LeaseMove DEF Close, LockedPc, MarkedPc, L!Next
<1> QED
  BY Zenon, <1>1, <1>2, <1>3, <1>4, <1>5, <1>6, <1>7, <1>8, <1>9, <1>10, <1>11 DEF JobStep

\* Every step of the jobs is a step of the lease.
LEMMA LeaseStep == Inv /\ [Next]_vars => [L!Next]_held
<1> SUFFICES ASSUME Inv, [Next]_vars PROVE L!Next
  BY Zenon
<1>0. TypeOK /\ LockInv
  BY Zenon DEF Inv, LockInv
<1>1. ASSUME NEW j \in Job, AddMarker(j) PROVE L!Next
  <2>1. PICK p \in {"added", "idle"} : Goto(j, p)
    BY Zenon, <1>1 DEF AddMarker
  <2>2. lost \subseteq lost'
    BY Zenon, <1>1 DEF AddMarker
  <2> QED
    BY Zenon, <1>0, <2>1, <2>2, LeaseMove DEF LockedPc, MarkedPc, L!Next
<1>2. ASSUME NEW n \in Node, Crash(n) PROVE L!Next
  <2>1. \A j \in Job : pc'[j] = IF j \in {n} \X Task THEN "idle" ELSE pc[j]
    BY Zenon, <1>2 DEF Crash
  <2>2. \A j \in Job : Holds(j)' => Holds(j)
    BY Zenon, <1>2, <2>1 DEF Crash, Holds, LockedPc, MarkedPc
  <2> QED
    BY Zenon, <2>2, LeaseEnds DEF L!Next
<1>3. CASE UNCHANGED pc /\ lost \subseteq lost'
  <2>1. \A j \in Job : Holds(j)' => Holds(j)
    BY Zenon, <1>3 DEF Holds
  <2> QED
    BY Zenon, <2>1, LeaseEnds DEF L!Next
<1>4. ASSUME NEW n \in Node, NodeStep(n) PROVE L!Next
  BY Zenon, <1>2, <1>3, <1>4 DEF NodeStep, Restart, FoundDead, BootClean, Sweep
<1>5. ASSUME NEW j \in Job, JobStep(j) PROVE L!Next
  BY Zenon, <1>0, <1>5, LeaseJob
<1> QED
  BY Zenon, <1>1, <1>3, <1>4, <1>5 DEF Next, RunNamedTask, InduceTask, Tick, vars

(***************************************************************************)
(* The job markers implement the lease: a relock grants it while nobody    *)
(* holds it, every other step only ends leases.                            *)
(***************************************************************************)
THEOREM LeaseImplemented == Spec => LeaseSpec
<1>1. Init => L!Init
  BY DEF Init, held, L!Init, LockedPc, MarkedPc, Job, Task
<1> QED
  BY <1>1, LeaseStep, Invariance, PTL DEF Spec, LeaseSpec, L!Spec

===============================================================================
