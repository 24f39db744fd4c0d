------------------------------- MODULE TaskLock -------------------------------
(***************************************************************************)
(* Periodic jobs (tasks.go).  Every node runs one goroutine per job.  A    *)
(* job is protected by two documents in Couchbase, which both expire:      *)
(*   lock   the JobMarker "/@name", added by who runs the task, for one    *)
(*          period: the task is not started again before it expires;       *)
(*   mark   "/@name/running", set while the task runs, for an hour: tasks  *)
(*          that exclude this one wait for it to go away.                  *)
(* A global task has one name in the cluster, a local one has the node's   *)
(* name in it.  The task list "/@node/tasks" is left out: it is shown to   *)
(* users and read by no code here.                                         *)
(***************************************************************************)
EXTENDS Integers, FiniteSets

CONSTANTS
    Node,
    Global,       \* names of the global tasks
    Local,        \* names of the local tasks
    Excl,         \* Excl[t]: the names in the excl list of t's recipe
    Period,       \* Period[t]: t's period
    RunTTL,       \* the 3600 seconds of a running marker
    Paging,       \* the tasks that relock while they run (the collector)
    Forgotten,    \* local tasks whose marker is deleted at start
    Induced,      \* local tasks induced at start
    Launched,     \* the jobs a small instance looks at
    None

Task == Global \cup Local
Job == Node \X Task

ASSUME TaskAssumption ==
    /\ Global \cap Local = {}
    /\ Excl \in [Task -> SUBSET Task]
    /\ \A t \in Global : Excl[t] \subseteq Global /\ t \notin Excl[t]
    /\ \A t, u \in Global : u \in Excl[t] => t \in Excl[u]
    /\ Paging \subseteq Global
    /\ Forgotten \subseteq Local
    /\ Induced \subseteq Local
    /\ Launched \subseteq Job
    /\ None \notin Node

ASSUME PeriodAssumption ==
    Period \in [Task -> Nat \ {0}] /\ RunTTL \in Nat \ {0}

(***************************************************************************)
(* What the name passed to runNamedTask stands for (runGlobalTask and      *)
(* runLocalTask).  The excl lists hold plain task names: <<None, u>> is    *)
(* the name of a global task, and nobody's when u is local.                *)
(***************************************************************************)
Name(j) == IF j[2] \in Global THEN <<None, j[2]>> ELSE j
Key == (Node \cup {None}) \X Task

VARIABLES
    lock,     \* lock[k]: the JobMarker of name k, with its time to live
    mark,     \* mark[k]: the running marker of name k
    pc,       \* pc[j]: where the goroutine of job j is
    left,     \* left[j]: the names of excl still to be read in this round
    waited,   \* waited[j]: how long runMarkedTask has waited
    current,  \* jobs whose mc.Get in relockTask is still the latest version
    induced,  \* jobs with an entry in their inducer channel
    up,       \* the nodes that are up
    boot,     \* <<n, t>>: markers that starting node n has yet to look at
    sweep,    \* <<n, t>>: the same for a node that cleans up after n
    lost,     \* history: jobs past relockTask whose lock is gone
    raced     \* history: jobs that could not be seen, or did not see others

vars == <<lock, mark, pc, left, waited, current, induced, up, boot, sweep,
          lost, raced>>

-------------------------------------------------------------------------------
(***************************************************************************)
(*   added       the lock is ours                                          *)
(*   waiting     reading the running markers of excl                       *)
(*   blocked     found one, asleep                                         *)
(*   relocking   relockTask has its Get                                    *)
(*   locked      relocked, the running marker is not set yet               *)
(*   marked      it is set                                                 *)
(*   running     in job.f                                                  *)
(*   paging      in job.f, relockTask has its Get                          *)
(*   unmarking   job.f has returned, the marker is to be deleted           *)
(*   closing     the rest of runNamedTask                                  *)
(***************************************************************************)
MarkedPc == {"marked", "running", "paging"}
LockedPc == {"locked"} \cup MarkedPc
GetPc == {"relocking", "paging"}
Pc == {"idle", "added", "waiting", "blocked", "relocking", "unmarking",
       "closing"} \cup LockedPc

Marker == [node: Node \cup {None}, ttl: Nat]
Absent == [node |-> None, ttl |-> 0]

Locked(k) == {j \in Job : pc[j] \in LockedPc /\ Name(j) = k}
Marked(k) == {j \in Job : pc[j] \in MarkedPc /\ Name(j) = k}
Named(k) == {j \in Job : Name(j) = k}

(***************************************************************************)
(* j has read the marker of global task u in this round and found none.    *)
(***************************************************************************)
Passed(j, u) ==
    /\ u \in Excl[j[2]]
    /\ \/ pc[j] = "waiting" /\ u \notin left[j]
       \/ pc[j] \in {"relocking", "locked"}

Init ==
    /\ lock = [k \in Key |-> Absent]
    /\ mark = [k \in Key |-> Absent]
    /\ pc = [j \in Job |-> "idle"]
    /\ left = [j \in Job |-> {}]
    /\ waited = [j \in Job |-> 0]
    /\ current = {}
    /\ induced = {j \in Job : j[2] \in Induced}
    /\ up = Node
    /\ boot = {}
    /\ sweep = {}
    /\ lost = {}
    /\ raced = {}

-------------------------------------------------------------------------------
(***************************************************************************)
(* Every write of a document changes its CAS.                              *)
(***************************************************************************)
\* Mutant: a CAS stays good.
WriteLockKeepsCas(k, m) == lock' = [lock EXCEPT ![k] = m] /\ UNCHANGED current

WriteLock(k, m) ==
    /\ lock' = [lock EXCEPT ![k] = m]
    /\ current' = current \ Named(k)

Goto(j, p) == pc' = [pc EXCEPT ![j] = p]

(***************************************************************************)
(* The goroutine of a job is up and its node has started (startTasks       *)
(* launches the jobs after cleanNodeTaskMarkers).                          *)
(***************************************************************************)
Alive(j) == j \in Launched /\ j[1] \in up /\ \A t \in Global : <<j[1], t>> \notin boot

(***************************************************************************)
(* runPeriodicJob and runNamedTask: mc.Add for a tick, mc.Set for an       *)
(* induced run.  The write may fail, and an error may be reported for a    *)
(* write that was done.                                                    *)
(***************************************************************************)
AddMarker(j) ==
    /\ WriteLock(Name(j), [node |-> j[1], ttl |-> Period[j[2]]])
    /\ \E p \in {"added", "idle"} : Goto(j, p)
    /\ lost' = lost \cup Locked(Name(j))

RunNamedTask(j, force) ==
    /\ Alive(j)
    /\ pc[j] = "idle"
    /\ force => j \in induced
    /\ \/ (force \/ lock[Name(j)] = Absent) /\ AddMarker(j)
       \/ UNCHANGED <<lock, current, pc, lost>>
    /\ induced' = IF force THEN induced \ {j} ELSE induced
    /\ UNCHANGED <<mark, left, waited, up, boot, sweep, raced>>

(***************************************************************************)
(* setTaskState(name, "preparing"), and into runMarkedTask.                *)
(***************************************************************************)
Prepare(j) ==
    /\ pc[j] = "added"
    /\ \E p \in {"waiting", "closing"} : Goto(j, p)
    /\ left' = [left EXCEPT ![j] = Excl[j[2]]]
    /\ waited' = [waited EXCEPT ![j] = 0]
    /\ UNCHANGED <<lock, mark, current, induced, up, boot, sweep, lost, raced>>

(***************************************************************************)
(* taskRunning(u) is false: there is no marker, or it cannot be read.      *)
(***************************************************************************)
\* Mutant: the markers are not looked at.
NotRunningUnseen(j, u) ==
    /\ pc[j] = "waiting"
    /\ u \in left[j]
    /\ left' = [left EXCEPT ![j] = @ \ {u}]
    /\ UNCHANGED <<lock, mark, pc, waited, current, induced, up, boot, sweep,
                   lost, raced>>

NotRunning(j, u) ==
    /\ pc[j] = "waiting"
    /\ u \in left[j]
    /\ \/ mark[<<None, u>>] = Absent /\ UNCHANGED raced
       \/ raced' = raced \cup {j}
    /\ left' = [left EXCEPT ![j] = @ \ {u}]
    /\ UNCHANGED <<lock, mark, pc, waited, current, induced, up, boot, sweep,
                   lost>>

(***************************************************************************)
(* It is true: sleep, then give up after a period or start over.           *)
(***************************************************************************)
Running(j, u) ==
    /\ pc[j] = "waiting"
    /\ u \in left[j]
    /\ mark[<<None, u>>] # Absent
    /\ Goto(j, "blocked")
    /\ UNCHANGED <<lock, mark, left, waited, current, induced, up, boot, sweep,
                   lost, raced>>

\* Mutant: the time spent waiting is not looked at.
RetryForever(j) ==
    /\ pc[j] = "blocked"
    /\ Goto(j, "waiting")
    /\ left' = [left EXCEPT ![j] = Excl[j[2]]]
    /\ raced' = raced \ {j}
    /\ UNCHANGED <<lock, mark, waited, current, induced, up, boot, sweep, lost>>

Retry(j) ==
    /\ pc[j] = "blocked"
    /\ Goto(j, IF waited[j] > Period[j[2]] THEN "closing" ELSE "waiting")
    /\ left' = [left EXCEPT ![j] = Excl[j[2]]]
    /\ raced' = raced \ {j}
    /\ UNCHANGED <<lock, mark, waited, current, induced, up, boot, sweep, lost>>

(***************************************************************************)
(* relockTask reads the marker and looks for the node's own name in it.    *)
(* A local task goes on without.                                           *)
(***************************************************************************)
RelockGet(j) ==
    /\ \/ pc[j] = "waiting" /\ left[j] = {}
       \/ pc[j] = "running" /\ j[2] \in Paging
    /\ LET page == pc[j] = "running"
       IN  \/ /\ j[2] \in Local
              /\ Goto(j, "locked")
              /\ UNCHANGED current
           \/ /\ j[2] \in Global
              /\ lock[Name(j)].node = j[1]
              /\ Goto(j, IF page THEN "paging" ELSE "relocking")
              /\ current' = current \cup {j}
           \/ /\ j[2] \in Global
              /\ Goto(j, IF page THEN "unmarking" ELSE "closing")
              /\ UNCHANGED current
    /\ UNCHANGED <<lock, mark, left, waited, induced, up, boot, sweep, lost,
                   raced>>

(***************************************************************************)
(* and sets it again, for another period, if nobody has written it since.  *)
(* An error, even if the write was done, is a lost lock.                   *)
(***************************************************************************)
\* Mutant: the SET goes without the CAS.
RelockSetBlind(j) ==
    /\ pc[j] \in GetPc
    /\ WriteLock(Name(j), [node |-> j[1], ttl |-> Period[j[2]]])
    /\ Goto(j, IF pc[j] = "paging" THEN "running" ELSE "locked")
    /\ UNCHANGED <<mark, left, waited, induced, up, boot, sweep, lost, raced>>

RelockSet(j) ==
    /\ pc[j] \in GetPc
    /\ LET page == pc[j] = "paging"
           fail == Goto(j, IF page THEN "unmarking" ELSE "closing")
       IN  \/ /\ j \in current
              /\ WriteLock(Name(j), [node |-> j[1], ttl |-> Period[j[2]]])
              /\ Goto(j, IF page THEN "running" ELSE "locked") \/ fail
           \/ /\ fail
              /\ current' = current \ {j}
              /\ UNCHANGED lock
    /\ UNCHANGED <<mark, left, waited, induced, up, boot, sweep, lost, raced>>

(***************************************************************************)
(* The running marker is set.  Who has already looked for it will not see  *)
(* it.  After an error nobody deletes it, should it be there.              *)
(***************************************************************************)
SetMark(j) ==
    /\ pc[j] = "locked"
    /\ \/ /\ mark' = [mark EXCEPT ![Name(j)] = [node |-> j[1], ttl |-> RunTTL]]
          /\ \E p \in {"marked", "closing"} : Goto(j, p)
          /\ raced' = raced \cup {i \in Job : Passed(i, j[2])}
       \/ Goto(j, "closing") /\ UNCHANGED <<mark, raced>>
    /\ UNCHANGED <<lock, left, waited, current, induced, up, boot, sweep, lost>>

(***************************************************************************)
(* setTaskState(name, "running"), and job.f.                               *)
(***************************************************************************)
RunTask(j) ==
    /\ pc[j] = "marked"
    /\ \E p \in {"running", "unmarking"} : Goto(j, p)
    /\ UNCHANGED <<lock, mark, left, waited, current, induced, up, boot, sweep,
                   lost, raced>>

Finish(j) ==
    /\ pc[j] = "running"
    /\ Goto(j, "unmarking")
    /\ UNCHANGED <<lock, mark, left, waited, current, induced, up, boot, sweep,
                   lost, raced>>

(***************************************************************************)
(* The deferred Delete takes the marker away, whoever has set it.          *)
(***************************************************************************)
Unmark(j) ==
    /\ pc[j] = "unmarking"
    /\ Goto(j, "closing")
    /\ \/ /\ mark' = [mark EXCEPT ![Name(j)] = Absent]
          /\ raced' = raced \cup Marked(Name(j))
       \/ UNCHANGED <<mark, raced>>
    /\ UNCHANGED <<lock, left, waited, current, induced, up, boot, sweep, lost>>

Close(j) ==
    /\ pc[j] = "closing"
    /\ Goto(j, "idle")
    /\ left' = [left EXCEPT ![j] = {}]
    /\ waited' = [waited EXCEPT ![j] = 0]
    /\ lost' = lost \ {j}
    /\ raced' = raced \ {j}
    /\ UNCHANGED <<lock, mark, current, induced, up, boot, sweep>>

(***************************************************************************)
(* induceTask: a full channel drops the request.                           *)
(***************************************************************************)
InduceTask(j) ==
    /\ Alive(j)
    /\ induced' = induced \cup {j}
    /\ UNCHANGED <<lock, mark, pc, left, waited, current, up, boot, sweep, lost,
                   raced>>

-------------------------------------------------------------------------------
(***************************************************************************)
(* cleanNodeTaskMarkers for one task: the marker goes if it is n's, and    *)
(* stays after an error, which is only logged.                             *)
(***************************************************************************)
CleanMarker(n, t) ==
    LET k == <<None, t>>
    IN  \/ /\ mark[k].node = n
           /\ mark' = [mark EXCEPT ![k] = Absent]
           /\ raced' = raced \cup Marked(k)
        \/ UNCHANGED <<mark, raced>>

BootClean(n, t) ==
    /\ <<n, t>> \in boot
    /\ boot' = boot \ {<<n, t>>}
    /\ CleanMarker(n, t)
    /\ UNCHANGED <<lock, pc, left, waited, current, induced, up, sweep, lost>>

(***************************************************************************)
(* cleanupNode on another node: checkStaleNodes missed n's heartbeats, but *)
(* n may be back, or may have been there all the time.                     *)
(***************************************************************************)
FoundDead(n) ==
    /\ up \ {n} # {}
    /\ sweep' = sweep \cup ({n} \X Global)
    /\ UNCHANGED <<lock, mark, pc, left, waited, current, induced, up, boot,
                   lost, raced>>

Sweep(n, t) ==
    /\ <<n, t>> \in sweep
    /\ sweep' = sweep \ {<<n, t>>}
    /\ CleanMarker(n, t)
    /\ UNCHANGED <<lock, pc, left, waited, current, induced, up, boot, lost>>

(***************************************************************************)
(* A node stops, with all its goroutines, and starts again (startTasks,    *)
(* which ignores errors of its Deletes).                                   *)
(***************************************************************************)
Crash(n) ==
    LET mine == {n} \X Task
    IN  /\ n \in up
        /\ up' = up \ {n}
        /\ pc' = [j \in Job |-> IF j \in mine THEN "idle" ELSE pc[j]]
        /\ left' = [j \in Job |-> IF j \in mine THEN {} ELSE left[j]]
        /\ waited' = [j \in Job |-> IF j \in mine THEN 0 ELSE waited[j]]
        /\ current' = current \ mine
        /\ induced' = induced \ mine
        /\ boot' = boot \ mine
        /\ lost' = lost \ mine
        /\ raced' = raced \ mine
        /\ UNCHANGED <<lock, mark, sweep>>

Restart(n) ==
    /\ n \notin up
    /\ up' = up \cup {n}
    /\ boot' = boot \cup ({n} \X Global)
    /\ \E gone \in SUBSET ({n} \X Forgotten) :
          lock' = [k \in Key |-> IF k \in gone THEN Absent ELSE lock[k]]
    /\ induced' = induced \cup ({n} \X Induced)
    /\ UNCHANGED <<mark, pc, left, waited, current, sweep, lost, raced>>

(***************************************************************************)
(* Time passes, and markers expire.                                        *)
(***************************************************************************)
Aged(m) == IF m.ttl <= 1 THEN Absent ELSE [m EXCEPT !.ttl = @ - 1]

Tick ==
    /\ lock' = [k \in Key |-> Aged(lock[k])]
    /\ mark' = [k \in Key |-> Aged(mark[k])]
    /\ waited' = [j \in Job |->
                    IF pc[j] \in {"waiting", "blocked"} /\ waited[j] <= Period[j[2]]
                      THEN waited[j] + 1 ELSE waited[j]]
    /\ current' = {j \in current : lock'[Name(j)] # Absent}
    /\ lost' = lost \cup {j \in Job : j \in Locked(Name(j)) /\ lock'[Name(j)] = Absent}
    /\ raced' = raced \cup {j \in Job : j \in Marked(Name(j)) /\ mark'[Name(j)] = Absent}
    /\ UNCHANGED <<pc, left, induced, up, boot, sweep>>

-------------------------------------------------------------------------------
(***************************************************************************)
(* What a goroutine does once it is in runNamedTask.                       *)
(***************************************************************************)
JobStep(j) ==
    \/ Prepare(j)
    \/ \E u \in Task : NotRunning(j, u) \/ Running(j, u)
    \/ Retry(j)
    \/ RelockGet(j) \/ RelockSet(j)
    \/ SetMark(j) \/ RunTask(j) \/ Finish(j) \/ Unmark(j) \/ Close(j)

NodeStep(n) ==
    \/ Crash(n) \/ Restart(n) \/ FoundDead(n)
    \/ \E t \in Global : BootClean(n, t) \/ Sweep(n, t)

Next ==
    \/ \E j \in Job :
          \/ \E force \in BOOLEAN : RunNamedTask(j, force)
          \/ JobStep(j)
          \/ InduceTask(j)
    \/ \E n \in Node : NodeStep(n)
    \/ Tick

Spec == Init /\ [][Next]_vars

(***************************************************************************)
(* A goroutine goes on, time passes, and job.f returns at some time, also  *)
(* if it relocks in between: the collector's view has finitely many rows.  *)
(***************************************************************************)
Fairness ==
    /\ \A j \in Job : WF_vars(JobStep(j)) /\ SF_vars(Finish(j))
    /\ WF_vars(Tick)

FairSpec == Spec /\ Fairness

-------------------------------------------------------------------------------
(***************************************************************************)
(* Type correctness, and that who has a CAS is in relockTask.              *)
(***************************************************************************)
TypeOK ==
    /\ lock \in [Key -> Marker]
    /\ mark \in [Key -> Marker]
    /\ pc \in [Job -> Pc]
    /\ left \in [Job -> SUBSET Task]
    /\ waited \in [Job -> Nat]
    /\ current \subseteq {j \in Job : pc[j] \in GetPc}
    /\ induced \subseteq Job
    /\ up \subseteq Node
    /\ boot \subseteq Node \X Global
    /\ sweep \subseteq Node \X Global
    /\ lost \subseteq Job
    /\ raced \subseteq Job

(***************************************************************************)
(* relockTask knows the holder of a lock by its node's name only.  Still,  *)
(* between relockTask and the end of its task a job has the lock, or has   *)
(* lost it for good: once it expired or was taken by an induced run, no    *)
(* relock of the same run brings it back.                                  *)
(***************************************************************************)
LockedOrLost ==
    \A j \in Job : j[2] \in Global /\ pc[j] \in LockedPc =>
        (j \in lost <=> lock[Name(j)].node # j[1])

(***************************************************************************)
(* The lease of a global task: held by the nodes that are past relockTask  *)
(* and whose marker was not taken from them.  The jobs implement it: no    *)
(* two nodes hold it at once, so two nodes run the same task only after    *)
(* one of them outlived its marker or the task was induced.                *)
(***************************************************************************)
held ==
    [t \in Global |-> {n \in Node : pc[<<n, t>>] \in LockedPc /\ <<n, t>> \notin lost}]

L == INSTANCE Lease WITH Task <- Global

LeaseSpec == L!Spec

(***************************************************************************)
(* Tasks that exclude each other do not run at the same time, unless one   *)
(* of them had looked for the other's marker before that was set, could    *)
(* not read it, or lost its own (it expired, or was deleted by a run that  *)
(* had lost the lock, or by the cleanup after the node's earlier life).    *)
(* These are the gaps in runMarkedTask's check-then-set, and all of them.  *)
(***************************************************************************)
Exclusion ==
    \A i, j \in Job :
        /\ pc[i] \in MarkedPc
        /\ pc[j] \in MarkedPc
        /\ i[2] \in Global
        /\ j[2] \in Excl[i[2]]
        => i \in raced \/ j \in raced

(***************************************************************************)
(* Every run comes to an end, whatever is left behind by a crash: tasks    *)
(* that exclude each other do not wait for each other for ever, since      *)
(* runMarkedTask gives up after a period.                                  *)
(***************************************************************************)
RunsEnd == \A j \in Job : pc[j] # "idle" ~> pc[j] = "idle"

-------------------------------------------------------------------------------
(***************************************************************************)
(* The inductive invariant adds: only a run past relockTask has lost its   *)
(* lock; a good CAS was read from a lock of one's own; a run that is not   *)
(* in raced has its marker; and who has passed a task met no such run of   *)
(* it.                                                                     *)
(***************************************************************************)
LostPast == \A j \in lost : pc[j] \in LockedPc \cup {"unmarking", "closing"}

CasOwn == \A j \in current : j[2] \in Global /\ lock[Name(j)].node = j[1]

HasMark ==
    \A j \in Job : pc[j] \in MarkedPc /\ j \notin raced => mark[Name(j)] # Absent

PassedUnseen ==
    \A i, j \in Job :
        j[2] \in Global /\ Passed(i, j[2]) /\ pc[j] \in MarkedPc
          => i \in raced \/ j \in raced

Inv ==
    /\ TypeOK
    /\ LostPast
    /\ CasOwn
    /\ LockedOrLost
    /\ HasMark
    /\ PassedUnseen
    /\ Exclusion

===============================================================================
