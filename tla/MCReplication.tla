---------------------------- MODULE MCReplication ----------------------------
(***************************************************************************)
(* Small instances of Replication.  "part" is the one that runs, all of    *)
(* them with the same variables:                                           *)
(*   rot      a file of one of two nodes is lost or has gone bad;          *)
(*   prune    one copy is asked for, and an upload makes two;              *)
(*   move     n2 is nearly full, and what it has moves to n1.              *)
(* The global jobs run on n1.                                              *)
(***************************************************************************)
EXTENDS Naturals, Sequences, FiniteSets

CONSTANTS n1, n2, b, c, w, NoNode

VARIABLES part, disk, owners, recent, state, registry, chan, work, fetching, todo,
          uploads, faults

replVars == <<disk, owners, recent, state, registry, chan, work, fetching, todo,
              uploads, faults>>

Two == {n1, n2}
Ample == [n \in Two |-> "ample"]

RotJobs == {<<"upload", n1>>, <<"ensure", n1>>, <<"reconcile", n2>>, <<"validate", n2>>}
PruneJobs == {<<"upload", n1>>, <<"ensure", n1>>, <<"prune", n1>>}
MoveJobs == {<<"upload", n2>>, <<"trim", n1>>, <<"prune", n1>>}

Rot == INSTANCE Replication WITH
    Node <- Two, Blob <- {b}, Worker <- {w}, QueueCap <- 1, MinReplicas <- 2,
    MaxReplicas <- 2, MaxStartupRepls <- 2, Space <- Ample, Job <- RotJobs,
    Mortal <- {n2}, Damage <- {"none", "rotten"}, Stops <- FALSE, MaxUploads <- 1,
    MaxFaults <- 1

Prune == INSTANCE Replication WITH
    Node <- Two, Blob <- {b}, Worker <- {w}, QueueCap <- 1, MinReplicas <- 1,
    MaxReplicas <- 1, MaxStartupRepls <- 2, Space <- Ample, Job <- PruneJobs,
    Mortal <- {}, Damage <- {}, Stops <- FALSE, MaxUploads <- 1, MaxFaults <- 0

Move == INSTANCE Replication WITH
    Node <- Two, Blob <- {b, c}, Worker <- {w}, QueueCap <- 1, MinReplicas <- 1,
    MaxReplicas <- 2, MaxStartupRepls <- 2,
    Space <- [n \in Two |-> IF n = n2 THEN "low" ELSE "ample"], Job <- MoveJobs,
    Mortal <- {}, Damage <- {}, Stops <- FALSE, MaxUploads <- 2, MaxFaults <- 0

ASSUME CopiesAssumption ==
    Rot!ReplicaAssumption /\ Prune!ReplicaAssumption /\ Move!ReplicaAssumption

-------------------------------------------------------------------------------
Init ==
    \/ part = "rot" /\ Rot!Init
    \/ part = "prune" /\ Prune!Init
    \/ part = "move" /\ Move!Init

Next ==
    \/ part = "rot" /\ Rot!Next /\ UNCHANGED part
    \/ part = "prune" /\ Prune!Next /\ UNCHANGED part
    \/ part = "move" /\ Move!Next /\ UNCHANGED part

(***************************************************************************)
(* The fairness of Replication, for the parts with a liveness property.    *)
(***************************************************************************)
Works(n) ==
    \/ part = "rot" /\ Rot!Work(n, w)
    \/ part = "prune" /\ Prune!Work(n, w)
    \/ part = "move" /\ Move!Work(n, w)

Queues(n) ==
    \/ part = "rot" /\ Rot!Queues(n, w)
    \/ part = "prune" /\ Prune!Queues(n, w)
    \/ part = "move" /\ Move!Queues(n, w)

Item(j) ==
    \/ part = "rot" /\ j \in RotJobs /\ Rot!Item(j)
    \/ part = "prune" /\ j \in PruneJobs /\ Prune!Item(j)
    \/ part = "move" /\ j \in MoveJobs /\ Move!Item(j)

Run(j) ==
    \/ part = "rot" /\ j \in RotJobs /\ Rot!Run(j)
    \/ part = "prune" /\ j \in PruneJobs /\ Prune!Run(j)
    \/ part = "move" /\ j \in MoveJobs /\ Move!Run(j)

Age(n, o) ==
    \/ part = "rot" /\ o = b /\ Rot!Age(n, o)
    \/ part = "prune" /\ o = b /\ Prune!Age(n, o)
    \/ part = "move" /\ Move!Age(n, o)

Fairness ==
    /\ \A n \in Two : WF_replVars(Works(n)) /\ SF_replVars(Queues(n))
    /\ \A j \in RotJobs \cup PruneJobs \cup MoveJobs :
          WF_replVars(Item(j)) /\ WF_replVars(Run(j))
    /\ SF_replVars(part = "rot" /\ Rot!VerifyItem(<<"reconcile", n2>>))
    /\ WF_replVars(part = "rot" /\ Rot!Missed(n2))
    /\ \A n \in Two, o \in {b, c} : WF_replVars(Age(n, o))

Spec == Init /\ [][Next]_<<part, replVars>> /\ Fairness

-------------------------------------------------------------------------------
\* The copies of a blob come back to the number that is asked for.
Repaired == part = "rot" => Rot!Repaired

\* A blob does not keep more copies than are asked for.
Pruned == part = "prune" => Prune!Pruned

(***************************************************************************)
(* JobsEnd of Replication: no job waits for a full queue, or goes through  *)
(* its rows, for ever.                                                     *)
(***************************************************************************)
Busy(j) == part = "move" /\ (todo[j] # <<>> \/ Move!Waits(j))

JobsEnd == \A j \in MoveJobs : Busy(j) ~> ~Busy(j)

===============================================================================
