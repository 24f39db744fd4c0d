------------------------------- MODULE MCRepair -------------------------------
(***************************************************************************)
(* Replication when a node stops: one blob, of which there are to be two   *)
(* copies.  "part" is the instance that runs, with the same variables:     *)
(*   lost     n2 of three nodes stops, and may stay away;                  *)
(*   fetch    n2 of two nodes starts again and fetches what it is also     *)
(*            asked for, with two workers.                                 *)
(* The global jobs run on n1, which stays up.                              *)
(***************************************************************************)
EXTENDS Naturals, Sequences, FiniteSets

CONSTANTS n1, n2, n3, b, v, w, NoNode

VARIABLES part, disk, owners, recent, state, registry, chan, work, fetching, todo,
          uploads, faults

replVars == <<disk, owners, recent, state, registry, chan, work, fetching, todo,
              uploads, faults>>

Three == {n1, n2, n3}
Two == {n1, n2}
LostJobs == {<<"upload", n1>>, <<"ensure", n1>>, <<"clean", n1>>}
FetchJobs == {<<"upload", n1>>, <<"ensure", n1>>, <<"startup", n2>>}

Lost == INSTANCE Replication WITH
    Node <- Three, Blob <- {b}, Worker <- {w}, QueueCap <- 1, MinReplicas <- 2,
    MaxReplicas <- 2, MaxStartupRepls <- 2, Space <- [n \in Three |-> "ample"],
    Job <- LostJobs, Mortal <- {n2}, Damage <- {}, Stops <- TRUE, MaxUploads <- 1,
    MaxFaults <- 1

Fetch == INSTANCE Replication WITH
    Node <- Two, Blob <- {b}, Worker <- {v, w}, QueueCap <- 2, MinReplicas <- 2,
    MaxReplicas <- 2, MaxStartupRepls <- 2, Space <- [n \in Two |-> "ample"],
    Job <- FetchJobs, Mortal <- {n2}, Damage <- {}, Stops <- TRUE, MaxUploads <- 1,
    MaxFaults <- 1

ASSUME RepairAssumption == Lost!ReplicaAssumption /\ Fetch!ReplicaAssumption

-------------------------------------------------------------------------------
Init ==
    \/ part = "lost" /\ Lost!Init
    \/ part = "fetch" /\ Fetch!Init

Next ==
    \/ part = "lost" /\ Lost!Next /\ UNCHANGED part
    \/ part = "fetch" /\ Fetch!Next /\ UNCHANGED part

\* The fairness of Replication, where a node is lost.
Fairness ==
    /\ \A n \in Three :
          /\ WF_replVars(part = "lost" /\ Lost!Work(n, w))
          /\ SF_replVars(part = "lost" /\ Lost!Queues(n, w))
          /\ WF_replVars(part = "lost" /\ Lost!Age(n, b))
    /\ \A j \in LostJobs :
          WF_replVars(part = "lost" /\ Lost!Item(j)) /\ WF_replVars(part = "lost" /\ Lost!Run(j))
    /\ WF_replVars(part = "lost" /\ Lost!Missed(n2))

Spec == Init /\ [][Next]_<<part, replVars>> /\ Fairness

-------------------------------------------------------------------------------
\* The copies of a blob come back to the number that is asked for.
Repaired == part = "lost" => Lost!Repaired

\* Two workers of a node never copy the same blob at once.
FetchedOnce ==
    /\ part = "lost" => Lost!TypeOK /\ Lost!FetchedOnce
    /\ part = "fetch" => Fetch!TypeOK /\ Fetch!FetchedOnce

===============================================================================
