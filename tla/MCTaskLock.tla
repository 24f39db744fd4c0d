------------------------------ MODULE MCTaskLock ------------------------------
(***************************************************************************)
(* TaskLock on two nodes.  The global tasks are the collector, which       *)
(* relocks while it runs, and the replica check; they exclude each other.  *)
(* "part" says which jobs are launched: the two tasks, each on a node of   *)
(* its own, or the collector on both nodes.                                *)
(***************************************************************************)
EXTENDS TaskLock

CONSTANTS n1, n2, garbageCollectBlobs, ensureMinReplCount

VARIABLE part

EachOther == [t \in Task |-> Global \ {t}]
OnePeriod == [t \in Task |-> 1]

TwoTasks == {<<n1, garbageCollectBlobs>>, <<n2, ensureMinReplCount>>}
SameTask == {<<n1, garbageCollectBlobs>>, <<n2, garbageCollectBlobs>>}

S == INSTANCE TaskLock WITH Launched <- SameTask

MCInit == part \in {"two", "same"} /\ Init

MCNext ==
    /\ UNCHANGED part
    /\ (part = "two" /\ Next) \/ (part = "same" /\ S!Next)

MCSpec == MCInit /\ [][MCNext]_<<part, vars>>

\* Bound: only n2 is taken for dead by another node.
OneSwept == sweep \subseteq {n2} \X Global

===============================================================================
