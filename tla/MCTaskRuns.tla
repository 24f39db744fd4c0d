------------------------------ MODULE MCTaskRuns ------------------------------
(***************************************************************************)
(* TaskLock under fairness, on one node.  part says which jobs are         *)
(* launched: the two global tasks, which exclude each other, or a global   *)
(* task and a local one, whose marker is forgotten and of which a run is   *)
(* induced at every start.                                                 *)
(***************************************************************************)
EXTENDS TaskLock

CONSTANTS n1, garbageCollectBlobs, quickReconcile

VARIABLE part

EachOther == [t \in Task |-> IF t \in Global THEN Global \ {t} ELSE Local \ {t}]
OnePeriod == [t \in Task |-> 1]

GlobalJobs == {n1} \X Global

M == INSTANCE TaskLock WITH
        Launched <- {<<n1, garbageCollectBlobs>>, <<n1, quickReconcile>>}

RunsInit == part \in {"global", "mixed"} /\ Init

RunsNext ==
    /\ UNCHANGED part
    /\ (part = "global" /\ Next) \/ (part = "mixed" /\ M!Next)

\* Fairness, with the jobs that are launched.
Steps(j) == (part = "global" /\ JobStep(j)) \/ (part = "mixed" /\ M!JobStep(j))

RunsSpec ==
    /\ RunsInit /\ [][RunsNext]_<<part, vars>>
    /\ \A j \in Job : WF_vars(Steps(j)) /\ SF_vars(Finish(j))
    /\ WF_vars(Tick)

===============================================================================
