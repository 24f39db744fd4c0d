------------------------------- MODULE MCConfig -------------------------------
(***************************************************************************)
(* The stored configuration (ConfigStore), and how it reaches the jobs of  *)
(* a node (ConfigBroadcast).  A job sees only its node's configuration, so *)
(* each is explored by itself: "part" is the one that runs, and the other  *)
(* stays in an initial state.                                              *)
(***************************************************************************)
EXTENDS ConfigPart

VARIABLE part

configVars == <<part, svars, bvars>>

-------------------------------------------------------------------------------
BOff == stored = 1

Init ==
    /\ part \in {"config", "broadcast"}
    /\ S!Init /\ (part = "broadcast" \/ BOff) /\ B!Init

Next ==
    \/ part = "config" /\ S!Next /\ UNCHANGED <<part, bvars>>
    \/ part = "broadcast" /\ B!Next /\ UNCHANGED <<part, svars>>

\* The fairness of the part that runs.
Fairness ==
    /\ \A u \in Updater : WF_bvars(part = "broadcast" /\ B!Alive /\ B!Updates(u))
    /\ WF_bvars(part = "broadcast" /\ B!Alive /\ B!Broadcast)
    /\ \A j \in Job \cup {HB} :
          /\ SF_bvars(part = "broadcast" /\ B!Alive /\ B!Register(j))
          /\ WF_bvars(part = "broadcast" /\ B!Alive /\ B!StartJob(j))
          /\ SF_bvars(part = "broadcast" /\ B!Alive /\ B!ConfigChange(j))
          /\ WF_bvars(part = "broadcast" /\ B!Alive /\ B!RunEnds(j))

Spec == Init /\ [][Next]_configVars /\ Fairness

-------------------------------------------------------------------------------
\* ConfigBroadcast: a configuration reaches the node and all its jobs, and one
\* with too short a period ends only a process that starts.
ConfigReaches ==
    /\ part = "broadcast" => B!ConfigReaches
    /\ [][B!StartsDead]_bvars

-------------------------------------------------------------------------------
\* For the instance: other versions store what they like.
AllFirst == [p \in Param |-> 1]
SomeDocs == UNION {[D -> Val] : D \in SUBSET (Param \cup {Strange})}

===============================================================================
