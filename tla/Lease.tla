-------------------------------- MODULE Lease ---------------------------------
(***************************************************************************)
(* What the job marker of a global task promises: at any time at most one  *)
(* node holds the lease of a task.  A lease is only granted while nobody   *)
(* holds it.  It may end at any time: it is given back, it expires, its    *)
(* holder stops, or somebody who induces the task takes it away.           *)
(***************************************************************************)
EXTENDS FiniteSets

CONSTANTS Node, Task

VARIABLE held       \* held[t]: the nodes that hold the lease of t

Init == held = [t \in Task |-> {}]

Grant(t, n) ==
    /\ held[t] = {}
    /\ held' = [held EXCEPT ![t] = {n}]

(***************************************************************************)
(* One tick of the clock can end several leases.                           *)
(***************************************************************************)
End ==
    /\ held' \in [Task -> SUBSET Node]
    /\ \A t \in Task : held'[t] \subseteq held[t]

Next == End \/ \E t \in Task, n \in Node : Grant(t, n)

Spec == Init /\ [][Next]_held

===============================================================================
