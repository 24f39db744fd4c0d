------------------------------ MODULE NodeRegistry ------------------------------
(***************************************************************************)
(* How nodes become known and are forgotten (heartbeat.go, registry.go,    *)
(* nodes.go, tasks.go, dns.go).  A running node writes its record again    *)
(* and again; updateNodeSizes puts the nodes a view knows of in the        *)
(* registry, which is kept in several documents; findAllNodes lists the    *)
(* nodes of the registry that have a record; checkStaleNodes has a listed  *)
(* node whose record is too old cleaned up, which in the end deletes its   *)
(* record and takes it out of the registry.                                *)
(*                                                                         *)
(* The age of a record is what the code tells apart: fresh for listHosts   *)
(* (three heartbeats), old, or over StaleNodeLimit.                        *)
(***************************************************************************)
EXTENDS Naturals, FiniteSets

CONSTANTS
    Node,
    Frail,         \* the nodes that stop, miss heartbeats and have blobs
    Cleaner,       \* cleanupNode goroutines
    Keys,          \* number of registry documents, in the order they are read
    MaxRows,       \* bound on the blobs registered to a node
    MaxFaults,     \* bound on operations that fail and documents that are lost
    Lost           \* a registry document that is not there

KeysAssumption ==
    /\ {Keys, MaxRows, MaxFaults} \subseteq Nat /\ Keys > 0
    /\ Frail \subseteq Node /\ \A r \in SUBSET Node : r # Lost

Key == 1..Keys
Ages == {"none", "fresh", "old", "stale"}

VARIABLES
    up,            \* the nodes that run
    hb,            \* the record of each node: its age, or "none"
    rows,          \* the blobs registered to each node
    short,         \* those of them, without garbage, that have too few owners
    index,         \* the nodes of view node_size, as last built
    reg,           \* the registry documents
    clean,         \* the cleanups: [node, by, pc]
    upd,           \* updateNodeSizes: [by, pc, view, todo, node, failed]
    faults,        \* faults so far
    removed,       \* history: <<k, n>> taken out since the pass began
    late           \* history: nodes that registered a blob without a record,
                   \*   or after a cleanup found they had none

vars == <<up, hb, rows, short, index, reg, clean, upd, faults, removed, late>>

Idle == [pc |-> 0]
\* A cleanup is at its view, at the record, or at registry document pc.
AtView == Keys + 1
AtRecord == Keys + 2

TypeOK ==
    /\ up \subseteq Node /\ index \subseteq Node /\ late \subseteq Node
    /\ hb \in [Node -> Ages]
    /\ rows \in [Node -> 0..MaxRows] /\ short \in [Node -> 0..MaxRows]
    /\ \A n \in Node : short[n] <= rows[n]
    /\ reg \in [Key -> {Lost} \cup SUBSET Node]
    /\ clean \in [Cleaner -> {Idle} \cup [node : Node, by : Node, pc : 1..AtRecord]]
    /\ upd \in [pc : {0}, view : SUBSET Node, good : BOOLEAN]
            \cup [by : Node, pc : Key, view : SUBSET Node, todo : SUBSET Node,
                  node : Node, failed : BOOLEAN]
    /\ removed \subseteq Key \X Node /\ faults \in 0..MaxFaults

Init ==
    /\ up = Node \ Frail
    /\ hb = [n \in Node |-> "none"] /\ rows = [n \in Node |-> 0] /\ short = [n \in Node |-> 0]
    /\ index = {} /\ reg = [k \in Key |-> Lost]
    /\ clean = [c \in Cleaner |-> Idle]
    /\ upd = [pc |-> 0, view |-> {}, good |-> FALSE]
    /\ faults = 0 /\ removed = {} /\ late = {}

-------------------------------------------------------------------------------
(***************************************************************************)
(* The nodes.                                                              *)
(***************************************************************************)
Start(n) ==
    /\ n \notin up /\ up' = up \cup {n}
    /\ UNCHANGED <<hb, rows, short, index, reg, clean, upd, faults, removed, late>>

\* With a node go the cleanups and the task it runs.
Stop(n) ==
    /\ n \in up \cap Frail /\ up' = up \ {n}
    /\ clean' = [c \in Cleaner |->
                    IF clean[c] # Idle /\ clean[c].by = n THEN Idle ELSE clean[c]]
    /\ upd' = IF upd.pc # 0 /\ upd.by = n
              THEN [pc |-> 0, view |-> {}, good |-> FALSE] ELSE upd
    /\ UNCHANGED <<hb, rows, short, index, reg, faults, removed, late>>

\* oneHeartbeat: the record is set whatever is there.
Beat(n) ==
    /\ n \in up
    /\ hb' = [hb EXCEPT ![n] = "fresh"]
    /\ UNCHANGED <<up, rows, short, index, reg, clean, upd, faults, removed, late>>

Age(n) ==
    /\ n \in Frail /\ hb[n] \in {"fresh", "old"}
    /\ hb' = [hb EXCEPT ![n] = IF @ = "fresh" THEN "old" ELSE "stale"]
    /\ UNCHANGED <<up, rows, short, index, reg, clean, upd, faults, removed, late>>

\* A blob is registered to the node, or no longer; or another node gets, or
\* gives up, a copy of a blob that is.
Own(n) ==
    /\ \/ /\ n \in up \cap Frail /\ rows[n] < MaxRows
          /\ rows' = [rows EXCEPT ![n] = @ + 1]
          /\ late' = IF \/ hb[n] = "none"
                        \/ \E c \in Cleaner :
                              clean[c].pc = AtRecord /\ clean[c].node = n
                     THEN late \cup {n} ELSE late
       \/ /\ rows[n] > 0 /\ rows' = [rows EXCEPT ![n] = @ - 1]
          /\ UNCHANGED late
       \/ UNCHANGED <<rows, late>>
    /\ \E s \in 0..rows'[n] : short' = [short EXCEPT ![n] = s]
    /\ UNCHANGED <<up, hb, index, reg, clean, upd, faults, removed>>

Fault == faults < MaxFaults /\ faults' = faults + 1

LoseKey(k) ==
    /\ reg[k] # Lost /\ Fault
    /\ reg' = [reg EXCEPT ![k] = Lost]
    /\ removed' = removed \cup {k} \X Node
    /\ UNCHANGED <<up, hb, rows, short, index, clean, upd, late>>

-------------------------------------------------------------------------------
(***************************************************************************)
(* updateNodeSizes.  View node_size has a row for a node record and for    *)
(* the node of a registration; it is read as it was last built, and is     *)
(* built again after that.                                                 *)
(***************************************************************************)
NodeSize == {n \in Node : hb[n] # "none" \/ rows[n] > 0}

Rows(m, view, todo, failed) ==
    IF todo = {} \/ failed
    THEN [pc |-> 0, view |-> IF failed THEN {} ELSE view, good |-> ~failed]
    ELSE [by |-> m, pc |-> 1, view |-> view, todo |-> todo,
          node |-> CHOOSE n \in todo : TRUE, failed |-> FALSE]

UpdateNodeSizes(m) ==
    /\ m \in up /\ upd.pc = 0
    /\ \E view \in {index, NodeSize} : upd' = Rows(m, view, view, FALSE)
    /\ index' = NodeSize
    /\ removed' = {}
    /\ UNCHANGED <<up, hb, rows, short, reg, clean, faults, late>>

\* A document that is not there begins with this node.
WithNode(r, n) == IF r = Lost THEN {n} ELSE r \cup {n}

(***************************************************************************)
(* setInNodeRegistry: each document in turn, by compare and swap.  One     *)
(* that fails is noted and the others are still tried; then the error ends *)
(* the pass.                                                               *)
(***************************************************************************)
SetInNodeRegistry ==
    LET k == upd.pc IN
    /\ k # 0
    /\ \E ok \in BOOLEAN :
          LET failed == upd.failed \/ ~ok IN
          /\ IF ok THEN UNCHANGED faults ELSE Fault
          /\ reg' = IF ok THEN [reg EXCEPT ![k] = WithNode(@, upd.node)] ELSE reg
          /\ removed' = IF ok THEN removed \ {<<k, upd.node>>} ELSE removed
          /\ upd' = IF k < Keys THEN [upd EXCEPT !.pc = k + 1, !.failed = failed]
                    ELSE Rows(upd.by, upd.view, upd.todo \ {upd.node}, failed)
    /\ UNCHANGED <<up, hb, rows, short, index, clean, late>>

-------------------------------------------------------------------------------
(***************************************************************************)
(* findAllNodes: the nodes of the first document that can be read, as far  *)
(* as their record can.  listHosts answers those of a recent heartbeat.    *)
(***************************************************************************)
Listed(r) == {n \in r : hb[n] # "none"}

FindAllNodes == {Listed(reg[k]) : k \in {j \in Key : reg[j] # Lost}}

ListHosts(nl) == {n \in nl : hb[n] = "fresh"}

\* checkStaleNodes starts a cleanup for a stale node, never for itself.
CheckIf(m, n, c, found) ==
    /\ m \in up /\ n # m /\ clean[c] = Idle
    /\ found
    /\ hb[n] = "stale"
    /\ clean' = [clean EXCEPT ![c] = [node |-> n, by |-> m, pc |-> AtView]]
    /\ UNCHANGED <<up, hb, rows, short, index, reg, upd, faults, removed, late>>

\* Mutant: it looks among the hosts that are listed to clients.
CheckStaleNodesListed(m, n, c) == CheckIf(m, n, c, \E nl \in FindAllNodes : n \in ListHosts(nl))

CheckStaleNodes(m, n, c) == CheckIf(m, n, c, \E nl \in FindAllNodes : n \in nl)

(***************************************************************************)
(* cleanupNode: of a batch of the registrations those are removed that     *)
(* have enough owners or are garbage.  For one that has too few, another   *)
(* node is asked to get a copy, or nothing is done when there is none, and *)
(* the rest of the batch is left when the queue is full.  Only if the view *)
(* has none the node is removed: its record, and then its entry in each    *)
(* registry document.  Each of these may fail, and the next is tried.      *)
(***************************************************************************)
Left(n) == short[n]..(IF short[n] = 0 THEN rows[n] - 1 ELSE rows[n])

CleanupIf(c, none) ==
    LET n == clean[c].node IN
    /\ clean[c].pc = AtView
    /\ \/ /\ ~none /\ \E r \in Left(n) : rows' = [rows EXCEPT ![n] = r]
          /\ clean' = [clean EXCEPT ![c] = Idle]
          /\ UNCHANGED faults
       \/ /\ none /\ clean' = [clean EXCEPT ![c].pc = AtRecord]
          /\ UNCHANGED <<rows, faults>>
       \/ Fault /\ clean' = [clean EXCEPT ![c] = Idle] /\ UNCHANGED rows
    /\ UNCHANGED <<up, hb, short, index, reg, upd, removed, late>>

\* Mutant: the node is removed with its last batch.
CleanupNodeEarly(c) ==
    CleanupIf(c, clean[c].pc = AtView /\ rows[clean[c].node] <= 1)

CleanupNode(c) == CleanupIf(c, clean[c].pc = AtView /\ rows[clean[c].node] = 0)

DeleteRecord(c) ==
    /\ clean[c].pc = AtRecord
    /\ \/ hb' = [hb EXCEPT ![clean[c].node] = "none"] /\ UNCHANGED faults
       \/ Fault /\ UNCHANGED hb
    /\ clean' = [clean EXCEPT ![c].pc = 1]
    /\ UNCHANGED <<up, rows, short, index, reg, upd, removed, late>>

RemoveFromNodeRegistry(c) ==
    LET k == clean[c].pc
        n == clean[c].node IN
    /\ k \in Key
    /\ \/ /\ reg[k] # Lost
          /\ reg' = [reg EXCEPT ![k] = @ \ {n}]
          /\ removed' = removed \cup {<<k, n>>}
          /\ UNCHANGED faults
       \/ reg[k] = Lost /\ UNCHANGED <<reg, removed, faults>>
       \/ Fault /\ UNCHANGED <<reg, removed>>
    /\ clean' = [clean EXCEPT ![c] =
                    IF k < Keys THEN [@ EXCEPT !.pc = k + 1] ELSE Idle]
    /\ UNCHANGED <<up, hb, rows, short, index, upd, late>>

-------------------------------------------------------------------------------
Cleans(c) == CleanupNode(c) \/ DeleteRecord(c) \/ RemoveFromNodeRegistry(c)

Next ==
    \/ \E n \in Node : Start(n) \/ Stop(n) \/ Beat(n) \/ Age(n) \/ Own(n)
    \/ \E k \in Key : LoseKey(k)
    \/ \E m \in Node : UpdateNodeSizes(m)
    \/ SetInNodeRegistry
    \/ \E m, n \in Node, c \in Cleaner : CheckStaleNodes(m, n, c)
    \/ \E c \in Cleaner : Cleans(c)

(***************************************************************************)
(* Heartbeats and the periodic tasks go on for as long as a node runs, and *)
(* the record of a node that does not run grows old.                       *)
(***************************************************************************)
Fairness ==
    /\ \A n \in Node :
          /\ WF_vars(Beat(n))
          /\ WF_vars(n \notin up /\ Age(n))
          /\ SF_vars(\E m \in Node, c \in Cleaner : CheckStaleNodes(m, n, c))
          /\ SF_vars(UpdateNodeSizes(n))
    /\ WF_vars(SetInNodeRegistry)
    /\ \A c \in Cleaner : WF_vars(Cleans(c))

Spec == Init /\ [][Next]_vars /\ Fairness

-------------------------------------------------------------------------------
\* The node is in the document, or was taken out since the pass began.
Entered(k, n) == (reg[k] # Lost /\ n \in reg[k]) \/ <<k, n>> \in removed

(***************************************************************************)
(* A pass of updateNodeSizes that ended well has put every node of its     *)
(* view in every registry document: one that is missing was taken out by a *)
(* cleanup, or lost with the document, since the pass began.               *)
(***************************************************************************)
UpdateComplete ==
    (upd.pc = 0 /\ upd.good) =>
        \A n \in upd.view, k \in Key : Entered(k, n)

(***************************************************************************)
(* Registrations of a node that has no record are seen by no cleanup once  *)
(* the node is down.  That happens only to blobs that were registered      *)
(* before the node's first heartbeat, or while a cleanup that had found no *)
(* registration was about to delete its record.                            *)
(***************************************************************************)
OrphansOnlyThere ==
    \A n \in Node : rows[n] > 0 /\ hb[n] = "none" => n \in late

(***************************************************************************)
(* A node that keeps running, and whose heartbeats get through in time     *)
(* from some point on, is listed for good by findAllNodes, from whichever  *)
(* document it reads, and answered again and again by listHosts; whatever  *)
(* cleanups that took it for dead have removed.                            *)
(***************************************************************************)
Findable ==
    \A n \in Node :
        <>[](n \in up /\ hb[n] # "stale") =>
            /\ <>[](FindAllNodes # {} /\ \A nl \in FindAllNodes : n \in nl)
            /\ []<>(\A nl \in FindAllNodes : n \in ListHosts(nl))

(***************************************************************************)
(* A node that stays down, and whose blobs have enough owners from some    *)
(* point on, is forgotten for good: its registrations are all removed,     *)
(* except those of OrphansOnlyThere, and so is its record, whatever        *)
(* cleanups failed or stopped on the way.  As long as one of its blobs has *)
(* too few owners and nobody gets a copy, it is kept.                      *)
(***************************************************************************)
CleanedUp ==
    \A n \in Node :
        <>[](n \notin up /\ up # {} /\ short[n] = 0) =>
            <>[](hb[n] = "none" /\ (rows[n] = 0 \/ n \in late))

-------------------------------------------------------------------------------
(***************************************************************************)
(* What makes the properties inductive: what a pass has already done, and  *)
(* that a cleanup deletes the record of a node without registrations.      *)
(***************************************************************************)
PassInv ==
    upd.pc # 0 /\ ~upd.failed =>
        /\ \A n \in upd.view \ upd.todo, k \in Key : Entered(k, n)
        /\ \A k \in 1..(upd.pc - 1) : Entered(k, upd.node)

RecordInv ==
    \A c \in Cleaner : clean[c].pc = AtRecord =>
        rows[clean[c].node] = 0 \/ clean[c].node \in late

Inv == TypeOK /\ UpdateComplete /\ OrphansOnlyThere /\ PassInv /\ RecordInv

===============================================================================
