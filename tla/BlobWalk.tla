-------------------------------- MODULE BlobWalk --------------------------------
(***************************************************************************)
(* validateLocal (tasks.go) with iterateBlobs (nodes.go): a goroutine      *)
(* walks over the pages of the blobs that are registered to this node,     *)
(* and the task takes them from a channel and drops the registration of    *)
(* those it does not have.  The channel for errors is nil: who sends on it *)
(* waits for ever.                                                         *)
(*                                                                         *)
(* Blobs are numbered in the order of the view.                            *)
(***************************************************************************)
EXTENDS Naturals, Sequences, FiniteSetsExt, SequencesExt

CONSTANTS
    MaxOid, Limit,    \* blobs, and the rows of a page
    Cap,              \* buffer of the channel
    MaxChanges, MaxErrors

OidAssumption ==
    /\ {MaxOid, MaxChanges, MaxErrors} \subseteq Nat
    /\ Limit \in Nat /\ Limit >= 2 /\ Cap \in Nat \ {0}

Oid == 1..MaxOid

VARIABLES
    regs,        \* the blobs registered to this node, as the view has them
    disk,        \* the blobs it has
    walk,        \* iterateBlobs: "view", "rows", "stuck", "done"
    start,       \* startDocId
    rows, last,
    oids,        \* the channel
    task,        \* validateLocal: "run", "done"
    changes, errors,
    stale        \* history: blobs registered and not on disk all the time

vars == <<regs, disk, walk, start, rows, last, oids, task, changes, errors, stale>>

TypeOK ==
    /\ regs \subseteq Oid /\ disk \subseteq Oid /\ stale \subseteq Oid
    /\ walk \in {"view", "rows", "stuck", "done"}
    /\ start \in 0..MaxOid
    /\ rows \in Seq(Oid) /\ Len(rows) <= Limit
    /\ oids \in Seq(Oid) /\ Len(oids) <= Cap
    /\ task \in {"run", "done"} /\ last \in BOOLEAN

Init ==
    /\ regs \in SUBSET Oid /\ disk \in SUBSET Oid
    /\ walk = "view" /\ start = 0 /\ rows = <<>> /\ last = FALSE
    /\ oids = <<>> /\ task = "run"
    /\ changes = 0 /\ errors = 0
    /\ stale = regs \ disk

\* Blobs come and go: they are stored and recorded, or removed.
Change(o) ==
    /\ changes < MaxChanges
    /\ changes' = changes + 1
    /\ \/ o \in regs /\ regs' = regs \ {o} /\ disk' = disk \ {o}
       \/ o \notin regs /\ regs' = regs \cup {o} /\ disk' = disk \cup {o}
    /\ stale' = stale \ {o}
    /\ UNCHANGED <<walk, start, rows, last, oids, task, errors>>

(***************************************************************************)
(* A page from startDocId on, startDocId included.                         *)
(***************************************************************************)
Page(from, n) ==
    LET os == SetToSortSeq({o \in regs : o >= from}, <) IN
    SubSeq(os, 1, IF Len(os) < n THEN Len(os) ELSE n)

PageOf(from) == Page(from, Limit)

View ==
    /\ walk = "view"
    /\ \/ /\ rows' = PageOf(start)
          /\ last' = (Len(rows') < Limit)
          /\ walk' = "rows"
          /\ UNCHANGED errors
       \/ /\ errors < MaxErrors /\ errors' = errors + 1
          /\ walk' = "stuck"
          /\ UNCHANGED <<rows, last>>
    /\ UNCHANGED <<regs, disk, start, oids, task, changes, stale>>

Row ==
    /\ walk = "rows" /\ rows # <<>> /\ Len(oids) < Cap
    /\ start' = Head(rows)
    /\ oids' = Append(oids, Head(rows))
    /\ rows' = Tail(rows)
    /\ UNCHANGED <<regs, disk, walk, last, task, changes, errors, stale>>

\* At the end of the last page the channel is closed.
PageEnd ==
    /\ walk = "rows" /\ rows = <<>>
    /\ walk' = IF last THEN "done" ELSE "view"
    /\ UNCHANGED <<regs, disk, start, rows, last, oids, task, changes, errors, stale>>

(***************************************************************************)
(* One blob of validateLocal.  What it salvages is in Replication.         *)
(***************************************************************************)
Validate ==
    /\ task = "run" /\ oids # <<>>
    /\ oids' = Tail(oids)
    /\ regs' = IF Head(oids) \in disk THEN regs ELSE regs \ {Head(oids)}
    /\ UNCHANGED <<disk, walk, start, rows, last, task, changes, errors, stale>>

TaskEnd ==
    /\ task = "run" /\ oids = <<>> /\ walk = "done"
    /\ task' = "done"
    /\ UNCHANGED <<regs, disk, walk, start, rows, last, oids, changes, errors, stale>>

Walk == View \/ Row \/ PageEnd

Next == Walk \/ Validate \/ TaskEnd \/ \E o \in Oid : Change(o)

Spec == Init /\ [][Next]_vars /\ WF_vars(Walk) /\ WF_vars(Validate) /\ WF_vars(TaskEnd)

-------------------------------------------------------------------------------
(***************************************************************************)
(* A validation that ends has dropped the registration of every blob that  *)
(* was registered and not there all the time, although it takes rows out   *)
(* of the view it walks over.                                              *)
(***************************************************************************)
ValidationComplete == task = "done" => stale \cap regs = {}

(***************************************************************************)
(* The validation ends, unless the view fails: then the walk is stuck, and *)
(* the task with it, for ever.                                             *)
(***************************************************************************)
ValidationEnds == <>(task = "done" \/ walk = "stuck")

===============================================================================
