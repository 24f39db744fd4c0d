------------------------------ MODULE BlobRecord ------------------------------
(***************************************************************************)
(* The ownership record of a blob (type BlobOwnership, blobs.go), kept in  *)
(* Couchbase under "/" + oid, and what each closure that cbfs hands to     *)
(* Couchbase does to one.  The operators are pure: they take a record and  *)
(* the time at which the closure runs, and return the record it writes.    *)
(***************************************************************************)
EXTENDS Integers, FiniteSets

CONSTANTS
    Node,            \* names of the storage nodes (serverId)
    MinReplicas,     \* globalConfig.MinReplicas
    GCGrace,         \* the 15 minutes of markGarbage
    RemoveGrace      \* the hour of maybeRemoveBlobOwnership

ASSUME NodeAssumption == IsFiniteSet(Node)

ASSUME ReplicaAssumption == MinReplicas \in Nat \ {0}

ASSUME GraceAssumption ==
    /\ GCGrace \in Nat
    /\ RemoveGrace \in Nat
    /\ GCGrace <= RemoveGrace

(***************************************************************************)
(* A zero time.Time: a node that is not in the Nodes map, or a blob that   *)
(* was never linked by reference.                                          *)
(***************************************************************************)
Never == -1

Time == Nat
Stamp == Time \cup {Never}

(***************************************************************************)
(* nodes[n] is when n last registered the blob, Never if n is not in the   *)
(* map.  OID, Type and Length are left out: they are functions of the oid. *)
(* "there" tells an absent document from one whose Nodes map is empty.     *)
(***************************************************************************)
Record == [there: BOOLEAN, nodes: [Node -> Stamp], garbage: BOOLEAN,
           referenced: Stamp]

NoRecord == [there |-> FALSE, nodes |-> [n \in Node |-> Never],
             garbage |-> FALSE, referenced |-> Never]

Owners(d) == {n \in Node : d.nodes[n] # Never}

(***************************************************************************)
(* time.Since(s) < age, at time t.  The zero time is always old.           *)
(***************************************************************************)
Fresh(s, age, t) == s # Never /\ t - s < age

(***************************************************************************)
(* The closure of recordBlobOwnership: n registers itself and clears the   *)
(* garbage mark.  Without force a registration that exists is left alone   *)
(* (UpdateCancel), stamp and garbage mark included.                        *)
(***************************************************************************)
AlreadyKnown(d, n, force) == ~force /\ n \in Owners(d)

\* Mutant: the garbage mark is not taken off.
RecordOwnershipKeepsMark(d, n, t, force) ==
    IF AlreadyKnown(d, n, force)
      THEN d
      ELSE [d EXCEPT !.there = TRUE, !.nodes[n] = t]

AddOwner(d, n, t) ==
    [d EXCEPT !.there = TRUE, !.nodes[n] = t, !.garbage = FALSE]

RecordOwnership(d, n, t, force) ==
    IF AlreadyKnown(d, n, force) THEN d ELSE AddOwner(d, n, t)

(***************************************************************************)
(* The closure of removeBlobOwnershipRecord(h, node) run by server self.   *)
(* The document goes away only when the server removes itself and nobody   *)
(* is left.                                                                *)
(***************************************************************************)
RemoveOwnershipRecord(d, node, self) ==
    LET rest == [d EXCEPT !.nodes[node] = Never]
    IN  IF ~d.there \/ (Owners(rest) = {} /\ node = self) THEN NoRecord
                                                          ELSE rest

(***************************************************************************)
(* The closure of maybeRemoveBlobOwnership run by n, for a document that   *)
(* exists: when it goes ahead, and what it leaves.                         *)
(***************************************************************************)
\* Mutant: the copy that goes away is counted too.
MayRemoveOneMore(d, n, t) ==
    \/ d.garbage
    \/ /\ ~Fresh(d.nodes[n], RemoveGrace, t)
       /\ Cardinality(Owners(d)) >= MinReplicas

MayRemove(d, n, t) ==
    \/ d.garbage
    \/ /\ ~Fresh(d.nodes[n], RemoveGrace, t)
       /\ Cardinality(Owners(d)) - 1 >= MinReplicas

\* Mutant: the delete from the map is only done for the last owner.
RemoveOwnerLast(d, n) == IF Owners(d) \subseteq {n} THEN NoRecord ELSE d

RemoveOwner(d, n) == RemoveOwnershipRecord(d, n, n)

(***************************************************************************)
(* referenceBlob, with the time it read before its SET.                    *)
(***************************************************************************)
ReferenceBlob(d, t) == [d EXCEPT !.referenced = t, !.garbage = FALSE]

(***************************************************************************)
(* markGarbage refuses a blob whose latestReference is recent.             *)
(***************************************************************************)
\* Mutant: latestReference leaves out Referenced.
RecentlyStored(d, t) == \E n \in Node : Fresh(d.nodes[n], GCGrace, t)

RecentlyReferenced(d, t) ==
    \/ Fresh(d.referenced, GCGrace, t)
    \/ \E n \in Node : Fresh(d.nodes[n], GCGrace, t)

MarkGarbage(d) == [d EXCEPT !.garbage = TRUE]

(***************************************************************************)
(* The branch of cleanupNode that only drops the stale node's entry.       *)
(***************************************************************************)
EnoughToDrop(d) == d.garbage \/ Cardinality(Owners(d)) >= MinReplicas

(***************************************************************************)
(* A removal is queued for an owner by the collector (the blob is garbage) *)
(* by pruneBlob (more than MaxReplicas owners) or by moveSomeOffOf (the    *)
(* others are enough); the last condition is the weakest of the two.       *)
(***************************************************************************)
WorthRemoving(d) == d.garbage \/ Cardinality(Owners(d)) - 1 >= MinReplicas

===============================================================================
