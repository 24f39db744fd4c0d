--------------------------- MODULE BlobStoreProofs ---------------------------
(***************************************************************************)
(* Proof of the inductive invariant of BlobStore and of the properties     *)
(* that follow from it, for any number of nodes, blobs, files and          *)
(* handlers, and any clock bound.                                          *)
(***************************************************************************)
EXTENDS BlobStoreSteps, BlobStoreInvariants, FiniteSetTheorems

(***************************************************************************)
(* The count of maybeRemoveBlobOwnership, taken inside its CAS, leaves     *)
(* MinReplicas owners of a blob that is not garbage.                       *)
(***************************************************************************)
LEMMA RemovalFloor ==
    ASSUME TypeOK, NEW o \in Oid
    PROVE  CheckedMove(o)
<1> SUFFICES ASSUME NEW h \in Handler, NEW n \in Node, RemoveChecked(h, n, o)
             PROVE  /\ Removed(n, o)
                    /\ MayRemove(record[o], n, now)
                    /\ ~record[o].garbage =>
                          /\ Cardinality(Owners(record'[o])) >= MinReplicas
                          /\ Owners(record'[o]) # {}
  BY Zenon DEF CheckedMove
<1>1. /\ record[o].there /\ MayRemove(record[o], n, now)
      /\ record'[o] = RemoveOwnershipRecord(record[o], n, n)
  BY Zenon, Wrote DEF RemoveChecked, RemoveOwner
<1>2. Removed(n, o)
  BY Zenon, <1>1, WriteRemoved
<1>3. ASSUME ~record[o].garbage
      PROVE  /\ Cardinality(Owners(record'[o])) >= MinReplicas
             /\ Owners(record'[o]) # {}
  <2>1. PICK O, P : O = Owners(record[o]) /\ P = Owners(record'[o])
    BY Zenon
  <2>2. P = O \ {n}
    BY Zenon, <1>2, <2>1 DEF Removed, Owners
  <2>3. Cardinality(O) - 1 >= MinReplicas
    BY Zenon, <1>1, <1>3, <2>1 DEF MayRemove
  <2>4. IsFiniteSet(O)
    BY Zenon, <2>1, NodeAssumption, FS_Subset DEF Owners
  <2>5. IsFiniteSet(P) /\ Cardinality(P) = IF n \in O THEN Cardinality(O) - 1
                                                     ELSE Cardinality(O)
    BY Zenon, <2>2, <2>4, FS_RemoveElement
  <2>6. Cardinality(O) \in Nat
    BY Zenon, <2>4, FS_CardinalityType
  <2>7. Cardinality(P) >= MinReplicas
    BY <2>3, <2>5, <2>6, ReplicaAssumption
  <2>8. P = {} => Cardinality(P) = 0
    BY Zenon, FS_EmptySet
  <2>9. P # {}
    BY <2>7, <2>8, ReplicaAssumption
  <2> QED
    BY Zenon, <2>1, <2>7, <2>9
<1> QED
  BY Zenon, <1>1, <1>2, <1>3

(***************************************************************************)
(* So every step is one that BlobStoreMoves describes.                     *)
(***************************************************************************)
LEMMA NextMoves ==
    ASSUME TypeOK, Next
    PROVE  Moves
<1>1. Step /\ exposed' = exposed \cup Exposed'
  BY Zenon DEF Next
<1>2. TypeOK'
  BY Zenon, TypeStep
<1> QED
  BY Zenon, <1>1, <1>2, StepMoves, RemovalFloor DEF Moves

-------------------------------------------------------------------------------
(***************************************************************************)
(* The empty cluster satisfies the invariant.                              *)
(***************************************************************************)
LEMMA InvInit == Init => Inv
<1> SUFFICES ASSUME Init PROVE Inv
  BY Zenon
<1> USE TimingAssumption, GraceAssumption DEF Init
<1>0. /\ \A h \in Handler : Fields(op[h], "idle", None, None, None, "none", 0)
      /\ \A o \in Oid : /\ record[o] = NoRecord
                        /\ Owners(record[o]) = {}
                        /\ ~record[o].garbage
                        /\ record[o].referenced = Never
                        /\ \A n \in Node : record[o].nodes[n] = Never
  BY Zenon, IdleFields DEF NoRecord, Owners
<1>1. TypeOK
  <2>1. NoRecord \in Record
    BY Zenon DEF NoRecord, Record, Stamp, Never
  <2>2. Idle \in Op /\ Shape(Idle)
    BY Zenon DEF Idle, Op, Pc, Second, Time, Shape, PutPc, LinkPc, ServerPc, TargetPc
  <2> QED
    BY Zenon, <2>1, <2>2 DEF TypeOK, Stamp, Time
<1>2. PinsLinked
  BY Zenon DEF PinsLinked
<1>3. ClockInv
  BY <1>0 DEF ClockInv, Timely, Fields, Never
<1>4. RunsUp
  BY Zenon, <1>0 DEF RunsUp, RunsOn, Fields, PutPc, ServerPc
<1>5. CopyInv
  BY <1>0 DEF CopyInv, Exposed, RegisteredOnDisk, Storing, Dropping, Blind, Fields
<1>6. GarbageIsOld /\ CasInv
  BY Zenon, <1>0 DEF GarbageIsOld, CasInv
<1>7. ReferenceInv
  BY Zenon, <1>0 DEF ReferenceInv, Securing, Secured, Pinned, Fields
<1> QED
  BY <1>1, <1>2, <1>3, <1>4, <1>5, <1>6, <1>7 DEF Inv, PinsLinked

(***************************************************************************)
(* Every step keeps the invariant.                                         *)
(***************************************************************************)
LEMMA InvNext == Inv /\ [Next]_vars => Inv'
<1> SUFFICES ASSUME Inv, [Next]_vars PROVE Inv'
  BY Zenon
<1>1. CASE Next
  <2>0. /\ TypeOK /\ ClockInv /\ RunsUp /\ CopyInv /\ GarbageIsOld /\ CasInv
        /\ ReferenceInv /\ PinsLinked
    BY Zenon, <1>1 DEF Inv, PinsLinked
  <2>1. Moves
    BY Zenon, <1>1, <2>0, NextMoves
  <2>2. TypeOK' /\ PinsLinked'
    BY Zenon, <2>0, <2>1 DEF Moves, PinMove
  <2>3. ClockInv' /\ RunsUp'
    BY Zenon, <2>0, <2>1, ClockStep, RunsStep
  <2>4. CopyInv'
    BY Zenon, <2>0, <2>1, CopyStep
  <2>5. GarbageIsOld' /\ CasInv'
    BY Zenon, <2>0, <2>1, CasStep
  <2>6. Steady
    BY Zenon, <2>0, <2>1, <2>3, <2>4, <2>5 DEF Steady
  <2>7. ReferenceInv'
    BY Zenon, <2>6, ReferenceStep
  <2> QED
    BY Zenon, <2>2, <2>3, <2>4, <2>5, <2>7 DEF Inv, PinsLinked
<1>2. CASE UNCHANGED vars
  <2> USE <1>2 DEF vars
  <2>1. TypeOK' /\ \A f \in File : pinned'[f] \subseteq meta'[f]
    BY Zenon DEF Inv, TypeOK
  <2>2. ClockInv'
    BY Zenon DEF Inv, ClockInv, Timely
  <2>3. RunsUp'
    BY Zenon DEF Inv, RunsUp, RunsOn, Up
  <2>4. CopyInv'
    <3>1. \A h \in Handler, n \in Node, o \in Oid :
             /\ Storing(h, n, o)' <=> Storing(h, n, o)
             /\ Dropping(h, n, o)' <=> Dropping(h, n, o)
             /\ Blind(h, n, o)' <=> Blind(h, n, o)
      BY DEF Storing, Dropping, Blind
    <3>2. Exposed' = Exposed
      BY <3>1 DEF Exposed
    <3>3. RegisteredOnDisk'
      BY Zenon DEF Inv, CopyInv, RegisteredOnDisk
    <3> QED
      BY Zenon, <3>1, <3>2, <3>3 DEF Inv, CopyInv
  <2>5. GarbageIsOld' /\ CasInv'
    BY Zenon DEF Inv, GarbageIsOld, CasInv
  <2>6. ReferenceInv'
    <3>1. \A o \in Oid :
             /\ ExposedBlob(o)' <=> ExposedBlob(o)
             /\ Pinned(o)' <=> Pinned(o)
             /\ SafeCopies(o)' = SafeCopies(o)
             /\ \A h \in Handler : Securing(h, o)' <=> Securing(h, o)
      BY Zenon DEF ExposedBlob, Pinned, SafeCopies, Securing
    <3>2. \A o \in Oid : Secured(o)' <=> Secured(o)
      BY Zenon, <3>1 DEF Secured
    <3> QED
      BY Zenon, <3>1, <3>2 DEF Inv, ReferenceInv
  <2> QED
    BY Zenon, <2>1, <2>2, <2>3, <2>4, <2>5, <2>6 DEF Inv
<1> QED
  BY Zenon, <1>1, <1>2

-------------------------------------------------------------------------------
(***************************************************************************)
(* The inductive invariant holds in every reachable state.                 *)
(***************************************************************************)
THEOREM Invariance == Spec => []Inv
  BY InvInit, InvNext, PTL DEF Spec

(***************************************************************************)
(* Type correctness, and that only referenceBlob and markGarbage hold a    *)
(* CAS that may still be good.                                             *)
(***************************************************************************)
THEOREM TypeCorrect == Spec => []TypeOK
<1>1. Inv => TypeOK
  BY Zenon DEF Inv
<1> QED
  BY <1>1, Invariance, PTL

(***************************************************************************)
(* A registered owner has the file, except where a store and a removal of  *)
(* the blob overlapped at that node or a removal went unchecked.           *)
(***************************************************************************)
THEOREM OwnersHaveFile == Spec => []RegisteredOnDisk
<1>1. Inv => RegisteredOnDisk
  BY Zenon DEF Inv, CopyInv
<1> QED
  BY <1>1, Invariance, PTL

(***************************************************************************)
(* markGarbage's mark is never on a blob stored or linked within its grace *)
(* period.                                                                 *)
(***************************************************************************)
THEOREM GarbageOld == Spec => []GarbageIsOld
<1>1. Inv => GarbageIsOld
  BY Zenon DEF Inv
<1> QED
  BY <1>1, Invariance, PTL

(***************************************************************************)
(* garbageCollectBlobs never condemns a blob that a secured link refers    *)
(* to, whatever the age of its view, as long as links and collections are  *)
(* as fast as TimingAssumption says.                                       *)
(***************************************************************************)
THEOREM PinnedNotGarbage == Spec => []NoGarbagePinned
<1>1. Inv => NoGarbagePinned
  BY Zenon DEF Inv, ReferenceInv, Secured, NoGarbagePinned
<1> QED
  BY <1>1, Invariance, PTL

(***************************************************************************)
(* A blob that a secured link refers to is on some disk from which nobody  *)
(* is about to remove it.                                                  *)
(***************************************************************************)
THEOREM PinnedKept == Spec => []PinnedSafe
<1>1. Inv => PinnedSafe
  BY Zenon DEF Inv, ReferenceInv, Secured, PinnedSafe
<1> QED
  BY <1>1, Invariance, PTL

(***************************************************************************)
(* Concurrent removeObject calls never leave fewer than MinReplicas safe   *)
(* copies of a blob that is not garbage.                                   *)
(***************************************************************************)
THEOREM RemovalKeepsFloor == Spec => CopyFloor
<1> DEFINE Floor ==
      \A o \in Oid :
         SafeCopies(o)' \subseteq SafeCopies(o) /\ SafeCopies(o)' # SafeCopies(o)
           => \/ record[o].garbage
              \/ ExposedBlob(o)'
              \/ Cardinality(SafeCopies(o)') >= MinReplicas
<1>1. ASSUME Inv, Inv', Next PROVE Floor
  <2> SUFFICES ASSUME NEW o \in Oid, SafeCopies(o)' \subseteq SafeCopies(o),
                      SafeCopies(o)' # SafeCopies(o),
                      ~record[o].garbage, ~ExposedBlob(o)'
               PROVE  Cardinality(SafeCopies(o)') >= MinReplicas
    BY Zenon
  <2>1. Moves /\ CopyInv /\ CopyInv'
    BY Zenon, <1>1, NextMoves DEF Inv
  <2>2. PICK n \in Node : n \in SafeCopies(o) /\ n \notin SafeCopies(o)'
    BY Zenon DEF SafeCopies
  <2>3. PICK h \in Handler : RemoveChecked(h, n, o)
    BY Zenon, <2>1, <2>2, LostCopy
  <2>4. Cardinality(Owners(record'[o])) >= MinReplicas
    BY Zenon, <2>1, <2>3 DEF Moves, CheckedMove
  <2>5. Owners(record'[o]) \subseteq SafeCopies(o)'
    BY Zenon, <2>1, OwnersSafe
  <2>6. IsFiniteSet(SafeCopies(o)')
    <3>1. SafeCopies(o)' \subseteq Node
      BY Zenon DEF SafeCopies
    <3> QED
      BY Zenon, <3>1, NodeAssumption, FS_Subset
  <2>7. /\ Cardinality(Owners(record'[o])) <= Cardinality(SafeCopies(o)')
        /\ IsFiniteSet(Owners(record'[o]))
    BY Zenon, <2>5, <2>6, FS_Subset
  <2>8. /\ Cardinality(Owners(record'[o])) \in Nat
        /\ Cardinality(SafeCopies(o)') \in Nat
    BY Zenon, <2>6, <2>7, FS_CardinalityType
  <2> QED
    BY <2>4, <2>7, <2>8, ReplicaAssumption
<1>2. Inv /\ Inv' /\ [Next]_vars => [Floor]_vars
  BY Zenon, <1>1
<1> QED
  BY <1>2, Invariance, PTL DEF Spec, CopyFloor

===============================================================================
