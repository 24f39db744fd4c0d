------------------------- MODULE BlobStoreInvariants -------------------------
(***************************************************************************)
(* Every step of BlobStore keeps its type invariant, and whatever moves    *)
(* BlobStore as Moves says keeps each part of its inductive invariant.     *)
(***************************************************************************)
EXTENDS BlobStoreMoves, TLAPS

(***************************************************************************)
(* What the type invariant says of the stores, and of a handler.           *)
(***************************************************************************)
LEMMA Typed ==
    ASSUME TypeOK
    PROVE  /\ record \in [Oid -> Record] /\ disk \in [Node -> SUBSET Oid]
           /\ meta \in [File -> SUBSET Oid] /\ pinned \in [File -> SUBSET Oid]
           /\ now \in Time
  BY Zenon DEF TypeOK

LEMMA Shaped ==
    ASSUME TypeOK, NEW h \in Handler
    PROVE  /\ op[h] \in Op /\ Shape(op[h])
           /\ op[h].pc \notin {"linkGot", "gcMarking"} => h \notin current
  BY Zenon DEF TypeOK

(***************************************************************************)
(* What a well-shaped handler works on.                                    *)
(***************************************************************************)
LEMMA WorksOn ==
    ASSUME NEW r \in Op, Shape(r)
    PROVE  /\ r.pc \in PutPc \cup ServerPc \cup TargetPc => r.node \in Node /\ r.oid \in Oid
           /\ r.pc \in PutPc \cup LinkPc => r.file \in File /\ r.oid \in Oid
           /\ r.second # "none" => r.pc \in PutPc /\ r.peer \in Node /\ r.oid \in Oid
           /\ r.at \in Time
  BY Zenon DEF Op, Shape, PutPc, LinkPc, ServerPc, TargetPc

(***************************************************************************)
(* The closures of BlobRecord map records to records.                      *)
(***************************************************************************)
LEMMA RecordTypes ==
    ASSUME NEW d \in Record, NEW n \in Node, NEW t \in Time,
           NEW self, NEW force \in BOOLEAN
    PROVE  /\ NoRecord \in Record
           /\ RecordOwnership(d, n, t, force) \in Record
           /\ RemoveOwnershipRecord(d, n, self) \in Record
           /\ RemoveOwner(d, n) \in Record
           /\ ReferenceBlob(d, t) \in Record
           /\ MarkGarbage(d) \in Record
<1>1. NoRecord \in Record
  BY Zenon DEF NoRecord, Record, Stamp
<1>2. RecordOwnership(d, n, t, force) \in Record
  BY Zenon DEF RecordOwnership, AddOwner, Record, Stamp
<1>3. ASSUME NEW s PROVE RemoveOwnershipRecord(d, n, s) \in Record
  BY Zenon, <1>1 DEF RemoveOwnershipRecord, Record, Stamp
<1>4. ReferenceBlob(d, t) \in Record /\ MarkGarbage(d) \in Record
  BY Zenon DEF ReferenceBlob, MarkGarbage, Record, Stamp
<1> QED
  BY Zenon, <1>1, <1>2, <1>3, <1>4 DEF RemoveOwner

(***************************************************************************)
(* Every closure that a step hands to Couchbase leaves a record, and hands *)
(* out no CAS.                                                             *)
(***************************************************************************)
LEMMA WriteType ==
    ASSUME TypeOK, NEW o \in Oid, NEW d \in Record, Write(o, d)
    PROVE  record' \in [Oid -> Record] /\ current' \subseteq current
  BY Zenon, Typed DEF Write

LEMMA WriteTypes ==
    ASSUME TypeOK, NEW o \in Oid, NEW n \in Node, NEW self, NEW force \in BOOLEAN,
           NEW t \in Time,
           \/ Register(o, n, force)
           \/ Deregister(o, n, self)
           \/ Write(o, RemoveOwner(record[o], n))
           \/ Write(o, ReferenceBlob(record[o], t))
           \/ Write(o, MarkGarbage(record[o]))
    PROVE  record' \in [Oid -> Record] /\ current' \subseteq current
<1>1. record[o] \in Record /\ now \in Time /\ record \in [Oid -> Record]
  BY Zenon, Typed
<1>2. ASSUME NEW d \in Record, Write(o, d)
      PROVE  record' \in [Oid -> Record] /\ current' \subseteq current
  BY Zenon, <1>2, WriteType
<1>3. CASE UNCHANGED <<record, current>>
  BY Zenon, <1>1, <1>3
<1>4. CASE Write(o, RecordOwnership(record[o], n, now, force))
  BY Zenon, <1>1, <1>2, <1>4, RecordTypes
<1>5. CASE Write(o, RemoveOwnershipRecord(record[o], n, self))
  BY Zenon, <1>1, <1>2, <1>5, RecordTypes
<1>6. CASE Write(o, RemoveOwner(record[o], n)) \/ Write(o, ReferenceBlob(record[o], t))
           \/ Write(o, MarkGarbage(record[o]))
  BY Zenon, <1>1, <1>2, <1>6, RecordTypes
<1> QED
  BY Zenon, <1>3, <1>4, <1>5, <1>6 DEF Register, Deregister

-------------------------------------------------------------------------------
(***************************************************************************)
(* Exposed holds copies.                                                   *)
(***************************************************************************)
LEMMA ExposedType ==
    ASSUME TypeOK, exposed' = exposed \cup Exposed'
    PROVE  exposed' \subseteq Node \X Oid
  BY Zenon DEF TypeOK, Exposed

(***************************************************************************)
(* A step of handler h that writes well-typed values leaves TypeOK true.   *)
(***************************************************************************)
LEMMA TypeMove ==
    ASSUME TypeOK, NEW h \in Handler, NEW new \in Op, Shape(new), Continue(h, new),
           record' \in [Oid -> Record], disk' \in [Node -> SUBSET Oid],
           meta' \in [File -> SUBSET Oid], pinned' \in [File -> SUBSET Oid],
           current' \subseteq current \cup {h},
           h \in current' => new.pc \in {"linkGot", "gcMarking"},
           UNCHANGED <<downAt, now>>, exposed' = exposed \cup Exposed'
    PROVE  TypeOK'
<1>1. op' \in [Handler -> Op] /\ \A g \in Handler : op'[g] = IF g = h THEN new ELSE op[g]
  BY Zenon DEF TypeOK, Continue
<1>2. \A g \in Handler : Shape(op'[g])
  BY Zenon, <1>1, Shaped
<1>3. current' \subseteq {g \in Handler : op'[g].pc \in {"linkGot", "gcMarking"}}
  BY Zenon, <1>1 DEF TypeOK
<1>4. exposed' \subseteq Node \X Oid
  BY Zenon, ExposedType
<1> QED
  BY Zenon, <1>1, <1>2, <1>3, <1>4 DEF TypeOK, Shape

(***************************************************************************)
(* So does one that does nothing but change the handler, and one that      *)
(* writes the record, or a disk.                                           *)
(***************************************************************************)
LEMMA PlainMove ==
    ASSUME TypeOK, NEW h \in Handler, NEW new \in Op, Shape(new), Continue(h, new),
           h \notin current, UNCHANGED <<record, disk, meta, pinned, current, downAt, now>>,
           exposed' = exposed \cup Exposed'
    PROVE  TypeOK'
  BY Zenon, Typed, TypeMove

LEMMA RecordingMove ==
    ASSUME TypeOK, NEW h \in Handler, NEW new \in Op, Shape(new), Continue(h, new),
           h \notin current', record' \in [Oid -> Record] /\ current' \subseteq current,
           UNCHANGED <<disk, meta, pinned, downAt, now>>,
           exposed' = exposed \cup Exposed'
    PROVE  TypeOK'
  BY Zenon, Typed, TypeMove

LEMMA DiskingMove ==
    ASSUME TypeOK, NEW h \in Handler, NEW new \in Op, Shape(new), Continue(h, new),
           h \notin current, disk' \in [Node -> SUBSET Oid],
           UNCHANGED <<record, meta, pinned, current, downAt, now>>,
           exposed' = exposed \cup Exposed'
    PROVE  TypeOK'
  BY Zenon, Typed, TypeMove

LEMMA PlaceType ==
    ASSUME TypeOK, NEW n \in Node, NEW o \in Oid,
           Place(n, o) \/ disk' = [disk EXCEPT ![n] = @ \ {o}]
    PROVE  disk' \in [Node -> SUBSET Oid]
  BY Zenon, Typed DEF Place

LEMMA MetaMove ==
    ASSUME TypeOK, NEW h \in Handler, h \notin current, Continue(h, Idle),
           Idle \in Op, Shape(Idle), NEW f \in File, NEW o \in Oid,
           NEW kept \in SUBSET Oid, NEW secured \in BOOLEAN, StoreMeta(f, o, kept, secured),
           UNCHANGED <<record, disk, current, downAt, now>>,
           exposed' = exposed \cup Exposed'
    PROVE  TypeOK'
<1>1. meta' \in [File -> SUBSET Oid] /\ pinned' \in [File -> SUBSET Oid]
  BY Zenon, Typed DEF StoreMeta
<1> QED
  BY Zenon, <1>1, Typed, TypeMove

-------------------------------------------------------------------------------
(***************************************************************************)
(* What a handler starts with is well typed.                               *)
(***************************************************************************)
LEMMA IdleType == Idle \in Op /\ Shape(Idle) /\ Idle.pc = "idle"
  BY Zenon DEF Idle, Op, Shape, Pc, PutPc, LinkPc, ServerPc, TargetPc, Second, Time

LEMMA AtTypes ==
    ASSUME NEW pc \in ServerPc \cup TargetPc, NEW n \in Node, NEW o \in Oid
    PROVE  /\ At(pc, n, o) \in Op /\ Shape(At(pc, n, o))
           /\ \A p \in Node \cup {None} : /\ [At(pc, n, o) EXCEPT !.peer = p] \in Op
                                         /\ Shape([At(pc, n, o) EXCEPT !.peer = p])
           /\ \A t \in Time : /\ [At(pc, n, o) EXCEPT !.at = t] \in Op
                            /\ Shape([At(pc, n, o) EXCEPT !.at = t])
<1>1. PICK r : r = At(pc, n, o)
  BY Zenon
<1>2. r = [pc |-> pc, node |-> n, oid |-> o, file |-> None, peer |-> None,
           second |-> "none", at |-> 0]
  BY Zenon, <1>1 DEF At, Idle
<1>3. r \in Op /\ Shape(r) /\ r.pc = pc /\ r.second = "none" /\ r.node = n /\ r.oid = o
  BY Zenon, <1>2 DEF Op, Shape, Pc, PutPc, LinkPc, ServerPc, TargetPc, Second, Time
<1>4. pc \notin PutPc \cup LinkPc
  BY Zenon DEF PutPc, LinkPc, ServerPc, TargetPc
<1>5. ASSUME NEW p \in Node \cup {None}
      PROVE  [r EXCEPT !.peer = p] \in Op /\ Shape([r EXCEPT !.peer = p])
  BY Zenon, <1>3, <1>4 DEF Op, Shape
<1>6. ASSUME NEW t \in Time
      PROVE  [r EXCEPT !.at = t] \in Op /\ Shape([r EXCEPT !.at = t])
  BY Zenon, <1>3, <1>4 DEF Op, Shape
<1> QED
  BY Zenon, <1>1, <1>3, <1>5, <1>6

(***************************************************************************)
(* A handler stays well typed as it goes on to another point of the same   *)
(* request.                                                                *)
(***************************************************************************)
LEMMA PcType ==
    ASSUME NEW r \in Op, Shape(r), NEW p, NEW t \in Time,
           \/ r.pc \in PutPc /\ p \in PutPc
           \/ r.pc \in LinkPc /\ p \in LinkPc
           \/ r.pc \in ServerPc /\ p \in ServerPc
           \/ r.pc \in TargetPc /\ p \in TargetPc
    PROVE  /\ [r EXCEPT !.pc = p] \in Op /\ Shape([r EXCEPT !.pc = p])
           /\ [r EXCEPT !.pc = p, !.at = t] \in Op
           /\ Shape([r EXCEPT !.pc = p, !.at = t])
<1>1. ASSUME NEW s, s = [r EXCEPT !.pc = p] \/ s = [r EXCEPT !.pc = p, !.at = t]
      PROVE  /\ s \in Op /\ s.pc = p
             /\ s.node = r.node /\ s.oid = r.oid /\ s.file = r.file
             /\ s.peer = r.peer /\ s.second = r.second
  BY Zenon, <1>1 DEF Op, Pc
<1>2. ASSUME NEW s, s.pc = p,
             s.node = r.node /\ s.oid = r.oid /\ s.file = r.file
               /\ s.peer = r.peer /\ s.second = r.second
      PROVE  Shape(s)
  BY Zenon, <1>2 DEF Shape, PutPc, LinkPc, ServerPc, TargetPc
<1> QED
  BY Zenon, <1>1, <1>2

LEMMA SecondType ==
    ASSUME NEW r \in Op, Shape(r), r.second # "none", NEW s \in Second
    PROVE  [r EXCEPT !.second = s] \in Op /\ Shape([r EXCEPT !.second = s])
  BY Zenon DEF Op, Shape

LEMMA StartType ==
    ASSUME TypeOK, NEW h \in Handler, NEW new, Start(h, new)
    PROVE  Continue(h, new) /\ h \notin current
  BY Zenon, Shaped, IdleType DEF Start, Continue

(***************************************************************************)
(* What is left of a handler that has fetched a blob, ends early, or whose *)
(* server goes down, is well typed.                                        *)
(***************************************************************************)
LEMMA FetchedType ==
    ASSUME NEW r \in Op, Shape(r), r.pc \in ServerPc
    PROVE  Fetched(r) \in Op /\ Shape(Fetched(r))
<1>1. r.oid \in Oid /\ r.peer \in Node \cup {None} /\ 0 \in Time
  BY Zenon, WorksOn DEF Op, Time
<1>2. "moved" \in ServerPc \cup TargetPc
  BY Zenon DEF TargetPc
<1> QED
  BY Zenon, <1>1, <1>2, IdleType, AtTypes DEF Fetched

LEMMA AbortTypes ==
    ASSUME TypeOK, NEW h \in Handler
    PROVE  /\ Aborted(op[h]) \in Op
           /\ Shape(Aborted(op[h]))
           /\ \A n \in Node : /\ CrashedOp(op[h], n) \in Op
                              /\ Shape(CrashedOp(op[h], n))
<1>1. op[h] \in Op /\ Shape(op[h])
  BY Zenon, Shaped
<1>2. op[h].second = "stored" => op[h].peer \in Node /\ op[h].oid \in Oid
  BY Zenon, <1>1, WorksOn
<1>3. "posted" \in ServerPc \cup TargetPc /\ 0 \in Time /\ "failed" \in Second
  BY Zenon DEF ServerPc, Time, Second
<1>4. Aborted(op[h]) \in Op /\ Shape(Aborted(op[h]))
  BY Zenon, <1>2, <1>3, IdleType, AtTypes DEF Aborted
<1>5. op[h].second \in {"sent", "stored"} => /\ [op[h] EXCEPT !.second = "failed"] \in Op
                                             /\ Shape([op[h] EXCEPT !.second = "failed"])
  BY Zenon, <1>1, <1>3, SecondType
<1> QED
  BY Zenon, <1>1, <1>4, <1>5 DEF CrashedOp

-------------------------------------------------------------------------------
(***************************************************************************)
(* The steps of a client's request keep TypeOK.                            *)
(***************************************************************************)
LEMMA ClientTypes ==
    ASSUME TypeOK, NEW h \in Handler, ClientStep(h), exposed' = exposed \cup Exposed'
    PROVE  TypeOK'
<1>1. /\ op[h] \in Op /\ Shape(op[h])
      /\ op[h].pc \notin {"linkGot", "gcMarking"} => h \notin current
  BY Zenon, Shaped
<1>2. /\ op[h].pc \in PutPc \cup ServerPc \cup TargetPc =>
            op[h].node \in Node /\ op[h].oid \in Oid
      /\ op[h].pc \in PutPc \cup LinkPc => op[h].file \in File /\ op[h].oid \in Oid
      /\ op[h].second # "none" => op[h].pc \in PutPc /\ op[h].peer \in Node /\ op[h].oid \in Oid
      /\ op[h].at \in Time
  BY Zenon, <1>1, WorksOn
<1>3. now \in Time /\ 0 \in Time /\ TRUE \in BOOLEAN /\ FALSE \in BOOLEAN
  BY Zenon, Typed DEF Time
<1>4. ASSUME NEW n \in Node, NEW f \in File, NEW o \in Oid, NEW m \in Node \cup {None},
             PutStart(h, n, f, o, m)
      PROVE  TypeOK'
  <2>1. PICK new : new = [At("putting", n, o) EXCEPT !.file = f, !.peer = m,
                            !.second = IF m = None THEN "none" ELSE "sent"]
    BY Zenon
  <2>2. new = [pc |-> "putting", node |-> n, oid |-> o, file |-> f, peer |-> m,
               second |-> IF m = None THEN "none" ELSE "sent", at |-> 0]
    BY Zenon, <2>1 DEF At, Idle
  <2>3. new \in Op
    BY Zenon, <2>2 DEF Op, Pc, PutPc, Second, Time
  <2>4. Shape(new)
    BY Zenon, <1>4, <2>2, NoneAssumption DEF PutStart, Shape, PutPc, LinkPc, ServerPc,
       TargetPc
  <2> QED
    BY Zenon, <1>4, <2>1, <2>3, <2>4, StartType, PlainMove DEF PutStart
<1>5. ASSUME PutStore(h) PROVE TypeOK'
  <2>1. op[h].pc \in PutPc /\ "putStored" \in PutPc /\ h \notin current
    BY Zenon, <1>5, <1>1 DEF PutStore, PutPc
  <2>2. [op[h] EXCEPT !.pc = "putStored"] \in Op /\ Shape([op[h] EXCEPT !.pc = "putStored"])
    BY Zenon, <1>1, <1>3, <2>1, PcType
  <2>3. disk' \in [Node -> SUBSET Oid]
    BY Zenon, <1>5, <1>2, <2>1, PlaceType DEF PutStore
  <2> QED
    BY Zenon, <1>5, <2>1, <2>2, <2>3, DiskingMove DEF PutStore
<1>6. ASSUME PutRecord(h) PROVE TypeOK'
  <2>1. op[h].oid \in Oid /\ op[h].node \in Node /\ h \notin current
    BY Zenon, <1>6, <1>1, <1>2 DEF PutRecord, PutPc, ServerPc, TargetPc
  <2>2. record' \in [Oid -> Record] /\ current' \subseteq current
    BY Zenon, <1>6, <1>3, <2>1, WriteTypes DEF PutRecord
  <2>3. /\ [op[h] EXCEPT !.pc = "putRecorded", !.at = now] \in Op
        /\ Shape([op[h] EXCEPT !.pc = "putRecorded", !.at = now])
    <3>1. op[h].pc \in PutPc /\ "putRecorded" \in PutPc
      BY Zenon, <1>6 DEF PutRecord, PutPc
    <3> QED
      BY Zenon, <1>1, <1>3, <3>1, PcType
  <2> QED
    BY Zenon, <1>6, <2>1, <2>2, <2>3, RecordingMove DEF PutRecord
<1>7. ASSUME PutLink(h) PROVE TypeOK'
  <2>1. op[h].oid \in Oid /\ op[h].file \in File /\ h \notin current
    BY Zenon, <1>7, <1>1, <1>2 DEF PutLink, PutPc
  <2>2. PICK kept \in SUBSET meta[op[h].file] : StoreMeta(op[h].file, op[h].oid, kept, TRUE)
    BY Zenon, <1>7 DEF PutLink
  <2>3. kept \in SUBSET Oid
    BY Zenon, <2>1, <2>2, Typed
  <2> QED
    BY Zenon, <1>7, <1>3, <2>1, <2>2, <2>3, IdleType, MetaMove DEF PutLink
<1>8. ASSUME PeerStore(h) PROVE TypeOK'
  <2>1. /\ op[h].second # "none" /\ op[h].peer \in Node /\ op[h].oid \in Oid
        /\ h \notin current /\ "stored" \in Second
    BY Zenon, <1>8, <1>1, <1>2 DEF PeerStore, PutPc, Second
  <2>2. [op[h] EXCEPT !.second = "stored"] \in Op /\ Shape([op[h] EXCEPT !.second = "stored"])
    BY Zenon, <1>1, <2>1, SecondType
  <2>3. disk' \in [Node -> SUBSET Oid]
    BY Zenon, <1>8, <2>1, PlaceType DEF PeerStore
  <2> QED
    BY Zenon, <1>8, <2>1, <2>2, <2>3, DiskingMove DEF PeerStore
<1>9. ASSUME PeerRecord(h) PROVE TypeOK'
  <2>1. /\ op[h].second # "none" /\ op[h].peer \in Node /\ op[h].oid \in Oid
        /\ h \notin current /\ "ok" \in Second
    BY Zenon, <1>9, <1>1, <1>2 DEF PeerRecord, PutPc, Second
  <2>2. [op[h] EXCEPT !.second = "ok"] \in Op /\ Shape([op[h] EXCEPT !.second = "ok"])
    BY Zenon, <1>1, <2>1, SecondType
  <2>3. record' \in [Oid -> Record] /\ current' \subseteq current
    BY Zenon, <1>9, <1>3, <2>1, WriteTypes DEF PeerRecord
  <2> QED
    BY Zenon, <1>9, <2>1, <2>2, <2>3, RecordingMove DEF PeerRecord
<1>10. ASSUME PeerFail(h) PROVE TypeOK'
  <2>1. /\ op[h].second # "none" /\ op[h].peer \in Node /\ op[h].oid \in Oid
        /\ h \notin current /\ "failed" \in Second
    BY Zenon, <1>10, <1>1, <1>2 DEF PeerFail, PutPc, Second
  <2>2. [op[h] EXCEPT !.second = "failed"] \in Op /\ Shape([op[h] EXCEPT !.second = "failed"])
    BY Zenon, <1>1, <2>1, SecondType
  <2> QED
    BY Zenon, <1>10, <2>1, <2>2, PlainMove DEF PeerFail
<1>11. ASSUME NEW n \in Node, NEW o \in Oid, PostStore(h, n, o) PROVE TypeOK'
  <2>1. "posted" \in ServerPc \cup TargetPc
    BY Zenon DEF ServerPc, TargetPc
  <2>2. At("posted", n, o) \in Op /\ Shape(At("posted", n, o))
    BY Zenon, <2>1, AtTypes
  <2>3. disk' \in [Node -> SUBSET Oid]
    BY Zenon, <1>11, PlaceType DEF PostStore
  <2> QED
    BY Zenon, <1>11, <2>2, <2>3, StartType, DiskingMove DEF PostStore
<1>12. ASSUME PostRecord(h) PROVE TypeOK'
  <2>1. op[h].oid \in Oid /\ op[h].node \in Node /\ h \notin current
    BY Zenon, <1>12, <1>1, <1>2 DEF PostRecord, PutPc, ServerPc, TargetPc
  <2>2. record' \in [Oid -> Record] /\ current' \subseteq current
    BY Zenon, <1>12, <1>3, <2>1, WriteTypes DEF PostRecord
  <2>3. Fetched(op[h]) \in Op /\ Shape(Fetched(op[h]))
    <3>1. op[h].pc \in ServerPc
      BY Zenon, <1>12 DEF PostRecord, ServerPc
    <3> QED
      BY Zenon, <1>1, <3>1, FetchedType
  <2> QED
    BY Zenon, <1>12, <2>1, <2>2, <2>3, RecordingMove DEF PostRecord
<1>13. ASSUME NEW f \in File, NEW o \in Oid, LinkGet(h, f, o) PROVE TypeOK'
  <2>1. PICK p : p = IF record[o].there THEN "linkGot" ELSE "linkUnsafe"
    BY Zenon
  <2>2. PICK new : new = [At(p, None, o) EXCEPT !.file = f, !.at = now]
    BY Zenon
  <2>3. new = [pc |-> p, node |-> None, oid |-> o, file |-> f, peer |-> None,
               second |-> "none", at |-> now]
    BY Zenon, <2>2 DEF At, Idle
  <2>4. new \in Op
    BY Zenon, <1>3, <2>1, <2>3 DEF Op, Pc, LinkPc, Second
  <2>5. Shape(new) /\ new.pc = p
    BY Zenon, <2>1, <2>3 DEF Shape, PutPc, LinkPc, ServerPc, TargetPc
  <2>6. Start(h, new)
    BY Zenon, <1>13, <2>1, <2>2 DEF LinkGet
  <2>7. Continue(h, new) /\ h \notin current
    BY Zenon, <2>6, StartType
  <2>8. current' \subseteq current \cup {h} /\ (h \in current' => new.pc \in {"linkGot", "gcMarking"})
    BY Zenon, <1>13, <2>1, <2>5, <2>7 DEF LinkGet
  <2> QED
    BY Zenon, <1>13, <2>4, <2>5, <2>7, <2>8, Typed, TypeMove DEF LinkGet
<1>14. ASSUME LinkSet(h) PROVE TypeOK'
  <2>1. op[h].pc \in LinkPc /\ op[h].oid \in Oid
    BY Zenon, <1>14, <1>2 DEF LinkSet, LinkPc
  <2>2. PICK p : p = IF h \in current /\ Owners(record[op[h].oid]) # {} THEN "linked"
                                                                   ELSE "linkUnsafe"
    BY Zenon
  <2>3. p \in LinkPc
    BY Zenon, <2>2 DEF LinkPc
  <2>4. [op[h] EXCEPT !.pc = p] \in Op /\ Shape([op[h] EXCEPT !.pc = p])
    BY Zenon, <1>1, <1>3, <2>1, <2>3, PcType
  <2>5. Continue(h, [op[h] EXCEPT !.pc = p])
    BY Zenon, <1>14, <2>2 DEF LinkSet
  <2>6. IF h \in current THEN Write(op[h].oid, ReferenceBlob(record[op[h].oid], op[h].at))
                         ELSE UNCHANGED <<record, current>>
    BY Zenon, <1>14 DEF LinkSet
  <2>7. record' \in [Oid -> Record] /\ current' \subseteq current
    <3>1. record[op[h].oid] \in Record /\ record \in [Oid -> Record]
      BY Zenon, <2>1, Typed
    <3>2. CASE h \in current
      <4>1. ReferenceBlob(record[op[h].oid], op[h].at) \in Record
        BY Zenon, <1>2, <3>1 DEF ReferenceBlob, Record, Stamp
      <4> QED
        BY Zenon, <2>1, <2>6, <3>2, <4>1, WriteType
    <3> QED
      BY Zenon, <2>6, <3>1, <3>2
  <2>8. h \notin current'
    BY Zenon, <2>6, <2>1 DEF Write
  <2> QED
    BY Zenon, <1>14, <2>4, <2>5, <2>7, <2>8, RecordingMove DEF LinkSet
<1>15. ASSUME LinkStore(h) PROVE TypeOK'
  <2>1. op[h].oid \in Oid /\ op[h].file \in File /\ h \notin current
    BY Zenon, <1>15, <1>1, <1>2 DEF LinkStore, LinkPc
  <2>2. PICK older \in SUBSET Oid :
           StoreMeta(op[h].file, op[h].oid, older, op[h].pc = "linked")
    BY Zenon, <1>15 DEF LinkStore
  <2>3. (op[h].pc = "linked") \in BOOLEAN
    BY Zenon
  <2> QED
    BY Zenon, <1>15, <2>1, <2>2, <2>3, IdleType, MetaMove DEF LinkStore
<1> QED
  BY Zenon, <1>4, <1>5, <1>6, <1>7, <1>8, <1>9, <1>10, <1>11, <1>12, <1>13, <1>14,
     <1>15 DEF ClientStep

(***************************************************************************)
(* The steps of repair keep TypeOK.                                        *)
(***************************************************************************)
LEMMA RepairTypes ==
    ASSUME TypeOK, NEW h \in Handler, RepairStep(h), exposed' = exposed \cup Exposed'
    PROVE  TypeOK'
<1>1. /\ op[h] \in Op /\ Shape(op[h])
      /\ op[h].pc \notin {"linkGot", "gcMarking"} => h \notin current
  BY Zenon, Shaped
<1>2. /\ op[h].pc \in PutPc \cup ServerPc \cup TargetPc =>
            op[h].node \in Node /\ op[h].oid \in Oid
      /\ op[h].pc \in PutPc \cup LinkPc => op[h].file \in File /\ op[h].oid \in Oid
      /\ op[h].second # "none" => op[h].pc \in PutPc /\ op[h].peer \in Node /\ op[h].oid \in Oid
      /\ op[h].at \in Time
  BY Zenon, <1>1, WorksOn
<1>3. now \in Time /\ 0 \in Time /\ TRUE \in BOOLEAN /\ FALSE \in BOOLEAN
  BY Zenon, Typed DEF Time
<1>4. ASSUME NEW n \in Node, NEW o \in Oid, NEW prev \in Node \cup {None},
             FetchOpen(h, n, o, prev)
      PROVE  TypeOK'
  <2>1. "reading" \in ServerPc \cup TargetPc
    BY Zenon DEF ServerPc, TargetPc
  <2>2. /\ [At("reading", n, o) EXCEPT !.peer = prev] \in Op
        /\ Shape([At("reading", n, o) EXCEPT !.peer = prev])
    BY Zenon, <2>1, AtTypes
  <2> QED
    BY Zenon, <1>4, <2>2, StartType, PlainMove DEF FetchOpen
<1>5. ASSUME NEW n \in Node, NEW o \in Oid, Walk(h, n, o) PROVE TypeOK'
  <2>1. "seen" \in ServerPc \cup TargetPc
    BY Zenon DEF ServerPc, TargetPc
  <2>2. At("seen", n, o) \in Op /\ Shape(At("seen", n, o))
    BY Zenon, <2>1, AtTypes
  <2> QED
    BY Zenon, <1>5, <2>2, StartType, PlainMove DEF Walk
<1>6. ASSUME NEW n \in Node, NEW o \in Oid, Miss(h, n, o) PROVE TypeOK'
  <2>1. "missing" \in ServerPc \cup TargetPc
    BY Zenon DEF ServerPc, TargetPc
  <2>2. At("missing", n, o) \in Op /\ Shape(At("missing", n, o))
    BY Zenon, <2>1, AtTypes
  <2> QED
    BY Zenon, <1>6, <2>2, StartType, PlainMove DEF Miss
<1>7. ASSUME FetchStore(h) PROVE TypeOK'
  <2>1. op[h].pc \in ServerPc /\ "posted" \in ServerPc /\ h \notin current
    BY Zenon, <1>7, <1>1 DEF FetchStore, ServerPc
  <2>2. [op[h] EXCEPT !.pc = "posted"] \in Op /\ Shape([op[h] EXCEPT !.pc = "posted"])
    BY Zenon, <1>1, <1>3, <2>1, PcType
  <2>3. disk' \in [Node -> SUBSET Oid]
    BY Zenon, <1>7, <1>2, <2>1, PlaceType DEF FetchStore
  <2> QED
    BY Zenon, <1>7, <2>1, <2>2, <2>3, DiskingMove DEF FetchStore
<1>8. ASSUME FetchFail(h) PROVE TypeOK'
  <2>1. op[h].pc \in ServerPc /\ h \notin current
    BY Zenon, <1>8, <1>1 DEF FetchFail, ServerPc
  <2>2. Fetched(op[h]) \in Op /\ Shape(Fetched(op[h]))
    BY Zenon, <1>1, <2>1, FetchedType
  <2> QED
    BY Zenon, <1>8, <2>1, <2>2, PlainMove DEF FetchFail
<1>9. ASSUME DropMoved(h) PROVE TypeOK'
  <2>1. op[h].oid \in Oid /\ op[h].node \in Node /\ h \notin current
    BY Zenon, <1>9, <1>1, <1>2 DEF DropMoved, PutPc, ServerPc, TargetPc
  <2>2. record' \in [Oid -> Record] /\ current' \subseteq current
    BY Zenon, <1>9, <1>3, <2>1, WriteTypes DEF DropMoved
  <2> QED
    BY Zenon, <1>9, <2>1, <2>2, IdleType, RecordingMove DEF DropMoved
<1>10. ASSUME RecordSeen(h) PROVE TypeOK'
  <2>1. op[h].oid \in Oid /\ op[h].node \in Node /\ h \notin current
    BY Zenon, <1>10, <1>1, <1>2 DEF RecordSeen, PutPc, ServerPc, TargetPc
  <2>2. record' \in [Oid -> Record] /\ current' \subseteq current
    BY Zenon, <1>10, <1>3, <2>1, WriteTypes DEF RecordSeen
  <2> QED
    BY Zenon, <1>10, <2>1, <2>2, IdleType, RecordingMove DEF RecordSeen
<1>11. ASSUME VerifySeen(h) PROVE TypeOK'
  <2>1. PICK p : p = IF op[h].oid \in disk[op[h].node] THEN "posted" ELSE "missing"
    BY Zenon
  <2>2. op[h].pc \in ServerPc /\ p \in ServerPc /\ h \notin current
    BY Zenon, <1>11, <1>1, <2>1 DEF VerifySeen, ServerPc
  <2>3. [op[h] EXCEPT !.pc = p] \in Op /\ Shape([op[h] EXCEPT !.pc = p])
    BY Zenon, <1>1, <1>3, <2>2, PcType
  <2> QED
    BY Zenon, <1>11, <2>1, <2>2, <2>3, PlainMove DEF VerifySeen
<1>12. ASSUME DropSelf(h) PROVE TypeOK'
  <2>1. op[h].oid \in Oid /\ op[h].node \in Node /\ h \notin current
    BY Zenon, <1>12, <1>1, <1>2 DEF DropSelf, PutPc, ServerPc, TargetPc
  <2>2. record' \in [Oid -> Record] /\ current' \subseteq current
    BY Zenon, <1>12, <1>3, <2>1, WriteTypes DEF DropSelf
  <2> QED
    BY Zenon, <1>12, <2>1, <2>2, IdleType, RecordingMove DEF DropSelf
<1> QED
  BY Zenon, <1>4, <1>5, <1>6, <1>7, <1>8, <1>9, <1>10, <1>11, <1>12 DEF RepairStep

(***************************************************************************)
(* The steps of removal and of the collector keep TypeOK.                  *)
(***************************************************************************)
LEMMA RemovalTypes ==
    ASSUME TypeOK, NEW h \in Handler, RemovalStep(h), exposed' = exposed \cup Exposed'
    PROVE  TypeOK'
<1>1. /\ op[h] \in Op /\ Shape(op[h])
      /\ op[h].pc \notin {"linkGot", "gcMarking"} => h \notin current
  BY Zenon, Shaped
<1>2. /\ op[h].pc \in PutPc \cup ServerPc \cup TargetPc =>
            op[h].node \in Node /\ op[h].oid \in Oid
      /\ op[h].pc \in PutPc \cup LinkPc => op[h].file \in File /\ op[h].oid \in Oid
      /\ op[h].second # "none" => op[h].pc \in PutPc /\ op[h].peer \in Node /\ op[h].oid \in Oid
      /\ op[h].at \in Time
  BY Zenon, <1>1, WorksOn
<1>3. now \in Time /\ 0 \in Time /\ TRUE \in BOOLEAN /\ FALSE \in BOOLEAN
  BY Zenon, Typed DEF Time
<1>4. ASSUME NEW n \in Node, NEW o \in Oid, RemoveChecked(h, n, o) PROVE TypeOK'
  <2>1. "removing" \in ServerPc \cup TargetPc
    BY Zenon DEF ServerPc, TargetPc
  <2>2. At("removing", n, o) \in Op /\ Shape(At("removing", n, o))
    BY Zenon, <2>1, AtTypes
  <2>3. record' \in [Oid -> Record] /\ current' \subseteq current
    BY Zenon, <1>4, <1>3, WriteTypes DEF RemoveChecked
  <2>4. Continue(h, At("removing", n, o)) /\ h \notin current
    BY Zenon, <1>4, StartType DEF RemoveChecked
  <2> QED
    BY Zenon, <1>4, <2>2, <2>3, <2>4, RecordingMove DEF RemoveChecked
<1>5. ASSUME NEW n \in Node, NEW o \in Oid, RemoveBlind(h, n, o) PROVE TypeOK'
  <2>1. "blind" \in ServerPc \cup TargetPc
    BY Zenon DEF ServerPc, TargetPc
  <2>2. At("blind", n, o) \in Op /\ Shape(At("blind", n, o))
    BY Zenon, <2>1, AtTypes
  <2> QED
    BY Zenon, <1>5, <2>2, StartType, PlainMove DEF RemoveBlind
<1>6. ASSUME NEW n \in Node, NEW o \in Oid, Suspect(h, n, o) PROVE TypeOK'
  <2>1. "suspect" \in ServerPc \cup TargetPc
    BY Zenon DEF ServerPc, TargetPc
  <2>2. At("suspect", n, o) \in Op /\ Shape(At("suspect", n, o))
    BY Zenon, <2>1, AtTypes
  <2> QED
    BY Zenon, <1>6, <2>2, StartType, PlainMove DEF Suspect
<1>7. ASSUME NEW n \in Node, NEW o \in Oid, QueueRemoval(h, n, o) PROVE TypeOK'
  <2>1. "purging" \in ServerPc \cup TargetPc
    BY Zenon DEF ServerPc, TargetPc
  <2>2. At("purging", n, o) \in Op /\ Shape(At("purging", n, o))
    BY Zenon, <2>1, AtTypes
  <2> QED
    BY Zenon, <1>7, <2>2, StartType, PlainMove DEF QueueRemoval
<1>8. ASSUME NEW n \in Node, NEW o \in Oid, GCView(h, n, o) PROVE TypeOK'
  <2>1. PICK p : p = IF Owners(record[o]) # {} THEN "gcViewed" ELSE "gcEmpty"
    BY Zenon
  <2>2. p \in ServerPc \cup TargetPc
    BY Zenon, <2>1 DEF ServerPc, TargetPc
  <2>3. [At(p, n, o) EXCEPT !.at = now] \in Op /\ Shape([At(p, n, o) EXCEPT !.at = now])
    BY Zenon, <1>3, <2>2, AtTypes
  <2>4. Start(h, [At(p, n, o) EXCEPT !.at = now])
    BY Zenon, <1>8, <2>1 DEF GCView
  <2> QED
    BY Zenon, <1>8, <2>3, <2>4, StartType, PlainMove DEF GCView
<1>9. ASSUME RemoveFile(h) PROVE TypeOK'
  <2>1. op[h].node \in Node /\ op[h].oid \in Oid /\ h \notin current
    BY Zenon, <1>9, <1>1, <1>2 DEF RemoveFile, ServerPc
  <2>2. disk' \in [Node -> SUBSET Oid]
    BY Zenon, <1>9, <2>1, PlaceType DEF RemoveFile
  <2> QED
    BY Zenon, <1>9, <2>1, <2>2, IdleType, DiskingMove DEF RemoveFile
<1>10. ASSUME CleanView(h) PROVE TypeOK'
  <2>1. op[h].pc \in TargetPc /\ "cleaning" \in TargetPc /\ h \notin current
    BY Zenon, <1>10, <1>1 DEF CleanView, TargetPc
  <2>2. [op[h] EXCEPT !.pc = "cleaning"] \in Op /\ Shape([op[h] EXCEPT !.pc = "cleaning"])
    BY Zenon, <1>1, <1>3, <2>1, PcType
  <2> QED
    BY Zenon, <1>10, <2>1, <2>2, PlainMove DEF CleanView
<1>11. ASSUME DropStale(h) PROVE TypeOK'
  <2>1. op[h].oid \in Oid /\ op[h].node \in Node /\ h \notin current
    BY Zenon, <1>11, <1>1, <1>2 DEF DropStale, PutPc, ServerPc, TargetPc
  <2>2. record' \in [Oid -> Record] /\ current' \subseteq current
    BY Zenon, <1>11, <1>3, <2>1, WriteTypes DEF DropStale
  <2> QED
    BY Zenon, <1>11, <2>1, <2>2, IdleType, RecordingMove DEF DropStale
<1>12. ASSUME WorkerIsDead(h) PROVE TypeOK'
  <2>1. op[h].pc \in TargetPc /\ "cleaning" \in TargetPc /\ h \notin current
    BY Zenon, <1>12, <1>1 DEF WorkerIsDead, TargetPc
  <2>2. [op[h] EXCEPT !.pc = "cleaning"] \in Op /\ Shape([op[h] EXCEPT !.pc = "cleaning"])
    BY Zenon, <1>1, <1>3, <2>1, PcType
  <2> QED
    BY Zenon, <1>12, <2>1, <2>2, PlainMove DEF WorkerIsDead
<1>13. ASSUME GCGet(h) PROVE TypeOK'
  <2>1. /\ op[h].oid \in Oid /\ op[h].node \in Node /\ h \notin current
        /\ "gcMarking" \in ServerPc \cup TargetPc
    BY Zenon, <1>13, <1>1, <1>2 DEF GCGet, ServerPc
  <2>2. PICK g : /\ Continue(h, IF g THEN At("gcMarking", op[h].node, op[h].oid) ELSE Idle)
                 /\ current' = IF g THEN current \cup {h} ELSE current
    BY Zenon, <1>13 DEF GCGet
  <2>3. PICK new : new = IF g THEN At("gcMarking", op[h].node, op[h].oid) ELSE Idle
    BY Zenon
  <2>4. new \in Op /\ Shape(new)
    BY Zenon, <2>1, <2>3, IdleType, AtTypes
  <2>5. g => new.pc = "gcMarking"
    BY Zenon, <2>3 DEF At, Idle
  <2>6. current' \subseteq current \cup {h} /\ (h \in current' => new.pc \in {"linkGot", "gcMarking"})
    BY Zenon, <2>1, <2>2, <2>5
  <2>7. Continue(h, new) /\ UNCHANGED <<record, disk, meta, pinned, downAt, now>>
    BY Zenon, <1>13, <2>2, <2>3 DEF GCGet
  <2> QED
    BY Zenon, <2>4, <2>6, <2>7, Typed, TypeMove
<1>14. ASSUME GCSet(h) PROVE TypeOK'
  <2>1. op[h].oid \in Oid /\ op[h].node \in Node
    BY Zenon, <1>14, <1>2 DEF GCSet, ServerPc
  <2>2. record' \in [Oid -> Record] /\ current' \subseteq current
    BY Zenon, <1>14, <1>3, <2>1, Typed, WriteTypes DEF GCSet
  <2>3. h \notin current'
    BY Zenon, <1>14, <2>1 DEF GCSet, Write
  <2> QED
    BY Zenon, <1>14, <2>2, <2>3, IdleType, RecordingMove DEF GCSet
<1> QED
  BY Zenon, <1>4, <1>5, <1>6, <1>7, <1>8, <1>9, <1>10, <1>11, <1>12, <1>13, <1>14
     DEF RemovalStep

(***************************************************************************)
(* Every step keeps TypeOK.                                                *)
(***************************************************************************)
LEMMA TypeStep == TypeOK /\ Next => TypeOK'
<1> SUFFICES ASSUME TypeOK, Step, exposed' = exposed \cup Exposed'
             PROVE  TypeOK'
  BY Zenon DEF Next
<1>1. ASSUME NEW h \in Handler, ClientStep(h) \/ RepairStep(h) \/ RemovalStep(h)
      PROVE  TypeOK'
  BY Zenon, <1>1, ClientTypes, RepairTypes, RemovalTypes
<1>2. ASSUME NEW h \in Handler, Abort(h) PROVE TypeOK'
  BY Zenon, <1>2, AbortTypes, Typed, TypeMove DEF Abort
<1>3. exposed' \subseteq Node \X Oid
  BY Zenon, ExposedType
<1>4. ASSUME NEW f \in File, DeleteFile(f) PROVE TypeOK'
  BY Zenon, <1>3, <1>4 DEF DeleteFile, TypeOK, Shape
<1>5. ASSUME NEW n \in Node, Crash(n) PROVE TypeOK'
  <2>1. op' \in [Handler -> Op] /\ \A h \in Handler : Shape(op'[h])
    BY Zenon, <1>5, AbortTypes DEF Crash
  <2>2. \A h \in current' : /\ h \in Handler
                            /\ op'[h].pc \in {"linkGot", "gcMarking"}
    BY Zenon, <1>5 DEF Crash, TypeOK, CrashedOp, Shape, PutPc
  <2>3. downAt' \in [Node -> Stamp]
    BY Zenon, <1>5 DEF Crash, TypeOK, Stamp
  <2> QED
    BY Zenon, <1>3, <1>5, <2>1, <2>2, <2>3 DEF Crash, TypeOK, Shape
<1>6. ASSUME NEW n \in Node, Restart(n) PROVE TypeOK'
  BY Zenon, <1>3, <1>6 DEF Restart, TypeOK, Shape, Stamp
<1>7. CASE Tick
  BY <1>3, <1>7 DEF Tick, TypeOK, Shape, Time
<1> QED
  BY Zenon, <1>1, <1>2, <1>4, <1>5, <1>6, <1>7 DEF Step

-------------------------------------------------------------------------------
(***************************************************************************)
(* What the types say of the clock, a record, a handler and a node, on     *)
(* both sides of a step.                                                   *)
(***************************************************************************)
LEMMA ClockTyped ==
    ASSUME Moves
    PROVE  now \in Nat /\ now' \in Nat /\ now <= now' /\ TimeMove
<1>1. now \in Nat /\ now' \in Nat /\ TimeMove
  BY Zenon DEF Moves, TypeOK, Time
<1> QED
  BY <1>1 DEF TimeMove, Tick, Crash, Restart

LEMMA RecordTyped ==
    ASSUME Moves, NEW o \in Oid
    PROVE  record[o] \in Record /\ record'[o] \in Record
  BY Zenon DEF Moves, TypeOK

LEMMA StampTyped ==
    ASSUME NEW d \in Record
    PROVE  d.referenced \in Int /\ \A n \in Node : d.nodes[n] \in Int
  BY DEF Record, Stamp, Time, Never

LEMMA OpTyped ==
    ASSUME Moves, NEW h \in Handler
    PROVE  op[h].at \in Nat /\ op'[h].at \in Nat /\ Shape(op[h]) /\ Shape(op'[h])
<1>1. op \in [Handler -> Op] /\ op' \in [Handler -> Op] /\ Shape(op[h]) /\ Shape(op[h])'
  BY Zenon DEF Moves, TypeOK
<1>2. Shape(op'[h])
  BY Zenon, <1>1 DEF Shape
<1> QED
  BY Zenon, <1>1, <1>2 DEF Op, Time

LEMMA DownTyped ==
    ASSUME Moves, NEW n \in Node
    PROVE  /\ downAt[n] \in Int /\ downAt'[n] \in Int
           /\ downAt'[n] # Never => downAt'[n] \in Nat
<1>1. downAt[n] \in Stamp /\ downAt'[n] \in Stamp
  BY Zenon DEF Moves, TypeOK
<1> QED
  BY <1>1 DEF Stamp, Time, Never

(***************************************************************************)
(* A crash changes no record, and nothing but a crash stops a node.        *)
(***************************************************************************)
LEMMA DownMoves ==
    ASSUME Moves, NEW n \in Node
    PROVE  \/ downAt'[n] = downAt[n]
           \/ downAt'[n] = now /\ UNCHANGED record
           \/ downAt'[n] = Never
<1>1. downAt \in [Node -> Stamp] /\ TimeMove
  BY Zenon DEF Moves, TypeOK
<1> QED
  BY Zenon, <1>1 DEF TimeMove, Tick, Crash, Restart

(***************************************************************************)
(* A node that is about to register a copy is up.                          *)
(***************************************************************************)
LEMMA StoringUp ==
    ASSUME RunsUp, NEW g \in Handler, NEW n \in Node, NEW o \in Oid,
           Storing(g, n, o)
    PROVE  Up(n)
  BY Zenon DEF RunsUp, RunsOn, Storing, PutPc, ServerPc

-------------------------------------------------------------------------------
(***************************************************************************)
(* The ways a record changes, one by one.                                  *)
(***************************************************************************)
LEMMA RecordCases ==
    ASSUME Moves, NEW o \in Oid
    PROVE  \/ record'[o] = record[o]
           \/ \E g \in Handler, m \in Node : Registers(g, m, o)
           \/ \E g \in Handler, m \in Node :
                 Removed(m, o) /\ (Drops(g, m, o) \/ RemoveChecked(g, m, o))
           \/ \E g \in Handler : References(g, o)
           \/ \E g \in Handler : Marks(g, o)
<1>1. RecordMove(o) /\ CheckedMove(o)
  BY Zenon DEF Moves
<1> QED
  BY Zenon, <1>1 DEF RecordMove, CheckedMove, Drops

(***************************************************************************)
(* An entry of the Nodes map is only ever deleted, or set to the present   *)
(* by the node's own store.                                                *)
(***************************************************************************)
LEMMA NodeMoves ==
    ASSUME Moves, NEW o \in Oid, NEW n \in Node
    PROVE  \/ record'[o].nodes[n] = record[o].nodes[n]
           \/ record'[o].nodes[n] = Never
           \/ /\ record'[o].nodes[n] = now
              /\ \E g \in Handler : Storing(g, n, o)
<1>1. ASSUME NEW g \in Handler, NEW m \in Node, Registers(g, m, o)
      PROVE  \/ record'[o].nodes[n] = record[o].nodes[n]
             \/ record'[o].nodes[n] = now /\ Storing(g, n, o)
  BY Zenon, <1>1 DEF Registers
<1>2. ASSUME NEW m \in Node, Removed(m, o)
      PROVE  \/ record'[o].nodes[n] = record[o].nodes[n]
             \/ record'[o].nodes[n] = Never
  BY Zenon, <1>2 DEF Removed
<1>3. ASSUME NEW g \in Handler, References(g, o) \/ Marks(g, o)
      PROVE  record'[o].nodes = record[o].nodes
  BY Zenon, <1>3 DEF References, Marks
<1> QED
  BY Zenon, <1>1, <1>2, <1>3, RecordCases

(***************************************************************************)
(* Referenced is only changed by referenceBlob, or lost with the document. *)
(***************************************************************************)
LEMMA ReferencedMoves ==
    ASSUME Moves, NEW o \in Oid
    PROVE  \/ record'[o].referenced = record[o].referenced
           \/ record'[o].referenced = Never
           \/ \E g \in Handler : record'[o].referenced = op[g].at
<1>1. ASSUME NEW g \in Handler, NEW m \in Node, Registers(g, m, o)
      PROVE  record'[o].referenced = record[o].referenced
  BY Zenon, <1>1 DEF Registers
<1>2. ASSUME NEW m \in Node, Removed(m, o)
      PROVE  \/ record'[o].referenced = record[o].referenced
             \/ record'[o].referenced = Never
  BY Zenon, <1>2 DEF Removed
<1>3. ASSUME NEW g \in Handler, References(g, o)
      PROVE  record'[o].referenced = op[g].at
  BY Zenon, <1>3 DEF References
<1>4. ASSUME NEW g \in Handler, Marks(g, o)
      PROVE  record'[o].referenced = record[o].referenced
  BY Zenon, <1>4 DEF Marks
<1> QED
  BY Zenon, <1>1, <1>2, <1>3, <1>4, RecordCases

-------------------------------------------------------------------------------
(***************************************************************************)
(* No step stamps the future, registers a node that is down, or lets a     *)
(* link or a collection be late.                                           *)
(***************************************************************************)
LEMMA ClockStep ==
    ASSUME Moves, ClockInv, RunsUp
    PROVE  ClockInv'
<1>1. now \in Nat /\ now' \in Nat /\ now <= now' /\ TimeMove
  BY Zenon, ClockTyped
<1>2. ASSUME NEW n \in Node PROVE downAt'[n] <= now'
  <2>1. downAt[n] \in Int /\ downAt'[n] \in Int /\ downAt[n] <= now
    BY Zenon, DownTyped DEF ClockInv
  <2> QED
    BY <1>1, <2>1, DownMoves DEF Never
<1>3. ASSUME NEW o \in Oid PROVE record'[o].referenced <= now'
  <2>1. record[o].referenced \in Int /\ record'[o].referenced \in Int
    BY Zenon, RecordTyped, StampTyped
  <2>2. record[o].referenced <= now /\ \A g \in Handler : op[g].at \in Int /\ op[g].at <= now
    BY OpTyped DEF ClockInv, Timely
  <2> QED
    BY <1>1, <2>1, <2>2, ReferencedMoves DEF Never
<1>4. ASSUME NEW n \in Node, NEW o \in Oid
      PROVE  /\ record'[o].nodes[n] <= now'
             /\ downAt'[n] # Never => record'[o].nodes[n] <= downAt'[n]
  <2>1. PICK x \in Int, y \in Int, d \in Int, e \in Int :
           /\ x = record[o].nodes[n] /\ y = record'[o].nodes[n]
           /\ d = downAt[n] /\ e = downAt'[n]
    BY Zenon, RecordTyped, StampTyped, DownTyped
  <2>2. x <= now /\ (d # Never => x <= d) /\ (e # Never => e \in Nat)
    BY Zenon, <2>1, DownTyped DEF ClockInv
  <2>3. y = x \/ y = Never \/ (y = now /\ d = Never)
    BY Zenon, <2>1, NodeMoves, StoringUp DEF Up
  <2>4. e = d \/ (e = now /\ y = x) \/ e = Never
    BY Zenon, <2>1, DownMoves
  <2>5. y <= now' /\ (e # Never => y <= e)
    BY <1>1, <2>2, <2>3, <2>4 DEF Never
  <2> QED
    BY Zenon, <2>1, <2>5
<1>5. ASSUME NEW g \in Handler PROVE Timely(op[g])'
  <2>1. op[g].at \in Nat /\ op'[g].at \in Nat /\ Timely(op[g])
    BY Zenon, OpTyped DEF ClockInv
  <2>2. CASE Tick
    <3>1. InTime(op[g]) /\ now' = now + 1 /\ op'[g] = op[g]
      BY Zenon, <2>2 DEF Tick
    <3>2. PICK a \in Nat : a = op[g].at
      BY Zenon, <2>1
    <3> QED
      BY <1>1, <2>1, <3>1, <3>2, TimingAssumption DEF InTime, Timely
  <2>3. CASE ~Tick
    <3>1. now' = now /\ HandlerMove(g)
      BY Zenon, <1>1, <2>3 DEF Moves, TimeMove, Crash, Restart
    <3>2. CASE op'[g] = op[g]
      BY Zenon, <2>1, <3>1, <3>2 DEF Timely
    <3>3. CASE Changed(g)
      <4>1. ChangedTimes(g)
        BY Zenon, <3>3 DEF Changed
      <4> QED
        BY <1>1, <2>1, <3>1, <4>1, TimingAssumption DEF Timely, ChangedTimes
    <3> QED
      BY Zenon, <3>1, <3>2, <3>3 DEF HandlerMove
  <2> QED
    BY Zenon, <2>2, <2>3
<1> QED
  BY Zenon, <1>2, <1>3, <1>4, <1>5 DEF ClockInv

(***************************************************************************)
(* A handler does not survive the crash of its node.                       *)
(***************************************************************************)
LEMMA RunsStep ==
    ASSUME Moves, RunsUp
    PROVE  RunsUp'
<1> SUFFICES ASSUME NEW g \in Handler PROVE RunsOn(op[g])'
  BY Zenon DEF RunsUp
<1> DEFINE r == op[g]
           s == op'[g]
<1>1. RunsOn(r) /\ Shape(r) /\ Shape(s) /\ HandlerMove(g) /\ TimeMove
  BY Zenon, OpTyped DEF RunsUp, Moves
<1>2. downAt \in [Node -> Stamp] /\ op \in [Handler -> Op] /\ r \in Op
  BY Zenon DEF Moves, TypeOK
<1>3. /\ r.pc \in PutPc \cup ServerPc \cup TargetPc => r.node \in Node
      /\ r.second \in {"sent", "stored"} => r.pc \in PutPc /\ r.peer \in Node \ {r.node}
  BY Zenon, <1>1 DEF Shape
<1>4. CASE UNCHANGED downAt
  <2>1. CASE s = r
    BY Zenon, <1>1, <1>4, <2>1 DEF RunsOn, Up
  <2>2. CASE Changed(g)
    <3>1. ChangedServer(g)
      BY Zenon, <2>2 DEF Changed
    <3> QED
      BY Zenon, <1>1, <1>4, <3>1 DEF RunsOn, Up, ChangedServer
  <2> QED
    BY Zenon, <1>1, <2>1, <2>2 DEF HandlerMove
<1>5. ASSUME NEW m \in Node, Restart(m) PROVE RunsOn(op[g])'
  <2>1. s = r /\ \A n \in Node : Up(n) => Up(n)'
    BY Zenon, <1>2, <1>5 DEF Restart, Up
  <2> QED
    BY Zenon, <1>1, <1>3, <2>1 DEF RunsOn, Up
<1>6. ASSUME NEW m \in Node, Crash(m) PROVE RunsOn(op[g])'
  <2>1. \A n \in Node \ {m} : Up(n) => Up(n)'
    BY Zenon, <1>2, <1>6 DEF Crash, Up
  <2>2. s = CrashedOp(r, m)
    BY Zenon, <1>6 DEF Crash
  <2>3. CASE r.node = m /\ r.pc \notin TargetPc /\ r.second = "stored"
    <3>1. s.node = r.peer /\ s.second = "none"
      BY Zenon, <2>2, <2>3 DEF CrashedOp, Aborted, At, Idle
    <3>2. r.peer \in Node \ {m} /\ Up(r.peer)
      BY Zenon, <1>1, <1>3, <2>3 DEF RunsOn
    <3> QED
      BY Zenon, <2>1, <3>1, <3>2 DEF RunsOn, Up
  <2>4. CASE r.node = m /\ r.pc \notin TargetPc /\ r.second # "stored"
    <3>1. s.pc = "idle" /\ s.second = "none"
      BY <2>2, <2>4 DEF CrashedOp, Aborted, Idle
    <3> QED
      BY Zenon, <3>1 DEF RunsOn, PutPc, ServerPc
  <2>5. CASE /\ ~(r.node = m /\ r.pc \notin TargetPc)
             /\ r.peer = m /\ r.second \in {"sent", "stored"}
    <3>1. s.pc = r.pc /\ s.node = r.node /\ s.second = "failed"
      BY Zenon, <1>2, <2>2, <2>5 DEF CrashedOp, Op
    <3>2. r.node \in Node \ {m} /\ Up(r.node)
      BY Zenon, <1>1, <1>3, <2>5 DEF RunsOn, PutPc, TargetPc
    <3> QED
      BY Zenon, <2>1, <3>1, <3>2 DEF RunsOn, Up
  <2>6. CASE /\ ~(r.node = m /\ r.pc \notin TargetPc)
             /\ ~(r.peer = m /\ r.second \in {"sent", "stored"})
    <3>1. s = r
      BY Zenon, <2>2, <2>6 DEF CrashedOp
    <3>2. r.pc \in PutPc \cup ServerPc => r.node \in Node \ {m}
      BY Zenon, <1>3, <2>6 DEF PutPc, ServerPc, TargetPc
    <3>3. r.second \in {"sent", "stored"} => r.peer \in Node \ {m}
      BY Zenon, <1>3, <2>6
    <3> QED
      BY Zenon, <1>1, <2>1, <3>1, <3>2, <3>3 DEF RunsOn, Up
  <2> QED
    BY Zenon, <2>3, <2>4, <2>5, <2>6
<1> QED
  BY Zenon, <1>1, <1>4, <1>5, <1>6 DEF TimeMove, Tick

-------------------------------------------------------------------------------
(***************************************************************************)
(* A blob or a copy that is not exposed after a step was not before it.    *)
(***************************************************************************)
LEMMA NotExposedBlob ==
    ASSUME Moves, NEW o \in Oid, ~ExposedBlob(o)'
    PROVE  ~ExposedBlob(o) /\ \A n \in Node : <<n, o>> \notin exposed'
<1>1. exposed \subseteq exposed'
  BY Zenon DEF Moves
<1> QED
  BY Zenon, <1>1 DEF ExposedBlob

(***************************************************************************)
(* ... and nobody stores what another drops there, or drops it unchecked,  *)
(* on either side of the step.                                             *)
(***************************************************************************)
LEMMA NotExposed ==
    ASSUME CopyInv, Moves, NEW n \in Node, NEW o \in Oid, <<n, o>> \notin exposed'
    PROVE  /\ <<n, o>> \notin exposed
           /\ \A h, g \in Handler :
                 /\ ~Blind(h, n, o) /\ ~Blind(h, n, o)'
                 /\ ~(Storing(h, n, o) /\ Dropping(g, n, o))
<1>1. <<n, o>> \notin exposed /\ <<n, o>> \notin Exposed /\ <<n, o>> \notin Exposed'
  BY Zenon DEF Moves, CopyInv
<1> QED
  BY Zenon, <1>1 DEF Exposed

(***************************************************************************)
(* Who stores has placed the file, or was storing before.                  *)
(***************************************************************************)
LEMMA StoringMoves ==
    ASSUME Moves, NEW h \in Handler, NEW n \in Node, NEW o \in Oid, Storing(h, n, o)'
    PROVE  Storing(h, n, o) \/ o \in disk'[n]
<1>1. CASE op'[h] = op[h]
  BY Zenon, <1>1 DEF Storing
<1>2. CASE Changed(h)
  BY Zenon, <1>2 DEF Changed, ChangedCopies
<1> QED
  BY Zenon, <1>1, <1>2 DEF Moves, HandlerMove

(***************************************************************************)
(* Who drops an owner's copy was dropping it before, or found the node     *)
(* stale or the file gone.                                                 *)
(***************************************************************************)
LEMMA DroppingMoves ==
    ASSUME Moves, NEW h \in Handler, NEW n \in Node, NEW o \in Oid,
           Dropping(h, n, o)', n \in Owners(record'[o])
    PROVE  \/ Dropping(h, n, o) /\ op'[h] = op[h]
           \/ Dropping(h, n, o) /\ op'[h].pc = "cleaning"
           \/ op'[h].pc \in {"suspect", "cleaning"} /\ Stale(n)
           \/ o \notin disk[n] /\ UNCHANGED record
<1>1. CASE op'[h] = op[h]
  <2>1. Dropping(h, n, o)
    BY Zenon, <1>1 DEF Dropping
  <2> QED
    BY Zenon, <1>1, <2>1
<1>2. CASE Changed(h)
  <2>1. ~RemoveChecked(h, n, o)
    <3>1. CheckedMove(o) /\ record'[o].nodes[n] # Never
      BY Zenon DEF Moves, Owners
    <3> QED
      BY Zenon, <3>1 DEF CheckedMove, Removed
  <2>2. \/ Dropping(h, n, o) /\ op'[h].pc = "cleaning"
        \/ op'[h].pc \in {"suspect", "cleaning"} /\ Stale(n)
        \/ RemoveChecked(h, n, o)
        \/ o \notin disk[n] /\ UNCHANGED record
    BY Zenon, <1>2 DEF Changed, ChangedCopies
  <2> QED
    BY Zenon, <2>1, <2>2
<1> QED
  BY Zenon, <1>1, <1>2 DEF Moves, HandlerMove

(***************************************************************************)
(* Who registers or is about to register keeps the file: the only removals *)
(* that could take it overlap the store, which exposes the copy.           *)
(***************************************************************************)
LEMMA CopyStep ==
    ASSUME Moves, ClockInv, RunsUp, CopyInv
    PROVE  CopyInv'
<1>0. now \in Nat /\ now' \in Nat /\ now <= now'
  BY Zenon, ClockTyped
<1>1. ASSUME NEW n \in Node, NEW o \in Oid, <<n, o>> \notin exposed'
      PROVE  /\ n \in Owners(record'[o]) => o \in disk'[n]
             /\ \A h \in Handler :
                   /\ Storing(h, n, o)' => o \in disk'[n]
                   /\ Dropping(h, n, o)' /\ n \in Owners(record'[o]) =>
                         /\ op'[h].pc \in {"suspect", "cleaning"}
                         /\ record'[o].nodes[n] + StaleNodeLimit < now'
  <2>0. PICK x \in Int, y \in Int :
           x = record[o].nodes[n] /\ y = record'[o].nodes[n]
    BY Zenon, RecordTyped, StampTyped
  <2>1. /\ <<n, o>> \notin exposed
        /\ \A h, g \in Handler :
              /\ ~Blind(h, n, o)
              /\ ~(Storing(h, n, o) /\ Dropping(g, n, o))
    BY Zenon, <1>1, NotExposed
  <2>2. /\ n \in Owners(record[o]) => o \in disk[n]
        /\ \A h \in Handler :
              /\ Storing(h, n, o) => o \in disk[n]
              /\ Dropping(h, n, o) /\ n \in Owners(record[o]) =>
                    /\ op[h].pc \in {"suspect", "cleaning"}
                    /\ x + StaleNodeLimit < now
    BY Zenon, <2>0, <2>1 DEF CopyInv, RegisteredOnDisk
  <2>3. /\ n \in Owners(record[o]) <=> x # Never
        /\ n \in Owners(record'[o]) <=> y # Never
    BY Zenon, <2>0 DEF Owners
  <2>4. n \in Owners(record'[o]) =>
           \/ y = x /\ n \in Owners(record[o])
           \/ \E g \in Handler : Storing(g, n, o)
    BY Zenon, <2>0, <2>3, NodeMoves
  <2>5. o \in disk[n] /\ o \notin disk'[n] =>
           /\ n \notin Owners(record[o])
           /\ \A h \in Handler : ~Storing(h, n, o)
    <3> SUFFICES ASSUME o \in disk[n], o \notin disk'[n]
                 PROVE  /\ n \notin Owners(record[o])
                        /\ \A h \in Handler : ~Storing(h, n, o)
      BY Zenon
    <3>1. PICK g \in Handler : /\ op[g].pc \in {"removing", "blind"}
                               /\ op[g].node = n
                               /\ op[g].oid = o
      BY DEF Moves, DiskMove
    <3>2. Dropping(g, n, o) /\ op[g].pc = "removing"
      BY Zenon, <2>1, <3>1 DEF Blind, Dropping
    <3> QED
      BY Zenon, <2>1, <2>2, <3>2
  <2>6. n \in Owners(record'[o]) => o \in disk'[n]
    BY Zenon, <2>2, <2>4, <2>5
  <2>7. ASSUME NEW h \in Handler, Storing(h, n, o)' PROVE o \in disk'[n]
    BY Zenon, <2>2, <2>5, <2>7, StoringMoves
  <2>8. ASSUME NEW h \in Handler, Dropping(h, n, o)', n \in Owners(record'[o])
        PROVE  /\ op'[h].pc \in {"suspect", "cleaning"}
               /\ y + StaleNodeLimit < now'
    <3>1. CASE /\ Dropping(h, n, o)
               /\ op'[h] = op[h] \/ op'[h].pc = "cleaning"
      <4>1. y = x /\ n \in Owners(record[o])
        BY Zenon, <2>1, <2>4, <2>8, <3>1
      <4>2. op[h].pc \in {"suspect", "cleaning"} /\ x + StaleNodeLimit < now
        BY Zenon, <2>2, <3>1, <4>1
      <4>3. op'[h].pc \in {"suspect", "cleaning"}
        BY Zenon, <3>1, <4>2
      <4> QED
        BY <1>0, <4>1, <4>2, <4>3, TimingAssumption
    <3>2. CASE op'[h].pc \in {"suspect", "cleaning"} /\ Stale(n)
      <4>1. PICK d \in Int : d = downAt[n]
        BY Zenon, DownTyped
      <4>2. ~Up(n) /\ now - d > StaleNodeLimit /\ x <= d
        BY Zenon, <2>0, <3>2, <4>1 DEF Stale, Up, ClockInv
      <4>3. y = x
        BY Zenon, <2>4, <2>8, <4>2, StoringUp
      <4>4. y + StaleNodeLimit < now'
        BY <1>0, <4>2, <4>3, TimingAssumption
      <4> QED
        BY Zenon, <3>2, <4>4
    <3>3. CASE o \notin disk[n] /\ UNCHANGED record
      BY Zenon, <2>2, <2>8, <3>3
    <3> QED
      BY Zenon, <2>8, <3>1, <3>2, <3>3, DroppingMoves
  <2> QED
    BY Zenon, <2>0, <2>6, <2>7, <2>8
<1>2. Exposed' \subseteq exposed'
  BY Zenon DEF Moves
<1>3. RegisteredOnDisk'
  BY Zenon, <1>1 DEF RegisteredOnDisk, Owners
<1> QED
  BY Zenon, <1>1, <1>2, <1>3 DEF CopyInv

-------------------------------------------------------------------------------
(***************************************************************************)
(* A record with no recent reference has none later, unless it gets one.   *)
(***************************************************************************)
LEMMA OldStays ==
    ASSUME NEW d \in Record, NEW e \in Record, NEW t \in Nat, NEW u \in Nat, t <= u,
           ~RecentlyReferenced(d, t),
           e.referenced = d.referenced \/ e.referenced = Never,
           \A n \in Node : e.nodes[n] = d.nodes[n] \/ e.nodes[n] = Never
    PROVE  ~RecentlyReferenced(e, u)
<1> USE GraceAssumption
<1>1. d.referenced \in Int /\ \A n \in Node : d.nodes[n] \in Int
  BY Zenon, StampTyped
<1>2. ~Fresh(e.referenced, GCGrace, u)
  BY <1>1 DEF RecentlyReferenced, Fresh
<1>3. ASSUME NEW n \in Node PROVE ~Fresh(e.nodes[n], GCGrace, u)
  BY <1>1 DEF RecentlyReferenced, Fresh
<1> QED
  BY Zenon, <1>2, <1>3 DEF RecentlyReferenced

(***************************************************************************)
(* A mark is only put on, or kept on, a record that was and stays old.     *)
(***************************************************************************)
LEMMA GarbageMoves ==
    ASSUME Moves, NEW o \in Oid, record'[o].garbage
    PROVE  /\ record'[o].referenced = record[o].referenced
           /\ \A n \in Node : \/ record'[o].nodes[n] = record[o].nodes[n]
                              \/ record'[o].nodes[n] = Never
           /\ record[o].garbage \/ \E g \in Handler : Marks(g, o)
<1>1. ASSUME NEW m \in Node, Removed(m, o)
      PROVE  /\ record'[o].referenced = record[o].referenced
             /\ record[o].garbage
             /\ \A n \in Node : \/ record'[o].nodes[n] = record[o].nodes[n]
                                \/ record'[o].nodes[n] = Never
  BY Zenon, <1>1 DEF Removed
<1>2. ASSUME NEW g \in Handler
      PROVE  ~References(g, o) /\ \A m \in Node : ~Registers(g, m, o)
  BY Zenon DEF References, Registers
<1>3. ASSUME NEW g \in Handler, Marks(g, o)
      PROVE  /\ record'[o].referenced = record[o].referenced
             /\ record'[o].nodes = record[o].nodes
  BY Zenon, <1>3 DEF Marks
<1> QED
  BY Zenon, <1>1, <1>2, <1>3, RecordCases

(***************************************************************************)
(* The garbage mark and the CAS of referenceBlob and markGarbage: what     *)
(* they were given for is still so when they are used.                     *)
(***************************************************************************)
LEMMA CasStep ==
    ASSUME Moves, ClockInv, GarbageIsOld, CasInv
    PROVE  GarbageIsOld' /\ CasInv'
<1>0. now \in Nat /\ now' \in Nat /\ now <= now'
  BY Zenon, ClockTyped
<1>1. ASSUME NEW o \in Oid, record'[o].garbage
      PROVE  ~RecentlyReferenced(record'[o], now')
  <2>1. record[o] \in Record /\ record'[o] \in Record
    BY Zenon, RecordTyped
  <2>2. ~RecentlyReferenced(record[o], now)
    BY Zenon, <1>1, GarbageMoves DEF GarbageIsOld, CasInv, Marks
  <2> QED
    BY Zenon, <1>0, <1>1, <2>1, <2>2, GarbageMoves, OldStays
<1>2. ASSUME NEW h \in current'
      PROVE  /\ op'[h].pc = "linkGot" =>
                   record'[op'[h].oid].referenced <= op'[h].at
             /\ op'[h].pc = "gcMarking" =>
                   ~RecentlyReferenced(record'[op'[h].oid], now')
  <2>1. h \in Handler /\ op'[h].oid \in Oid
    BY Zenon, <1>2 DEF Moves, TypeOK, Shape
  <2>2. \A d \in Record : ~RecentlyReferenced(d, now) => ~RecentlyReferenced(d, now')
    BY Zenon, <1>0, OldStays
  <2>3. CASE op'[h] = op[h] /\ h \in current
    <3>1. record'[op[h].oid] = record[op[h].oid]
      BY Zenon, <1>2, <2>1, <2>3 DEF Moves, CasMove
    <3>2. record[op[h].oid] \in Record
      BY Zenon, <2>1, <2>3, RecordTyped
    <3> QED
      BY Zenon, <2>2, <2>3, <3>1, <3>2 DEF CasInv
  <2>4. CASE Changed(h)
    <3>1. /\ UNCHANGED record
          /\ \/ op'[h].pc = "linkGot" /\ op'[h].at = now
             \/ /\ op'[h].pc = "gcMarking"
                /\ ~RecentlyReferenced(record[op'[h].oid], now)
      BY Zenon, <1>2, <2>4 DEF Changed, ChangedCas
    <3>2. record[op'[h].oid] \in Record /\ record[op'[h].oid].referenced <= now
      BY Zenon, <2>1, RecordTyped DEF ClockInv
    <3> QED
      BY Zenon, <2>2, <3>1, <3>2
  <2>5. HandlerMove(h)
    BY Zenon, <2>1 DEF Moves
  <2> QED
    BY Zenon, <1>2, <2>3, <2>4, <2>5 DEF HandlerMove
<1> QED
  BY Zenon, <1>1, <1>2 DEF GarbageIsOld, CasInv

-------------------------------------------------------------------------------
(***************************************************************************)
(* An owner's copy that is not exposed, after a step, is safe.             *)
(***************************************************************************)
LEMMA OwnersSafe ==
    ASSUME CopyInv', NEW o \in Oid, ~ExposedBlob(o)'
    PROVE  Owners(record'[o]) \subseteq SafeCopies(o)'
<1> SUFFICES ASSUME NEW n \in Node, n \in Owners(record'[o])
             PROVE  n \in SafeCopies(o)'
  BY Zenon DEF Owners
<1>1. <<n, o>> \notin exposed' /\ <<n, o>> \notin Exposed'
  BY Zenon DEF ExposedBlob, CopyInv
<1>2. o \in disk'[n]
  BY Zenon, <1>1 DEF CopyInv, RegisteredOnDisk
<1>3. ASSUME NEW h \in Handler, op'[h].pc \in {"removing", "blind"},
             op'[h].node = n, op'[h].oid = o
      PROVE  FALSE
  <2>1. CASE op'[h].pc = "blind"
    BY Zenon, <1>1, <1>3, <2>1 DEF Exposed, Blind
  <2>2. CASE op'[h].pc = "removing"
    BY Zenon, <1>1, <1>3, <2>2 DEF CopyInv, Dropping
  <2> QED
    BY Zenon, <1>3, <2>1, <2>2
<1> QED
  BY Zenon, <1>2, <1>3 DEF SafeCopies

(***************************************************************************)
(* A safe copy of a blob that is not exposed is only ever given up by      *)
(* maybeRemoveBlobOwnership at its node.                                   *)
(***************************************************************************)
LEMMA LostCopy ==
    ASSUME Moves, CopyInv, NEW o \in Oid, NEW n \in Node,
           ~ExposedBlob(o)', n \in SafeCopies(o), n \notin SafeCopies(o)'
    PROVE  \E h \in Handler : RemoveChecked(h, n, o)
<1>0. <<n, o>> \notin exposed' /\ DiskMove(n, o)
  BY Zenon, NotExposedBlob DEF Moves
<1>1. o \in disk'[n]
  BY Zenon, <1>0 DEF SafeCopies, DiskMove
<1>2. PICK h \in Handler : /\ op'[h].pc \in {"removing", "blind"}
                           /\ op'[h].node = n
                           /\ op'[h].oid = o
  BY Zenon, <1>1 DEF SafeCopies
<1>3. op'[h].pc = "removing"
  BY Zenon, <1>0, <1>2, NotExposed DEF Blind
<1>4. op'[h] # op[h]
  BY Zenon, <1>2 DEF SafeCopies
<1>5. Changed(h)
  BY Zenon, <1>4 DEF Moves, HandlerMove
<1> QED
  BY Zenon, <1>2, <1>3, <1>5 DEF Changed, ChangedCopies

(***************************************************************************)
(* What a handler secures is referenced since: its own registration or its *)
(* own referenceBlob, when it gets there, is in the record.                *)
(***************************************************************************)
LEMMA NewlySecuring ==
    ASSUME Moves, NEW h \in Handler, NEW o \in Oid, Securing(h, o)'
    PROVE  \/ Securing(h, o) /\ op'[h].at = op[h].at
           \/ \E n \in Node : op'[h].at = now /\ Registers(h, n, o)
           \/ /\ References(h, o)
              /\ op'[h].at = op[h].at
              /\ Owners(record[o]) # {}
<1>1. CASE op'[h] = op[h]
  BY Zenon, <1>1 DEF Securing
<1>2. CASE Changed(h)
  <2>1. op'[h].oid = o /\ op'[h].pc \in {"putRecorded", "linked"}
    BY Zenon DEF Securing
  <2> QED
    BY Zenon, <1>2, <2>1 DEF Changed, Secures, Securing
<1> QED
  BY Zenon, <1>1, <1>2 DEF Moves, HandlerMove

(***************************************************************************)
(* A document comes into being by a registration only.                     *)
(***************************************************************************)
LEMMA NewDocument ==
    ASSUME Moves, NEW o \in Oid, ~record[o].there, record'[o].there
    PROVE  \E g \in Handler, n \in Node : Registers(g, n, o)
<1>1. ASSUME NEW g \in Handler
      PROVE  /\ ~References(g, o) /\ ~Marks(g, o)
             /\ \A m \in Node : ~Removed(m, o)
  BY Zenon DEF References, Marks, Removed
<1>2. record'[o] # record[o]
  BY Zenon
<1> QED
  BY Zenon, <1>1, <1>2, RecordCases

(***************************************************************************)
(* A registration is a reference at the present.                           *)
(***************************************************************************)
LEMMA RegisteredSince ==
    ASSUME NEW o \in Oid, NEW g \in Handler, NEW n \in Node, now \in Nat,
           Registers(g, n, o), NEW t \in Int, t <= now
    PROVE  ReferencedSince(record'[o], t)
<1>1. record'[o].nodes[n] = now
  BY Zenon DEF Registers
<1> QED
  BY <1>1 DEF ReferencedSince, Never

(***************************************************************************)
(* A reference since t is recent enough to keep markGarbage away.          *)
(***************************************************************************)
LEMMA SinceIsRecent ==
    ASSUME NEW d \in Record, NEW t \in Int, NEW u \in Nat, ReferencedSince(d, t),
           u - t <= StaleNodeLimit
    PROVE  RecentlyReferenced(d, u)
<1> USE TimingAssumption, GraceAssumption
<1>1. d.referenced \in Int /\ \A n \in Node : d.nodes[n] \in Int
  BY Zenon, StampTyped
<1>2. CASE d.referenced # Never /\ d.referenced >= t
  BY <1>1, <1>2 DEF RecentlyReferenced, Fresh
<1>3. ASSUME NEW n \in Node, d.nodes[n] # Never, d.nodes[n] >= t
      PROVE  RecentlyReferenced(d, u)
  BY <1>1, <1>3 DEF RecentlyReferenced, Fresh
<1> QED
  BY Zenon, <1>2, <1>3 DEF ReferencedSince

(***************************************************************************)
(* The stamp that a removal takes out of a record is an old one: a dead    *)
(* node's, or one that maybeRemoveBlobOwnership found older than its hour. *)
(***************************************************************************)
LEMMA RemovedIsOld ==
    ASSUME Moves, CopyInv, GarbageIsOld,
           NEW o \in Oid, ~ExposedBlob(o)', NEW g \in Handler, NEW m \in Node,
           Drops(g, m, o) \/ RemoveChecked(g, m, o),
           NEW t \in Int, now - t <= StaleNodeLimit,
           record[o].nodes[m] # Never
    PROVE  ~(record[o].nodes[m] >= t)
<1> USE TimingAssumption, GraceAssumption
<1>0. now \in Nat /\ record[o] \in Record /\ <<m, o>> \notin exposed'
  BY Zenon, ClockTyped, RecordTyped, NotExposedBlob
<1>1. PICK x \in Int : x = record[o].nodes[m]
  BY Zenon, <1>0, StampTyped
<1>2. CASE Drops(g, m, o)
  <2>1. Dropping(g, m, o) /\ <<m, o>> \notin exposed
    BY Zenon, <1>0, <1>2, NotExposed DEF Drops
  <2>2. x + StaleNodeLimit < now
    BY Zenon, <1>1, <2>1 DEF CopyInv, Owners
  <2>3. ~(x >= t)
    BY <1>0, <2>2
  <2> QED
    BY Zenon, <1>1, <2>3
<1>3. CASE RemoveChecked(g, m, o)
  <2>1. MayRemove(record[o], m, now)
    BY Zenon, <1>3 DEF Moves, CheckedMove
  <2>2. CASE record[o].garbage
    <3>1. ~RecentlyReferenced(record[o], now)
      BY Zenon, <2>2 DEF GarbageIsOld
    <3>2. ~ReferencedSince(record[o], t)
      BY Zenon, <1>0, <3>1, SinceIsRecent
    <3> QED
      BY Zenon, <3>2 DEF ReferencedSince
  <2>3. CASE ~Fresh(x, RemoveGrace, now)
    <3>1. ~(x >= t)
      BY <1>0, <1>1, <2>3 DEF Fresh
    <3> QED
      BY Zenon, <1>1, <3>1
  <2> QED
    BY Zenon, <1>1, <2>1, <2>2, <2>3 DEF MayRemove
<1> QED
  BY Zenon, <1>2, <1>3

(***************************************************************************)
(* So a reference that is recent enough for the collector stays in the     *)
(* document.                                                               *)
(***************************************************************************)
LEMMA SinceStays ==
    ASSUME Moves, CopyInv, GarbageIsOld, CasInv,
           NEW o \in Oid, ~ExposedBlob(o)', record'[o].there,
           NEW t \in Int, t <= now, now - t <= StaleNodeLimit,
           ReferencedSince(record[o], t)
    PROVE  ReferencedSince(record'[o], t)
<1>1. /\ record[o].referenced \in Int
      /\ \A m \in Node : record[o].nodes[m] \in Int
  BY Zenon, RecordTyped, StampTyped
<1>2. ASSUME NEW g \in Handler, NEW m \in Node, Removed(m, o),
             Drops(g, m, o) \/ RemoveChecked(g, m, o)
      PROVE  ReferencedSince(record'[o], t)
  <2>1. /\ record'[o].referenced = record[o].referenced
        /\ \A n \in Node \ {m} : record'[o].nodes[n] = record[o].nodes[n]
    BY Zenon, <1>2 DEF Removed
  <2>2. record[o].nodes[m] # Never => ~(record[o].nodes[m] >= t)
    BY Zenon, <1>2, RemovedIsOld
  <2> QED
    BY Zenon, <2>1, <2>2 DEF ReferencedSince
<1>3. ASSUME NEW g \in Handler, References(g, o)
      PROVE  ReferencedSince(record'[o], t)
  <2>1. record[o].referenced <= op[g].at /\ op[g].at \in Nat
    BY Zenon, <1>3, OpTyped DEF References, CasInv
  <2>2. /\ record'[o].referenced = op[g].at
        /\ record'[o].nodes = record[o].nodes
    BY Zenon, <1>3 DEF References
  <2> QED
    BY <1>1, <2>1, <2>2 DEF ReferencedSince, Never
<1>4. ASSUME NEW g \in Handler, Marks(g, o)
      PROVE  ReferencedSince(record'[o], t)
  <2>1. /\ record'[o].referenced = record[o].referenced
        /\ record'[o].nodes = record[o].nodes
    BY Zenon, <1>4 DEF Marks
  <2> QED
    BY Zenon, <2>1 DEF ReferencedSince
<1>5. ASSUME NEW g \in Handler, NEW m \in Node, Registers(g, m, o)
      PROVE  ReferencedSince(record'[o], t)
  BY Zenon, <1>5, ClockTyped, RegisteredSince
<1>6. CASE record'[o] = record[o]
  BY Zenon, <1>6
<1> QED
  BY Zenon, <1>2, <1>3, <1>4, <1>5, <1>6, RecordCases

-------------------------------------------------------------------------------
(***************************************************************************)
(* What the last steps need of the state before and after.                 *)
(***************************************************************************)
Steady ==
    /\ Moves
    /\ PinsLinked
    /\ ClockInv /\ ClockInv'
    /\ CopyInv /\ CopyInv'
    /\ GarbageIsOld /\ GarbageIsOld'
    /\ CasInv /\ CasInv'
    /\ ReferenceInv

LEMMA SteadyParts ==
    ASSUME Steady
    PROVE  Moves /\ CopyInv /\ GarbageIsOld /\ CasInv
  BY Zenon DEF Steady

(***************************************************************************)
(* A link is made, and a page of the view is used, in time.                *)
(***************************************************************************)
LEMMA SecuringInTime ==
    ASSUME Steady, NEW h \in Handler, NEW o \in Oid
    PROVE  /\ op[h].at \in Nat /\ op'[h].at \in Nat /\ now \in Nat /\ now' \in Nat
           /\ op[h].at <= now /\ op'[h].at <= now'
           /\ Securing(h, o) => now - op[h].at <= LinkDelay
           /\ Securing(h, o)' => now' - op'[h].at <= LinkDelay
           /\ op[h].pc = "gcViewed" => now - op[h].at <= PageTime
<1>1. Moves /\ Timely(op[h]) /\ Timely(op[h])'
  BY Zenon DEF Steady, ClockInv
<1>2. op[h].at \in Nat /\ op'[h].at \in Nat /\ now \in Nat /\ now' \in Nat
  BY Zenon, <1>1, OpTyped, ClockTyped
<1> QED
  BY Zenon, <1>1, <1>2 DEF Timely, Securing

(***************************************************************************)
(* A handler that is securing o after the step shows in the record.        *)
(***************************************************************************)
LEMMA SecuringSince ==
    ASSUME Steady, NEW o \in Oid, ~ExposedBlob(o)', NEW h \in Handler,
           Securing(h, o)', record'[o].there \/ ~Securing(h, o)
    PROVE  ReferencedSince(record'[o], op'[h].at)
<1>0. /\ now \in Nat /\ op[h].at \in Nat /\ op'[h].at \in Nat
      /\ ~ExposedBlob(o) /\ Moves
  BY Zenon, SecuringInTime, SteadyParts, NotExposedBlob
<1>1. CASE Securing(h, o) /\ op'[h].at = op[h].at
  <2>1. op[h].at <= now /\ now - op[h].at <= StaleNodeLimit
    BY <1>0, <1>1, SecuringInTime, TimingAssumption
  <2>2. CASE record[o].there
    <3>1. ReferencedSince(record[o], op[h].at)
      BY Zenon, <1>0, <1>1, <2>2 DEF ReferenceInv, Steady
    <3> QED
      BY <1>0, <1>1, <2>1, <3>1, SteadyParts, SinceStays
  <2>3. CASE ~record[o].there
    BY <1>0, <1>1, <2>1, <2>3, NewDocument, RegisteredSince
  <2> QED
    BY Zenon, <2>2, <2>3
<1>2. ASSUME NEW n \in Node, op'[h].at = now, Registers(h, n, o)
      PROVE  ReferencedSince(record'[o], op'[h].at)
  BY <1>0, <1>2, RegisteredSince
<1>3. CASE References(h, o) /\ op'[h].at = op[h].at
  <2>1. record'[o].referenced = op[h].at
    BY Zenon, <1>3 DEF References
  <2> QED
    BY <1>0, <1>3, <2>1 DEF ReferencedSince, Never
<1> QED
  BY Zenon, <1>0, <1>1, <1>2, <1>3, NewlySecuring

(***************************************************************************)
(* ... and keeps markGarbage away.                                         *)
(***************************************************************************)
LEMMA SecuringIsRecent ==
    ASSUME Steady, NEW o \in Oid, ~ExposedBlob(o)', NEW h \in Handler,
           Securing(h, o)', record'[o].there \/ ~Securing(h, o)
    PROVE  RecentlyReferenced(record'[o], now')
<1>1. record'[o] \in Record /\ op'[h].at \in Nat /\ now' \in Nat
  BY Zenon, SteadyParts, RecordTyped, SecuringInTime
<1>2. now' - op'[h].at <= LinkDelay
  BY Zenon, SecuringInTime
<1>3. now' - op'[h].at <= StaleNodeLimit
  BY <1>1, <1>2, TimingAssumption
<1>4. ReferencedSince(record'[o], op'[h].at)
  BY Zenon, SecuringSince
<1> QED
  BY <1>1, <1>3, <1>4, SinceIsRecent

(***************************************************************************)
(* A blob is pinned by a handler that had secured it.                      *)
(***************************************************************************)
LEMMA PinnedMoves ==
    ASSUME Steady, NEW o \in Oid, Pinned(o)'
    PROVE  Secured(o)
<1>1. PICK f \in File : o \in pinned'[f]
  BY Zenon DEF Pinned
<1>2. o \in pinned[f] \/ \E g \in Handler : Securing(g, o)
  BY Zenon, <1>1 DEF Steady, Moves, PinMove
<1> QED
  BY Zenon, <1>2 DEF Secured, Pinned

(***************************************************************************)
(* The collector's view, kept valid by every step that can pin a blob.     *)
(***************************************************************************)
LEMMA ViewStep ==
    ASSUME Steady, NEW o \in Oid, ~ExposedBlob(o)', NEW h \in Handler,
           op'[h].pc = "gcViewed", op'[h].oid = o, Secured(o)', record'[o].there
    PROVE  ReferencedSince(record'[o], op'[h].at - LinkDelay)
<1>0. /\ Moves /\ ~ExposedBlob(o)
      /\ now \in Nat /\ now' \in Nat /\ op'[h].at \in Nat /\ op'[h].at <= now'
      /\ \A n \in Node : record'[o].nodes[n] \in Int
      /\ record'[o].referenced \in Int
  BY Zenon, SteadyParts, NotExposedBlob, SecuringInTime, RecordTyped, StampTyped
<1>t. PICK t \in Int : t = op'[h].at - LinkDelay
  BY <1>0, TimingAssumption
<1> SUFFICES ReferencedSince(record'[o], t)
  BY Zenon, <1>t
<1>1. ASSUME NEW k \in Handler, Securing(k, o)'
      PROVE  ReferencedSince(record'[o], t)
  <2>1. op'[k].at \in Nat /\ now' - op'[k].at <= LinkDelay
    BY Zenon, <1>1, SecuringInTime
  <2>2. t <= op'[k].at
    BY <1>0, <1>t, <2>1, TimingAssumption
  <2>3. ReferencedSince(record'[o], op'[k].at)
    BY Zenon, <1>1, SecuringSince
  <2> QED
    BY <1>0, <2>1, <2>2, <2>3 DEF ReferencedSince
<1>2. CASE Pinned(o)'
  <2>1. Secured(o)
    BY Zenon, <1>2, PinnedMoves
  <2>2. CASE op'[h] = op[h]
    <3>1. op[h].pc = "gcViewed" /\ op[h].at = op'[h].at /\ op[h].oid = o
      BY Zenon, <2>2
    <3>2. t <= now /\ now - t <= StaleNodeLimit
      BY <1>0, <1>t, <3>1, SecuringInTime, TimingAssumption
    <3>3. CASE record[o].there
      <4>1. ReferencedSince(record[o], t)
        BY Zenon, <1>0, <1>t, <2>1, <3>1, <3>3 DEF ReferenceInv, Steady
      <4> QED
        BY Zenon, <3>2, <4>1, SteadyParts, SinceStays
    <3>4. CASE ~record[o].there
      BY Zenon, <1>0, <3>2, <3>4, NewDocument, RegisteredSince
    <3> QED
      BY Zenon, <3>3, <3>4
  <2>3. CASE Changed(h)
    <3>1. ~Linked(o) /\ UNCHANGED pinned
      BY Zenon, <2>3 DEF Changed, ChangedTimes
    <3>2. PICK f \in File : o \in pinned[f]
      BY Zenon, <1>2, <3>1 DEF Pinned
    <3> QED
      BY Zenon, <3>1, <3>2 DEF Linked, Steady, PinsLinked
  <2> QED
    BY Zenon, <1>0, <2>2, <2>3 DEF Moves, HandlerMove
<1> QED
  BY Zenon, <1>1, <1>2 DEF Secured

(***************************************************************************)
(* A collector whose CAS is still good is not after a secured blob.        *)
(***************************************************************************)
LEMMA MarkStep ==
    ASSUME Steady, NEW o \in Oid, ~ExposedBlob(o)', NEW h \in Handler,
           op'[h].pc = "gcMarking", op'[h].oid = o, h \in current'
    PROVE  ~Secured(o)'
<1> USE TimingAssumption
<1>0. /\ Moves /\ ~ExposedBlob(o) /\ record[o] \in Record
      /\ now \in Nat /\ op[h].at \in Nat
  BY Zenon, SteadyParts, NotExposedBlob, RecordTyped, SecuringInTime
<1>1. ~RecentlyReferenced(record'[o], now')
  BY Zenon DEF Steady, CasInv
<1>2. CASE op'[h] = op[h] /\ h \in current
  <2>1. ~Secured(o)
    BY Zenon, <1>0, <1>2 DEF ReferenceInv, Steady
  <2>2. ASSUME NEW k \in Handler, Securing(k, o)' PROVE FALSE
    BY Zenon, <1>1, <2>1, <2>2, SecuringIsRecent DEF Secured
  <2> QED
    BY Zenon, <2>1, <2>2, PinnedMoves DEF Secured
<1>3. CASE Changed(h)
  <2>1. /\ UNCHANGED record
        /\ op[h].pc = "gcViewed" /\ op[h].oid = o
        /\ record[o].there
        /\ ~RecentlyReferenced(record[o], now)
    BY Zenon, <1>3 DEF Changed, ChangedCas
  <2>2. ASSUME Secured(o) PROVE FALSE
    <3>1. ReferencedSince(record[o], op[h].at - LinkDelay)
      BY Zenon, <1>0, <2>1, <2>2 DEF ReferenceInv, Steady
    <3>2. now - op[h].at <= PageTime
      BY Zenon, <2>1, SecuringInTime
    <3>3. now - (op[h].at - LinkDelay) <= StaleNodeLimit /\ op[h].at - LinkDelay \in Int
      BY <1>0, <3>2
    <3> QED
      BY Zenon, <1>0, <2>1, <3>1, <3>3, SinceIsRecent
  <2>3. ASSUME NEW k \in Handler, Securing(k, o)' PROVE FALSE
    BY Zenon, <1>1, <2>1, <2>3, SecuringIsRecent
  <2> QED
    BY Zenon, <2>2, <2>3, PinnedMoves DEF Secured
<1> QED
  BY Zenon, <1>0, <1>2, <1>3 DEF Moves, HandlerMove

(***************************************************************************)
(* A secured blob is not marked and keeps a copy: the last one it could    *)
(* lose leaves MinReplicas others.                                         *)
(***************************************************************************)
LEMMA SecuredStep ==
    ASSUME Steady, NEW o \in Oid, ~ExposedBlob(o)', Secured(o)'
    PROVE  ~record'[o].garbage /\ SafeCopies(o)' # {}
<1>0. Moves /\ ~ExposedBlob(o)
  BY Zenon, SteadyParts, NotExposedBlob
<1>1. Secured(o) \/ \E k \in Handler : Securing(k, o)' /\ ~Securing(k, o)
  BY Zenon, PinnedMoves DEF Secured
<1>2. Owners(record'[o]) \subseteq SafeCopies(o)'
  BY Zenon, OwnersSafe DEF Steady
<1>3. ASSUME record'[o].garbage PROVE FALSE
  <2>1. ~RecentlyReferenced(record'[o], now')
    BY Zenon, <1>3 DEF GarbageIsOld, Steady
  <2>2. record[o].garbage \/ \E g \in Handler : Marks(g, o)
    BY Zenon, <1>0, <1>3, GarbageMoves
  <2>3. ~Secured(o)
    BY Zenon, <1>0, <2>2 DEF ReferenceInv, Marks, Steady
  <2>4. PICK k \in Handler : Securing(k, o)' /\ ~Securing(k, o)
    BY Zenon, <1>1, <2>3
  <2> QED
    BY Zenon, <2>1, <2>4, SecuringIsRecent
<1>4. CASE Secured(o)
  <2>1. PICK n \in Node : n \in SafeCopies(o)
    BY Zenon, <1>0, <1>4 DEF ReferenceInv, SafeCopies, Steady
  <2>2. ~record[o].garbage
    BY Zenon, <1>0, <1>4 DEF ReferenceInv, Steady
  <2>3. ASSUME NEW h \in Handler, RemoveChecked(h, n, o)
        PROVE  Owners(record'[o]) # {}
    BY Zenon, <1>0, <2>2, <2>3 DEF Moves, CheckedMove
  <2>4. n \in SafeCopies(o)' \/ \E h \in Handler : RemoveChecked(h, n, o)
    BY Zenon, <2>1, SteadyParts, LostCopy
  <2> QED
    BY Zenon, <1>2, <1>3, <2>3, <2>4
<1>5. ASSUME NEW k \in Handler, Securing(k, o)', ~Securing(k, o)
      PROVE  Owners(record'[o]) # {}
  <2>1. ASSUME NEW n \in Node, Registers(k, n, o) PROVE n \in Owners(record'[o])
    BY <1>0, <2>1, ClockTyped DEF Registers, Owners, Never
  <2>2. CASE References(k, o) /\ Owners(record[o]) # {}
    <3>1. record'[o].nodes = record[o].nodes
      BY Zenon, <2>2 DEF References
    <3> QED
      BY Zenon, <2>2, <3>1 DEF Owners
  <2> QED
    BY Zenon, <1>0, <1>5, <2>1, <2>2, NewlySecuring
<1> QED
  BY Zenon, <1>1, <1>2, <1>3, <1>4, <1>5

(***************************************************************************)
(* References stay in the record as long as the collector needs them.      *)
(***************************************************************************)
LEMMA ReferenceStep ==
    ASSUME Steady
    PROVE  ReferenceInv'
<1> SUFFICES ASSUME NEW o \in Oid, ~ExposedBlob(o)'
             PROVE  /\ \A h \in Handler :
                          /\ Securing(h, o)' /\ record'[o].there =>
                                ReferencedSince(record'[o], op'[h].at)
                          /\ op'[h].pc = "gcViewed" /\ op'[h].oid = o
                                /\ Secured(o)' /\ record'[o].there =>
                                ReferencedSince(record'[o], op'[h].at - LinkDelay)
                          /\ op'[h].pc = "gcMarking" /\ op'[h].oid = o
                                /\ h \in current' => ~Secured(o)'
                    /\ Secured(o)' => ~record'[o].garbage /\ SafeCopies(o)' # {}
  BY Zenon DEF ReferenceInv, ReferencedSince
<1>1. ASSUME NEW h \in Handler, Securing(h, o)', record'[o].there
      PROVE  ReferencedSince(record'[o], op'[h].at)
  BY Zenon, <1>1, SecuringSince
<1>2. ASSUME NEW h \in Handler, op'[h].pc = "gcViewed", op'[h].oid = o,
             Secured(o)', record'[o].there
      PROVE  ReferencedSince(record'[o], op'[h].at - LinkDelay)
  BY Zenon, <1>2, ViewStep
<1>3. ASSUME NEW h \in Handler, op'[h].pc = "gcMarking", op'[h].oid = o,
             h \in current'
      PROVE  ~Secured(o)'
  BY Zenon, <1>3, MarkStep
<1>4. ASSUME Secured(o)' PROVE ~record'[o].garbage /\ SafeCopies(o)' # {}
  BY Zenon, <1>4, SecuredStep
<1> QED
  BY Zenon, <1>1, <1>2, <1>3, <1>4

===============================================================================
