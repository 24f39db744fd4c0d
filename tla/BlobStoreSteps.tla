---------------------------- MODULE BlobStoreSteps ----------------------------
(***************************************************************************)
(* Every step of BlobStore moves the records, the disks, the handlers, the *)
(* clock and the file documents as BlobStoreMoves says, so that the proofs *)
(* of the invariants need not go through its thirty-odd actions.           *)
(***************************************************************************)
EXTENDS BlobStoreMoves, TLAPS

(***************************************************************************)
(* The fields of a handler that matter here.                               *)
(***************************************************************************)
Fields(r, pc, n, o, m, s, t) ==
    /\ r.pc = pc /\ r.node = n /\ r.oid = o
    /\ r.peer = m /\ r.second = s /\ r.at = t

(***************************************************************************)
(* The fields of an idle handler, and of one that starts.                  *)
(***************************************************************************)
LEMMA IdleFields == Fields(Idle, "idle", None, None, None, "none", 0)
  BY Zenon DEF Fields, Idle

LEMMA AtFields ==
    ASSUME NEW pc, NEW n, NEW o
    PROVE  Fields(At(pc, n, o), pc, n, o, None, "none", 0)
  BY Zenon DEF Fields, At, Idle

(***************************************************************************)
(* The fields of a handler that goes on.                                   *)
(***************************************************************************)
LEMMA WithPc ==
    ASSUME NEW r \in Op, NEW pc
    PROVE  Fields([r EXCEPT !.pc = pc], pc, r.node, r.oid, r.peer, r.second, r.at)
  BY Zenon DEF Fields, Op

LEMMA WithSecond ==
    ASSUME NEW r \in Op, NEW s
    PROVE  Fields([r EXCEPT !.second = s], r.pc, r.node, r.oid, r.peer, s, r.at)
  BY Zenon DEF Fields, Op

(***************************************************************************)
(* A step of a handler: what it becomes, and the file that it places.      *)
(***************************************************************************)
LEMMA Goes ==
    ASSUME TypeOK, NEW h \in Handler, NEW new, Start(h, new) \/ Continue(h, new)
    PROVE  op'[h] = new
  BY Zenon DEF TypeOK, Start, Continue

LEMMA Placed ==
    ASSUME TypeOK, NEW n \in Node, NEW o, Place(n, o)
    PROVE  o \in disk'[n]
  BY Zenon DEF TypeOK, Place

(***************************************************************************)
(* What the type invariant says of a handler.                              *)
(***************************************************************************)
LEMMA OpIs ==
    ASSUME TypeOK, NEW h \in Handler
    PROVE  /\ op[h] \in Op /\ Shape(op[h])
           /\ h \in current => op[h].pc \in {"linkGot", "gcMarking"}
  BY Zenon DEF TypeOK

LEMMA ShapeIs ==
    ASSUME TypeOK, NEW h \in Handler
    PROVE  /\ op[h].pc # "idle" => op[h].oid \in Oid
           /\ op[h].pc \in {"putting", "putStored", "reading", "posted"} => op[h].node \in Node
           /\ op[h].second # "none" => op[h].pc \in PutPc /\ op[h].peer \in Node
  BY Zenon, OpIs DEF Shape, PutPc, ServerPc

(***************************************************************************)
(* A step that writes a record.                                            *)
(***************************************************************************)
LEMMA Wrote ==
    ASSUME TypeOK, NEW o \in Oid, NEW d, Write(o, d)
    PROVE  record'[o] = d
  BY Zenon DEF TypeOK, Write

-------------------------------------------------------------------------------
RecordStep(h) ==
    \/ PutRecord(h) \/ PeerRecord(h) \/ PostRecord(h) \/ RecordSeen(h)
    \/ DropMoved(h) \/ DropSelf(h) \/ DropStale(h)
    \/ LinkSet(h) \/ GCSet(h)
    \/ \E n \in Node, o \in Oid : RemoveChecked(h, n, o)

(***************************************************************************)
(* The steps that may write an ownership record.                           *)
(***************************************************************************)
LEMMA RecordSteps ==
    ASSUME Step
    PROVE  UNCHANGED record \/ \E h \in Handler : RecordStep(h)
<1>1. ASSUME NEW h \in Handler, ClientStep(h)
      PROVE  UNCHANGED record \/ RecordStep(h)
  BY Zenon, <1>1 DEF ClientStep, RecordStep, PutStart, PutStore, PutLink, PeerStore,
              PeerFail, PostStore, LinkGet, LinkStore
<1>2. ASSUME NEW h \in Handler, RepairStep(h)
      PROVE  UNCHANGED record \/ RecordStep(h)
  BY Zenon, <1>2 DEF RepairStep, RecordStep, FetchOpen, FetchStore, FetchFail, Walk,
              VerifySeen, Miss
<1>3. ASSUME NEW h \in Handler, RemovalStep(h)
      PROVE  UNCHANGED record \/ RecordStep(h)
  BY Zenon, <1>3 DEF RemovalStep, RecordStep, RemoveBlind, RemoveFile, Suspect,
              CleanView, QueueRemoval, WorkerIsDead, GCView, GCGet
<1>4. ASSUME NEW h \in Handler, Abort(h) PROVE UNCHANGED record
  BY Zenon, <1>4 DEF Abort
<1>5. (\E f \in File : DeleteFile(f)) \/ (\E n \in Node : Crash(n) \/ Restart(n)) \/ Tick
        => UNCHANGED record
  BY Zenon DEF DeleteFile, Crash, Restart, Tick
<1> QED
  BY Zenon, <1>1, <1>2, <1>3, <1>4, <1>5 DEF Step

(***************************************************************************)
(* The fields that recordBlobOwnership leaves.                             *)
(***************************************************************************)
LEMMA OwnershipFields ==
    ASSUME NEW d \in Record, NEW n \in Node, NEW t
    PROVE  /\ AddOwner(d, n, t).there
           /\ ~AddOwner(d, n, t).garbage
           /\ AddOwner(d, n, t).referenced = d.referenced
           /\ \A m \in Node : AddOwner(d, n, t).nodes[m] =
                                IF m = n THEN t ELSE d.nodes[m]
  BY Zenon DEF AddOwner, Record

(***************************************************************************)
(* recordBlobOwnership, when it writes, registers the node that has just   *)
(* stored or seen the file, and touches no other record.                   *)
(***************************************************************************)
LEMMA Registered ==
    ASSUME TypeOK, NEW g \in Handler, NEW n \in Node, NEW q \in Oid,
           NEW force \in BOOLEAN, Storing(g, n, q), Register(q, n, force),
           ~AlreadyKnown(record[q], n, force)
    PROVE  /\ Registers(g, n, q)
           /\ \A o \in Oid : o # q => record'[o] = record[o]
<1>1. record' = [record EXCEPT ![q] = AddOwner(record[q], n, now)]
  BY Zenon DEF Register, Write, RecordOwnership
<1>2. record[q] \in Record /\ record'[q] = AddOwner(record[q], n, now)
  BY Zenon, <1>1 DEF TypeOK
<1>3. Registers(g, n, q)
  BY <1>2, OwnershipFields DEF Registers
<1>4. \A o \in Oid : o # q => record'[o] = record[o]
  BY Zenon, <1>1 DEF TypeOK
<1> QED
  BY Zenon, <1>3, <1>4

(***************************************************************************)
(* A step that calls recordBlobOwnership moves every record as RecordMove  *)
(* says.                                                                   *)
(***************************************************************************)
LEMMA RegisterMove ==
    ASSUME TypeOK, NEW g \in Handler, NEW n \in Node, NEW q \in Oid,
           NEW force \in BOOLEAN, Storing(g, n, q), Register(q, n, force)
    PROVE  \A o \in Oid : RecordMove(o)
<1>1. CASE AlreadyKnown(record[q], n, force)
  BY Zenon, <1>1 DEF Register, RecordMove
<1>2. CASE ~AlreadyKnown(record[q], n, force)
  BY <1>2, Registered DEF RecordMove
<1> QED
  BY Zenon, <1>1, <1>2

(***************************************************************************)
(* The fields that the closures write.                                     *)
(***************************************************************************)
LEMMA RemovalFields ==
    ASSUME NEW d \in Record, NEW n \in Node, NEW self, NEW e, d.there,
           e = RemoveOwnershipRecord(d, n, self)
    PROVE  /\ \A m \in Node : e.nodes[m] = IF m = n THEN Never ELSE d.nodes[m]
           /\ \/ /\ e.there
                 /\ e.garbage = d.garbage
                 /\ e.referenced = d.referenced
              \/ ~e.there /\ ~e.garbage /\ e.referenced = Never
<1> DEFINE rest == [d EXCEPT !.nodes[n] = Never]
<1>1. /\ rest.there = d.there
      /\ rest.garbage = d.garbage
      /\ rest.referenced = d.referenced
      /\ \A m \in Node : rest.nodes[m] = IF m = n THEN Never ELSE d.nodes[m]
  BY Zenon DEF Record
<1>2. CASE e = rest
  BY Zenon, <1>1, <1>2
<1>3. CASE e = NoRecord /\ Owners(rest) = {}
  BY <1>1, <1>3 DEF NoRecord, Owners
<1> QED
  BY Zenon, <1>2, <1>3 DEF RemoveOwnershipRecord

(***************************************************************************)
(* The fields that referenceBlob and markGarbage leave.                    *)
(***************************************************************************)
LEMMA ReferenceFields ==
    ASSUME NEW d \in Record, NEW t
    PROVE  /\ ReferenceBlob(d, t).there = d.there
           /\ ReferenceBlob(d, t).nodes = d.nodes
           /\ ReferenceBlob(d, t).referenced = t
           /\ ~ReferenceBlob(d, t).garbage
  BY Zenon DEF ReferenceBlob, Record

LEMMA MarkFields ==
    ASSUME NEW d \in Record
    PROVE  /\ MarkGarbage(d).there = d.there
           /\ MarkGarbage(d).nodes = d.nodes
           /\ MarkGarbage(d).referenced = d.referenced
  BY Zenon DEF MarkGarbage, Record

LEMMA WriteReferenced ==
    ASSUME NEW g \in current, NEW o \in Oid, op[g].pc = "linkGot", op[g].oid = o,
           record[o] \in Record, record'[o] = ReferenceBlob(record[o], op[g].at)
    PROVE  References(g, o)
<1>1. PICK e : e = ReferenceBlob(record[o], op[g].at)
  BY Zenon
<1>2. /\ e.there = record[o].there /\ e.nodes = record[o].nodes
      /\ e.referenced = op[g].at /\ ~e.garbage
  BY Zenon, <1>1, ReferenceFields
<1>3. record'[o] = e
  BY Zenon, <1>1
<1> QED
  BY Zenon, <1>2, <1>3 DEF References

(***************************************************************************)
(* The document that removeBlobOwnershipRecord and its checked form leave. *)
(***************************************************************************)
LEMMA WriteRemoved ==
    ASSUME TypeOK, NEW n \in Node, NEW o \in Oid, NEW self, record[o].there,
           record'[o] = RemoveOwnershipRecord(record[o], n, self)
    PROVE  Removed(n, o)
<1>1. record[o] \in Record
  BY Zenon DEF TypeOK
<1> QED
  BY <1>1, RemovalFields DEF Removed

(***************************************************************************)
(* So does one that calls removeBlobOwnershipRecord.                       *)
(***************************************************************************)
LEMMA DeregisterMove ==
    ASSUME TypeOK, NEW g \in Handler, NEW n \in Node, NEW q \in Oid, NEW self,
           \/ Dropping(g, n, q) /\ op[g].pc # "removing"
           \/ Blind(g, n, q),
           Deregister(q, n, self)
    PROVE  \A o \in Oid : RecordMove(o)
<1>1. CASE UNCHANGED record
  BY Zenon, <1>1 DEF RecordMove
<1>2. CASE record[q].there /\ Write(q, RemoveOwnershipRecord(record[q], n, self))
  <2>1. Removed(n, q)
    BY Zenon, <1>2, Wrote, WriteRemoved
  <2>2. \A o \in Oid : o # q => record'[o] = record[o]
    BY Zenon, <1>2 DEF Write, TypeOK
  <2> QED
    BY Zenon, <2>1, <2>2 DEF RecordMove, Drops
<1> QED
  BY Zenon, <1>1, <1>2 DEF Deregister

(***************************************************************************)
(* Every step of the system moves every record as RecordMove says.         *)
(***************************************************************************)
LEMMA RecordMoves ==
    ASSUME TypeOK, Step
    PROVE  \A o \in Oid : RecordMove(o)
<1>1. CASE UNCHANGED record
  BY Zenon, <1>1 DEF RecordMove
<1>2. ASSUME NEW h \in Handler,
             PutRecord(h) \/ PeerRecord(h) \/ PostRecord(h) \/ RecordSeen(h)
      PROVE  \A o \in Oid : RecordMove(o)
  <2>1. PICK n \in Node, force \in BOOLEAN :
           Storing(h, n, op[h].oid) /\ Register(op[h].oid, n, force)
    BY Zenon, <1>2 DEF PutRecord, PeerRecord, PostRecord, RecordSeen, Storing,
                TypeOK, Shape, PutPc, ServerPc
  <2>2. op[h].oid \in Oid
    BY Zenon, <1>2 DEF PutRecord, PeerRecord, PostRecord, RecordSeen, TypeOK, Shape, PutPc
  <2> QED
    BY Zenon, <2>1, <2>2, RegisterMove
<1>3. ASSUME NEW h \in Handler, DropMoved(h) \/ DropSelf(h) \/ DropStale(h)
      PROVE  \A o \in Oid : RecordMove(o)
  <2>1. op[h].oid \in Oid /\ op[h].node \in Node
    BY Zenon, <1>3 DEF DropMoved, DropSelf, DropStale, TypeOK, Shape, ServerPc, TargetPc
  <2>2. \/ /\ Dropping(h, op[h].node, op[h].oid)
           /\ op[h].pc # "removing"
        \/ Blind(h, op[h].node, op[h].oid)
    BY Zenon, <1>3 DEF DropMoved, DropSelf, DropStale, Dropping, Blind
  <2>3. \E self : Deregister(op[h].oid, op[h].node, self)
    BY Zenon, <1>3 DEF DropMoved, DropSelf, DropStale
  <2> QED
    BY Zenon, <2>1, <2>2, <2>3, DeregisterMove
<1>4. ASSUME NEW h \in Handler, LinkSet(h) PROVE \A o \in Oid : RecordMove(o)
  <2>1. CASE UNCHANGED record
    BY Zenon, <2>1 DEF RecordMove
  <2>2. CASE h \in current /\ op[h].pc = "linkGot"
             /\ Write(op[h].oid, ReferenceBlob(record[op[h].oid], op[h].at))
    <3>1. PICK q \in Oid : q = op[h].oid
      BY Zenon, <2>2 DEF TypeOK, Shape
    <3>2. record[q] \in Record /\ record'[q] = ReferenceBlob(record[q], op[h].at)
      BY Zenon, <2>2, <3>1 DEF Write, TypeOK
    <3>3. References(h, q)
      BY Zenon, <2>2, <3>1, <3>2, WriteReferenced
    <3>4. \A o \in Oid : o # q => record'[o] = record[o]
      BY Zenon, <2>2, <3>1 DEF Write, TypeOK
    <3> QED
      BY Zenon, <3>3, <3>4 DEF RecordMove
  <2> QED
    BY Zenon, <1>4, <2>1, <2>2 DEF LinkSet
<1>5. ASSUME NEW h \in Handler, GCSet(h) PROVE \A o \in Oid : RecordMove(o)
  <2>1. CASE UNCHANGED record
    BY Zenon, <2>1 DEF RecordMove
  <2>2. CASE h \in current /\ op[h].pc = "gcMarking"
             /\ Write(op[h].oid, MarkGarbage(record[op[h].oid]))
    <3>1. PICK q \in Oid : q = op[h].oid
      BY Zenon, <2>2 DEF TypeOK, Shape
    <3>2. record[q] \in Record /\ record'[q] = MarkGarbage(record[q])
      BY Zenon, <2>2, <3>1 DEF Write, TypeOK
    <3>3. Marks(h, q)
      BY Zenon, <2>2, <3>1, <3>2, MarkFields DEF Marks
    <3>4. \A o \in Oid : o # q => record'[o] = record[o]
      BY Zenon, <2>2, <3>1 DEF Write, TypeOK
    <3> QED
      BY Zenon, <3>3, <3>4 DEF RecordMove
  <2> QED
    BY Zenon, <1>5, <2>1, <2>2 DEF GCSet
<1>6. ASSUME NEW h \in Handler, NEW n \in Node, NEW q \in Oid,
             RemoveChecked(h, n, q)
      PROVE  \A o \in Oid : RecordMove(o)
  <2> SUFFICES ASSUME NEW o \in Oid PROVE RecordMove(o)
    BY Zenon
  <2>1. o # q => record'[o] = record[o]
    BY Zenon, <1>6 DEF RemoveChecked, Write, TypeOK
  <2> QED
    BY Zenon, <1>6, <2>1 DEF RecordMove
<1> QED
  BY Zenon, RecordSteps, <1>1, <1>2, <1>3, <1>4, <1>5, <1>6 DEF RecordStep

-------------------------------------------------------------------------------
(***************************************************************************)
(* Only the owner of handler h moves it.                                   *)
(***************************************************************************)
LEMMA OthersStay ==
    ASSUME TypeOK, NEW h \in Handler,
           ClientStep(h) \/ RepairStep(h) \/ RemovalStep(h) \/ Abort(h)
    PROVE  /\ op' = [op EXCEPT ![h] = op'[h]]
           /\ \A g \in Handler \ {h} : op'[g] = op[g]
           /\ UNCHANGED <<downAt, now>>
<1> USE DEF Start, Continue, TypeOK
<1>1. CASE ClientStep(h)
  BY ZenonT(30), <1>1 DEF ClientStep, PutStart, PutStore, PutRecord, PutLink, PeerStore,
        PeerRecord, PeerFail, PostStore, PostRecord, LinkGet, LinkSet, LinkStore
<1>2. CASE RepairStep(h)
  BY ZenonT(30), <1>2 DEF RepairStep, FetchOpen, Walk, Miss, FetchStore, FetchFail,
        DropMoved, RecordSeen, VerifySeen, DropSelf
<1>3. CASE RemovalStep(h)
  BY ZenonT(30), <1>3 DEF RemovalStep, RemoveChecked, RemoveBlind, Suspect, QueueRemoval,
        GCView, RemoveFile, CleanView, DropStale, WorkerIsDead, GCGet, GCSet
<1>4. CASE Abort(h)
  BY Zenon, <1>4 DEF Abort
<1> QED
  BY Zenon, <1>1, <1>2, <1>3, <1>4

(***************************************************************************)
(* A file only leaves a disk by the os.Remove of removeObject.             *)
(***************************************************************************)
LEMMA DiskMoves ==
    ASSUME TypeOK, Step, NEW n \in Node, NEW o \in Oid
    PROVE  DiskMove(n, o)
<1> SUFFICES ASSUME o \in disk[n], o \notin disk'[n]
             PROVE  \E g \in Handler :
                       /\ op[g].pc \in {"removing", "blind"}
                       /\ op[g].node = n
                       /\ op[g].oid = o
  BY Zenon DEF DiskMove
<1> USE DEF Place, TypeOK
<1>1. ASSUME NEW h \in Handler, ClientStep(h) PROVE FALSE
  BY <1>1, ZenonT(30) DEF ClientStep, PutStart, PutStore, PutRecord, PutLink, PeerStore,
        PeerRecord, PeerFail, PostStore, PostRecord, LinkGet, LinkSet, LinkStore
<1>2. ASSUME NEW h \in Handler, RepairStep(h) PROVE FALSE
  BY ZenonT(30), <1>2 DEF RepairStep, FetchOpen, Walk, Miss, FetchStore, FetchFail,
        DropMoved, RecordSeen, VerifySeen, DropSelf
<1>3. ASSUME NEW h \in Handler, RemovalStep(h) PROVE RemoveFile(h)
  BY ZenonT(30), <1>3 DEF RemovalStep, RemoveChecked, RemoveBlind, Suspect, QueueRemoval,
        GCView, CleanView, DropStale, WorkerIsDead, GCGet, GCSet
<1>4. ASSUME NEW h \in Handler, Abort(h) PROVE FALSE
  BY Zenon, <1>4 DEF Abort
<1>5. ~(\E f \in File : DeleteFile(f)) /\ ~(\E m \in Node : Crash(m) \/ Restart(m)) /\ ~Tick
  BY Zenon DEF DeleteFile, Crash, Restart, Tick
<1>6. PICK h \in Handler : RemoveFile(h)
  BY Zenon, <1>1, <1>2, <1>3, <1>4, <1>5 DEF Step
<1> QED
  BY Zenon, <1>6 DEF RemoveFile

(***************************************************************************)
(* Only the clock, a crash and a restart change times.                     *)
(***************************************************************************)
LEMMA TimeMoves ==
    ASSUME TypeOK, Step
    PROVE  TimeMove
  BY Zenon, OthersStay DEF Step, DeleteFile, TimeMove

-------------------------------------------------------------------------------
(***************************************************************************)
(* The same, for a handler with given fields.                              *)
(***************************************************************************)
LEMMA CopiesTo ==
    ASSUME NEW g \in Handler, NEW pc, NEW n, NEW o, NEW m, NEW c, NEW t,
           Fields(op'[g], pc, n, o, m, c, t),
           pc \in {"putStored", "posted", "seen"} => Storing(g, n, o) \/ o \in disk'[n],
           c = "stored" => Storing(g, m, o) \/ o \in disk'[m],
           pc \in {"removing", "missing", "suspect", "cleaning", "gcEmpty"} =>
                    \/ Dropping(g, n, o) /\ op[g].pc = "suspect" /\ pc = "cleaning"
                    \/ pc \in {"suspect", "cleaning"} /\ Stale(n)
                    \/ n \notin Owners(record'[o])
                    \/ RemoveChecked(g, n, o)
                    \/ o \notin disk[n] /\ UNCHANGED record,
           pc = "removing" => RemoveChecked(g, n, o)
    PROVE  ChangedCopies(g)
<1>1. /\ op'[g].pc = pc /\ op'[g].node = n /\ op'[g].oid = o
      /\ op'[g].peer = m /\ op'[g].second = c
  BY Zenon DEF Fields
<1>2. ASSUME NEW i \in Node, NEW p \in Oid, Storing(g, i, p)'
      PROVE  Storing(g, i, p) \/ p \in disk'[i]
  BY Zenon, <1>1, <1>2 DEF Storing
<1>3. ASSUME NEW i \in Node, NEW p \in Oid, Dropping(g, i, p)'
      PROVE  \/ Dropping(g, i, p) /\ op[g].pc = "suspect" /\ op'[g].pc = "cleaning"
             \/ op'[g].pc \in {"suspect", "cleaning"} /\ Stale(i)
             \/ i \notin Owners(record'[p])
             \/ RemoveChecked(g, i, p)
             \/ p \notin disk[i] /\ UNCHANGED record
  <2>1. i = n /\ p = o /\ pc \in {"removing", "missing", "suspect", "cleaning", "gcEmpty"}
    BY Zenon, <1>1, <1>3 DEF Dropping
  <2> QED
    BY Zenon, <1>1, <2>1
<1>4. op'[g].pc = "removing" => RemoveChecked(g, op'[g].node, op'[g].oid)
  BY Zenon, <1>1
<1> QED
  BY Zenon, <1>2, <1>3, <1>4 DEF ChangedCopies

LEMMA CopiesKept ==
    ASSUME NEW g \in Handler, NEW pc, NEW n, NEW o, NEW m, NEW c, NEW t,
           Fields(op'[g], pc, n, o, m, c, t), c # "stored",
           pc \in {"idle", "putting", "linkGot", "linked", "linkUnsafe", "gcViewed",
                   "gcMarking", "reading", "blind", "purging", "moved"}
    PROVE  ChangedCopies(g)
<1>1. /\ pc \notin {"putStored", "posted", "seen"}
      /\ pc \notin {"removing", "missing", "suspect", "cleaning", "gcEmpty"}
      /\ pc # "removing"
  BY Zenon
<1> QED
  BY Zenon, <1>1, CopiesTo

LEMMA CopiesPut ==
    ASSUME NEW g \in Handler, NEW pc, NEW n, NEW o, NEW m, NEW c, NEW t,
           Fields(op'[g], pc, n, o, m, c, t),
           pc \in {"putting", "putStored", "putRecorded", "posted"},
           pc \in {"putStored", "posted"} => Storing(g, n, o) \/ o \in disk'[n],
           c = "stored" => Storing(g, m, o) \/ o \in disk'[m]
    PROVE  ChangedCopies(g)
<1>1. /\ pc \in {"putStored", "posted", "seen"} => Storing(g, n, o) \/ o \in disk'[n]
      /\ pc \notin {"removing", "missing", "suspect", "cleaning", "gcEmpty"}
      /\ pc # "removing"
  BY Zenon
<1> QED
  BY Zenon, <1>1, CopiesTo

LEMMA TimesTo ==
    ASSUME NEW g \in Handler, NEW pc, NEW n, NEW o, NEW m, NEW c, NEW t,
           Fields(op'[g], pc, n, o, m, c, t),
           t = op[g].at \/ t = now \/ t = 0,
           pc \in {"putRecorded", "linkGot", "linked"} =>
              \/ t = now
              \/ t = op[g].at /\ op[g].pc \in {"putRecorded", "linkGot", "linked"},
           pc = "gcViewed" => t = now /\ ~Linked(o) /\ UNCHANGED <<record, pinned>>
    PROVE  ChangedTimes(g)
  BY Zenon DEF Fields, ChangedTimes

LEMMA ServerTo ==
    ASSUME NEW g \in Handler, NEW pc, NEW n, NEW o, NEW m, NEW c, NEW t,
           Fields(op'[g], pc, n, o, m, c, t),
           pc \in PutPc \cup ServerPc =>
              \/ Up(n)
              \/ n = op[g].node /\ op[g].pc \in PutPc \cup ServerPc
              \/ n = op[g].peer /\ op[g].second = "stored",
           c \in {"sent", "stored"} =>
              \/ Up(m)
              \/ m = op[g].peer /\ op[g].second \in {"sent", "stored"}
    PROVE  ChangedServer(g)
  BY Zenon DEF Fields, ChangedServer

(***************************************************************************)
(* Most handlers neither secure a blob nor come to hold a CAS.             *)
(***************************************************************************)
LEMMA PlainTo ==
    ASSUME TypeOK', NEW g \in Handler, NEW pc, NEW n, NEW o, NEW m, NEW c, NEW t,
           Fields(op'[g], pc, n, o, m, c, t),
           ChangedCopies(g), ChangedTimes(g), ChangedServer(g),
           pc \notin {"putRecorded", "linked"},
           pc \notin {"linkGot", "gcMarking"}
    PROVE  Changed(g)
<1>1. op'[g].pc = pc
  BY Zenon DEF Fields
<1>2. g \notin current'
  BY Zenon, <1>1 DEF TypeOK
<1> QED
  BY Zenon, <1>1, <1>2 DEF Changed, Secures, ChangedCas

LEMMA IdleTo == ASSUME TypeOK', NEW g \in Handler, op'[g] = Idle  PROVE Changed(g)
<1>1. Fields(op'[g], "idle", None, None, None, "none", 0)
  BY Zenon, IdleFields
<1>2. ChangedCopies(g)
  BY Zenon, <1>1, CopiesKept
<1>3. ChangedTimes(g)
  BY Zenon, <1>1, TimesTo
<1>4. ChangedServer(g)
  BY Zenon, <1>1, ServerTo DEF PutPc, ServerPc
<1> QED
  BY <1>1, <1>2, <1>3, <1>4, PlainTo

(***************************************************************************)
(* A peer that has the file records it without the handler that sent it.   *)
(***************************************************************************)
LEMMA PeerTo ==
    ASSUME TypeOK, TypeOK', NEW g \in Handler, op[g].second = "stored",
           op'[g] = At("posted", op[g].peer, op[g].oid)
    PROVE  Changed(g)
<1>1. Fields(op'[g], "posted", op[g].peer, op[g].oid, None, "none", 0)
  BY Zenon, AtFields
<1>2. ChangedCopies(g)
  <2>1. Storing(g, op[g].peer, op[g].oid)
    BY Zenon DEF Storing
  <2> QED
    BY Zenon, <1>1, <2>1, CopiesPut
<1>3. ChangedTimes(g)
  BY Zenon, <1>1, TimesTo
<1>4. ChangedServer(g)
  BY Zenon, <1>1, ServerTo
<1> QED
  BY <1>1, <1>2, <1>3, <1>4, PlainTo

LEMMA NotCurrent ==
    ASSUME TypeOK', NEW g \in Handler, NEW pc, NEW n, NEW o, NEW m, NEW c, NEW t,
           Fields(op'[g], pc, n, o, m, c, t), pc \notin {"linkGot", "gcMarking"}
    PROVE  g \notin current' /\ ChangedCas(g)
<1>1. g \notin current'
  BY Zenon DEF TypeOK, Fields
<1> QED
  BY Zenon, <1>1 DEF ChangedCas

(***************************************************************************)
(* A handler that starts on a node that is up.                             *)
(***************************************************************************)
LEMMA StartTo ==
    ASSUME TypeOK', NEW h \in Handler, NEW pc, NEW n, NEW o, NEW m, NEW r,
           r = At(pc, n, o) \/ r = [At(pc, n, o) EXCEPT !.peer = m],
           op'[h] = r,
           \/ pc \in {"posted", "seen"} /\ Up(n) /\ o \in disk'[n]
           \/ pc = "missing" /\ Up(n) /\ o \notin disk[n] /\ UNCHANGED record
           \/ pc \in {"reading", "blind"} /\ Up(n)
           \/ pc = "suspect" /\ Stale(n)
           \/ pc \in {"purging", "moved"}
    PROVE  Changed(h)
<1>1. PICK p : Fields(op'[h], pc, n, o, p, "none", 0)
  <2>1. CASE r = At(pc, n, o)
    BY Zenon, <2>1, AtFields
  <2>2. CASE r = [At(pc, n, o) EXCEPT !.peer = m]
    BY <2>2 DEF Fields, At, Idle
  <2> QED
    BY Zenon, <2>1, <2>2
<1>2. ChangedCopies(h)
  BY Zenon, <1>1, CopiesTo
<1>3. ChangedTimes(h)
  BY Zenon, <1>1, TimesTo
<1>4. ChangedServer(h)
  <2>1. pc \in PutPc \cup ServerPc => Up(n)
    BY Zenon DEF PutPc, ServerPc
  <2> QED
    BY Zenon, <1>1, <2>1, ServerTo
<1> QED
  BY Zenon, <1>1, <1>2, <1>3, <1>4, PlainTo

(***************************************************************************)
(* The second copy of an upload goes on.                                   *)
(***************************************************************************)
LEMMA SecondTo ==
    ASSUME TypeOK, TypeOK', NEW h \in Handler, op[h].pc \in PutPc, NEW c,
           op'[h] = [op[h] EXCEPT !.second = c],
           \/ c = "stored" /\ op[h].second = "sent" /\ op[h].oid \in disk'[op[h].peer]
           \/ c \in {"ok", "failed"}
    PROVE  Changed(h)
<1> DEFINE r == op[h]
<1>1. Fields(op'[h], r.pc, r.node, r.oid, r.peer, c, r.at)
  BY OpIs, WithSecond
<1>2. ChangedCopies(h)
  <2>1. r.pc \in {"putStored", "posted"} => Storing(h, r.node, r.oid)
    BY Zenon DEF Storing
  <2>2. r.pc \in {"putting", "putStored", "putRecorded", "posted"}
    BY Zenon DEF PutPc
  <2>3. c = "stored" => r.oid \in disk'[r.peer]
    BY Zenon
  <2> QED
    BY ZenonT(30), <1>1, <2>1, <2>2, <2>3, CopiesPut
<1>3. ChangedTimes(h)
  BY Zenon, <1>1, TimesTo DEF PutPc
<1>4. ChangedServer(h)
  <2>1. c \in {"sent", "stored"} => r.second \in {"sent", "stored"}
    BY Zenon
  <2>2. r.pc \in PutPc \cup ServerPc
    BY Zenon
  <2> QED
    BY Zenon, <1>1, <2>1, <2>2, ServerTo
<1>5. Secures(h)
  BY Zenon, <1>1 DEF Secures, Fields
<1>6. ChangedCas(h)
  BY Zenon, <1>1, NotCurrent DEF PutPc
<1> QED
  BY Zenon, <1>2, <1>3, <1>4, <1>5, <1>6 DEF Changed

(***************************************************************************)
(* A handler without a second copy goes on.                                *)
(***************************************************************************)
LEMMA OnTo ==
    ASSUME TypeOK', NEW h \in Handler, NEW pc, NEW n, NEW o, NEW m, NEW t,
           Fields(op'[h], pc, n, o, m, "none", t), t = op[h].at, n = op[h].node,
           \/ pc = "posted" /\ op[h].pc \in ServerPc /\ o \in disk'[n]
           \/ /\ pc = "missing" /\ op[h].pc \in ServerPc
              /\ o \notin disk[n] /\ UNCHANGED record
           \/ pc = "cleaning" /\ op[h].pc = "suspect" /\ Dropping(h, n, o)
           \/ pc = "cleaning" /\ Stale(n)
    PROVE  Changed(h)
<1> DEFINE r == op[h]
<1>2. ChangedCopies(h)
  <2>1. /\ pc \in {"putStored", "posted", "seen"} => o \in disk'[n]
        /\ pc \in {"removing", "missing", "suspect", "cleaning", "gcEmpty"} =>
              \/ Dropping(h, n, o) /\ op[h].pc = "suspect" /\ pc = "cleaning"
              \/ pc \in {"suspect", "cleaning"} /\ Stale(n)
              \/ o \notin disk[n] /\ UNCHANGED record
        /\ pc # "removing"
        /\ "none" # "stored"
    BY Zenon
  <2> QED
    BY Zenon, <2>1, CopiesTo
<1>3. ChangedTimes(h)
  <2>1. pc \notin {"putRecorded", "linkGot", "linked"} /\ pc # "gcViewed"
    BY Zenon
  <2> QED
    BY Zenon, <2>1, TimesTo
<1>4. ChangedServer(h)
  <2>1. CASE pc = "cleaning"
    <3>1. pc \notin PutPc \cup ServerPc
      BY Zenon, <2>1 DEF PutPc, ServerPc
    <3> QED
      BY Zenon, <3>1, ServerTo
  <2>2. CASE pc # "cleaning"
    <3>1. r.pc \in PutPc \cup ServerPc
      BY Zenon, <2>2
    <3> QED
      BY Zenon, <3>1, ServerTo
  <2> QED
    BY Zenon, <2>1, <2>2
<1> QED
  BY Zenon, <1>2, <1>3, <1>4, PlainTo

(***************************************************************************)
(* The transfer of performFetch is over.                                   *)
(***************************************************************************)
LEMMA FetchedTo ==
    ASSUME TypeOK', NEW h \in Handler, op'[h] = Fetched(op[h])
    PROVE  Changed(h)
<1>1. CASE op[h].peer = None
  BY Zenon, <1>1, IdleTo DEF Fetched
<1>2. CASE op[h].peer # None
  <2>1. op'[h] = At("moved", op[h].peer, op[h].oid)
    BY Zenon, <1>2 DEF Fetched
  <2> QED
    BY Zenon, <2>1, StartTo
<1> QED
  BY Zenon, <1>1, <1>2

(***************************************************************************)
(* Uploads and links change a handler so.                                  *)
(***************************************************************************)
LEMMA ClientMoves ==
    ASSUME TypeOK, TypeOK', NEW h \in Handler, ClientStep(h)
    PROVE  Changed(h)
<1> DEFINE r == op[h]
<1>a. r \in Op
  BY Zenon, OpIs
<1>1. ASSUME NEW n \in Node, NEW f \in File, NEW o \in Oid, NEW m \in Node \cup {None},
             PutStart(h, n, f, o, m)
      PROVE  Changed(h)
  <2>1. PICK s : s = IF m = None THEN "none" ELSE "sent"
    BY Zenon
  <2>2. op'[h] = [At("putting", n, o) EXCEPT !.file = f, !.peer = m, !.second = s]
    BY Zenon, <1>1, <2>1, Goes DEF PutStart
  <2>3. Fields(op'[h], "putting", n, o, m, s, 0)
    BY Zenon, <2>2 DEF Fields, At, Idle
  <2>4. ChangedCopies(h)
    <3>1. s # "stored"
      BY Zenon, <2>1
    <3> QED
      BY Zenon, <2>3, <3>1, CopiesKept
  <2>5. ChangedTimes(h)
    BY Zenon, <2>3, TimesTo
  <2>6. ChangedServer(h)
    <3>1. Up(n) /\ (s \in {"sent", "stored"} => Up(m))
      BY Zenon, <1>1, <2>1 DEF PutStart
    <3> QED
      BY Zenon, <2>3, <3>1, ServerTo
  <2> QED
    BY <2>3, <2>4, <2>5, <2>6, PlainTo
<1>2. CASE PutStore(h)
  <2>1. r.pc = "putting" /\ r.oid \in disk'[r.node]
    BY Zenon, <1>2, ShapeIs, Placed DEF PutStore
  <2>2. op'[h] = [r EXCEPT !.pc = "putStored"]
    BY Zenon, <1>2, Goes DEF PutStore
  <2>3. Fields(op'[h], "putStored", r.node, r.oid, r.peer, r.second, r.at)
    BY <1>a, <2>2, WithPc
  <2>4. r.second = "stored" => Storing(h, r.peer, r.oid)
    BY Zenon DEF Storing
  <2>5. ChangedCopies(h)
    BY Zenon, <2>1, <2>3, <2>4, CopiesPut
  <2>6. ChangedTimes(h)
    BY Zenon, <2>3, TimesTo
  <2>7. ChangedServer(h)
    BY Zenon, <2>1, <2>3, ServerTo DEF PutPc
  <2> QED
    BY <2>3, <2>5, <2>6, <2>7, PlainTo
<1>3. CASE PutRecord(h)
  <2>1. r.pc = "putStored" /\ r.node \in Node /\ Registers(h, r.node, r.oid)
    <3>1. r.oid \in Oid /\ r.node \in Node /\ Storing(h, r.node, r.oid) /\ r.pc = "putStored"
      BY Zenon, <1>3, ShapeIs DEF PutRecord, Storing
    <3>2. ~AlreadyKnown(record[r.oid], r.node, TRUE)
      BY Zenon DEF AlreadyKnown
    <3> QED
      BY Zenon, <1>3, <3>1, <3>2, Registered DEF PutRecord
  <2>2. op'[h] = [r EXCEPT !.pc = "putRecorded", !.at = now]
    BY Zenon, <1>3, Goes DEF PutRecord
  <2>3. Fields(op'[h], "putRecorded", r.node, r.oid, r.peer, r.second, now)
    BY Zenon, <1>a, <2>2 DEF Fields, Op
  <2>4. r.second = "stored" => Storing(h, r.peer, r.oid)
    BY Zenon DEF Storing
  <2>5. ChangedCopies(h)
    <3>1. "putRecorded" \notin {"putStored", "posted"}
      BY Zenon
    <3> QED
      BY Zenon, <2>3, <2>4, <3>1, CopiesPut
  <2>6. ChangedTimes(h)
    BY Zenon, <2>3, TimesTo
  <2>7. ChangedServer(h)
    BY Zenon, <2>1, <2>3, ServerTo DEF PutPc
  <2>8. Secures(h)
    BY Zenon, <2>1, <2>3 DEF Secures, Fields
  <2>9. ChangedCas(h)
    BY <2>3, NotCurrent
  <2> QED
    BY Zenon, <2>5, <2>6, <2>7, <2>8, <2>9 DEF Changed
<1>4. CASE PutLink(h)
  BY Zenon, <1>4, Goes, IdleTo DEF PutLink
<1>5. CASE PeerStore(h)
  <2>1. r.second = "sent" /\ r.oid \in disk'[r.peer] /\ r.pc \in PutPc
    BY Zenon, <1>5, ShapeIs, Placed DEF PeerStore
  <2>2. op'[h] = [r EXCEPT !.second = "stored"]
    BY Zenon, <1>5, Goes DEF PeerStore
  <2> QED
    BY Zenon, <2>1, <2>2, SecondTo
<1>6. CASE PeerRecord(h)
  <2>1. r.second = "stored" /\ r.pc \in PutPc
    BY Zenon, <1>6, ShapeIs DEF PeerRecord
  <2>2. op'[h] = [r EXCEPT !.second = "ok"]
    BY Zenon, <1>6, Goes DEF PeerRecord
  <2> QED
    BY Zenon, <2>1, <2>2, SecondTo
<1>7. CASE PeerFail(h)
  <2>1. r.second \in {"sent", "stored", "ok"} /\ r.pc \in PutPc
    BY Zenon, <1>7, ShapeIs DEF PeerFail
  <2>2. op'[h] = [r EXCEPT !.second = "failed"]
    BY Zenon, <1>7, Goes DEF PeerFail
  <2> QED
    BY Zenon, <2>1, <2>2, SecondTo
<1>8. ASSUME NEW n \in Node, NEW o \in Oid, PostStore(h, n, o)
      PROVE  Changed(h)
  <2>1. Up(n) /\ o \in disk'[n] /\ op'[h] = At("posted", n, o)
    BY Zenon, <1>8, Placed, Goes DEF PostStore
  <2> QED
    BY Zenon, <2>1, StartTo
<1>9. CASE PostRecord(h)
  BY Zenon, <1>9, Goes, FetchedTo DEF PostRecord
<1>10. ASSUME NEW f \in File, NEW o \in Oid, LinkGet(h, f, o)
       PROVE  Changed(h)
  <2>1. PICK pc : pc = IF record[o].there THEN "linkGot" ELSE "linkUnsafe"
    BY Zenon
  <2>2. op'[h] = [At(pc, None, o) EXCEPT !.file = f, !.at = now]
    BY Zenon, <1>10, <2>1, Goes DEF LinkGet
  <2>3. Fields(op'[h], pc, None, o, None, "none", now)
    BY Zenon, <2>2 DEF Fields, At, Idle
  <2>4. ChangedCopies(h)
    <3>1. pc \in {"linkGot", "linkUnsafe"}
      BY Zenon, <2>1
    <3> QED
      BY Zenon, <2>3, <3>1, CopiesKept
  <2>5. ChangedTimes(h)
    BY Zenon, <2>1, <2>3, TimesTo
  <2>6. ChangedServer(h)
    <3>1. pc \notin PutPc \cup ServerPc
      BY Zenon, <2>1 DEF PutPc, ServerPc
    <3> QED
      BY Zenon, <2>3, <3>1, ServerTo
  <2>7. Secures(h)
    BY Zenon, <2>1, <2>3 DEF Secures, Fields
  <2>8. ChangedCas(h)
    <3>1. op'[h].pc = pc /\ op'[h].at = now /\ UNCHANGED record
      BY Zenon, <1>10, <2>3 DEF LinkGet, Fields
    <3>2. h \in current' => pc = "linkGot"
      BY Zenon, <2>1, <2>3, NotCurrent DEF ChangedCas, Fields
    <3> QED
      BY Zenon, <3>1, <3>2 DEF ChangedCas
  <2> QED
    BY Zenon, <2>4, <2>5, <2>6, <2>7, <2>8 DEF Changed
<1>11. CASE LinkSet(h)
  <2>1. PICK pc : pc = IF h \in current /\ Owners(record[r.oid]) # {} THEN "linked"
                                                                     ELSE "linkUnsafe"
    BY Zenon
  <2>2. r.pc = "linkGot" /\ op'[h] = [r EXCEPT !.pc = pc]
    BY Zenon, <1>11, <2>1, Goes DEF LinkSet
  <2>3. Fields(op'[h], pc, r.node, r.oid, r.peer, r.second, r.at)
    BY <1>a, <2>2, WithPc
  <2>4. h \in current => References(h, r.oid)
    <3>1. r.oid \in Oid
      BY Zenon, <2>2, ShapeIs
    <3>2. h \in current => record'[r.oid] = ReferenceBlob(record[r.oid], r.at)
      BY Zenon, <1>11, <3>1, Wrote DEF LinkSet
    <3>3. record[r.oid] \in Record
      BY Zenon, <3>1 DEF TypeOK
    <3> QED
      BY Zenon, <2>2, <3>1, <3>2, <3>3, WriteReferenced
  <2>5. r.second = "none"
    BY Zenon, <2>2, ShapeIs DEF PutPc
  <2>6. ChangedCopies(h)
    <3>1. pc \in {"linked", "linkUnsafe"}
      BY Zenon, <2>1
    <3> QED
      BY Zenon, <2>3, <2>5, <3>1, CopiesKept
  <2>7. ChangedTimes(h)
    BY Zenon, <2>1, <2>2, <2>3, TimesTo
  <2>8. ChangedServer(h)
    <3>1. pc \notin PutPc \cup ServerPc
      BY Zenon, <2>1 DEF PutPc, ServerPc
    <3> QED
      BY Zenon, <2>3, <2>5, <3>1, ServerTo
  <2>9. Secures(h)
    BY Zenon, <2>1, <2>3, <2>4 DEF Secures, Fields
  <2>10. ChangedCas(h)
    <3>1. pc \notin {"linkGot", "gcMarking"}
      BY Zenon, <2>1
    <3> QED
      BY Zenon, <2>3, <3>1, NotCurrent
  <2> QED
    BY Zenon, <2>6, <2>7, <2>8, <2>9, <2>10 DEF Changed
<1>12. CASE LinkStore(h)
  BY Zenon, <1>12, Goes, IdleTo DEF LinkStore
<1> QED
  BY Zenon, <1>1, <1>2, <1>3, <1>4, <1>5, <1>6, <1>7, <1>8, <1>9, <1>10, <1>11, <1>12
     DEF ClientStep

(***************************************************************************)
(* So does the repair of copies.                                           *)
(***************************************************************************)
LEMMA RepairMoves ==
    ASSUME TypeOK, TypeOK', NEW h \in Handler, RepairStep(h)
    PROVE  Changed(h)
<1> DEFINE r == op[h]
<1>a. r \in Op
  BY Zenon, OpIs
<1>1. ASSUME NEW n \in Node, NEW o \in Oid, NEW prev \in Node \cup {None},
             FetchOpen(h, n, o, prev)
      PROVE  Changed(h)
  <2>1. Up(n) /\ op'[h] = [At("reading", n, o) EXCEPT !.peer = prev]
    BY Zenon, <1>1, Goes DEF FetchOpen
  <2> QED
    BY Zenon, <2>1, StartTo
<1>2. ASSUME NEW n \in Node, NEW o \in Oid, Walk(h, n, o)
      PROVE  Changed(h)
  <2>1. Up(n) /\ o \in disk'[n] /\ op'[h] = At("seen", n, o)
    BY Zenon, <1>2, Goes DEF Walk
  <2> QED
    BY Zenon, <2>1, StartTo
<1>3. ASSUME NEW n \in Node, NEW o \in Oid, Miss(h, n, o)
      PROVE  Changed(h)
  <2>1. Up(n) /\ o \notin disk[n] /\ UNCHANGED record /\ op'[h] = At("missing", n, o)
    BY Zenon, <1>3, Goes DEF Miss
  <2> QED
    BY Zenon, <2>1, StartTo
<1>4. CASE FetchStore(h)
  <2>1. r.pc = "reading" /\ r.second = "none" /\ r.oid \in disk'[r.node]
    BY Zenon, <1>4, ShapeIs, Placed DEF FetchStore, PutPc
  <2>2. op'[h] = [r EXCEPT !.pc = "posted"]
    BY Zenon, <1>4, Goes DEF FetchStore
  <2>3. Fields(op'[h], "posted", r.node, r.oid, r.peer, "none", r.at)
    BY <1>a, <2>1, <2>2, WithPc
  <2> QED
    BY Zenon, <2>1, <2>3, OnTo DEF ServerPc
<1>5. CASE FetchFail(h)
  BY Zenon, <1>5, Goes, FetchedTo DEF FetchFail
<1>6. CASE DropMoved(h)
  BY Zenon, <1>6, Goes, IdleTo DEF DropMoved
<1>7. CASE RecordSeen(h)
  BY Zenon, <1>7, Goes, IdleTo DEF RecordSeen
<1>8. CASE VerifySeen(h)
  <2>1. PICK pc : pc = IF r.oid \in disk[r.node] THEN "posted" ELSE "missing"
    BY Zenon
  <2>2. r.pc = "seen" /\ r.second = "none" /\ UNCHANGED <<disk, record>>
    BY Zenon, <1>8, ShapeIs DEF VerifySeen, PutPc
  <2>3. op'[h] = [r EXCEPT !.pc = pc]
    BY Zenon, <1>8, <2>1, Goes DEF VerifySeen
  <2>4. Fields(op'[h], pc, r.node, r.oid, r.peer, "none", r.at)
    BY <1>a, <2>2, <2>3, WithPc
  <2> QED
    BY Zenon, <2>1, <2>2, <2>4, OnTo DEF ServerPc
<1>9. CASE DropSelf(h)
  BY Zenon, <1>9, Goes, IdleTo DEF DropSelf
<1> QED
  BY Zenon, <1>1, <1>2, <1>3, <1>4, <1>5, <1>6, <1>7, <1>8, <1>9 DEF RepairStep

(***************************************************************************)
(* So do removals and the garbage collector.                               *)
(***************************************************************************)
LEMMA RemovalMoves ==
    ASSUME TypeOK, TypeOK', NEW h \in Handler, RemovalStep(h)
    PROVE  Changed(h)
<1> DEFINE r == op[h]
<1>a. r \in Op
  BY Zenon, OpIs
<1>1. ASSUME NEW n \in Node, NEW o \in Oid, RemoveChecked(h, n, o)
      PROVE  Changed(h)
  <2>1. Up(n) /\ op'[h] = At("removing", n, o)
    BY Zenon, <1>1, Goes DEF RemoveChecked
  <2>2. Fields(op'[h], "removing", n, o, None, "none", 0)
    BY Zenon, <2>1, AtFields
  <2>4. ChangedCopies(h)
    BY Zenon, <1>1, <2>2, CopiesTo
  <2>5. ChangedTimes(h)
    BY Zenon, <2>2, TimesTo
  <2>6. ChangedServer(h)
    BY Zenon, <2>1, <2>2, ServerTo
  <2> QED
    BY <2>2, <2>4, <2>5, <2>6, PlainTo
<1>2. ASSUME NEW n \in Node, NEW o \in Oid, RemoveBlind(h, n, o)
      PROVE  Changed(h)
  <2>1. Up(n) /\ op'[h] = At("blind", n, o)
    BY Zenon, <1>2, Goes DEF RemoveBlind
  <2> QED
    BY Zenon, <2>1, StartTo
<1>3. ASSUME NEW n \in Node, NEW o \in Oid, Suspect(h, n, o)
      PROVE  Changed(h)
  <2>1. Stale(n) /\ op'[h] = At("suspect", n, o)
    BY Zenon, <1>3, Goes DEF Suspect
  <2> QED
    BY Zenon, <2>1, StartTo
<1>4. ASSUME NEW n \in Node, NEW o \in Oid, QueueRemoval(h, n, o)
      PROVE  Changed(h)
  <2>1. op'[h] = At("purging", n, o)
    BY Zenon, <1>4, Goes DEF QueueRemoval
  <2> QED
    BY Zenon, <2>1, StartTo
<1>5. ASSUME NEW n \in Node, NEW o \in Oid, GCView(h, n, o)
      PROVE  Changed(h)
  <2>1. PICK pc : pc = IF Owners(record[o]) # {} THEN "gcViewed" ELSE "gcEmpty"
    BY Zenon
  <2>2. Up(n) /\ ~Linked(o) /\ UNCHANGED <<record, pinned>>
    BY Zenon, <1>5 DEF GCView
  <2>3. op'[h] = [At(pc, n, o) EXCEPT !.at = now]
    BY Zenon, <1>5, <2>1, Goes DEF GCView
  <2>4. Fields(op'[h], pc, n, o, None, "none", now)
    BY Zenon, <2>3 DEF Fields, At, Idle
  <2>5. pc = "gcEmpty" => n \notin Owners(record'[o])
    BY Zenon, <2>1, <2>2
  <2>6. ChangedCopies(h)
    <3>1. CASE pc = "gcViewed"
      BY Zenon, <2>4, <3>1, CopiesKept
    <3>2. CASE pc = "gcEmpty"
      <4>1. pc \notin {"putStored", "posted", "seen"} /\ pc # "removing"
        BY Zenon, <3>2
      <4> QED
        BY Zenon, <2>4, <2>5, <3>2, <4>1, CopiesTo
    <3> QED
      BY Zenon, <2>1, <3>1, <3>2
  <2>7. ChangedTimes(h)
    BY Zenon, <2>1, <2>2, <2>4, TimesTo
  <2>8. ChangedServer(h)
    BY Zenon, <2>2, <2>4, ServerTo
  <2> QED
    <3>1. pc \notin {"putRecorded", "linked"} /\ pc \notin {"linkGot", "gcMarking"}
      BY Zenon, <2>1
    <3> QED
      BY Zenon, <2>4, <2>6, <2>7, <2>8, <3>1, PlainTo
<1>6. CASE RemoveFile(h)
  BY Zenon, <1>6, Goes, IdleTo DEF RemoveFile
<1>7. CASE CleanView(h)
  <2>1. r.pc = "suspect" /\ r.second = "none" /\ Dropping(h, r.node, r.oid)
    BY Zenon, <1>7, ShapeIs DEF CleanView, PutPc, Dropping
  <2>2. op'[h] = [r EXCEPT !.pc = "cleaning"]
    BY Zenon, <1>7, Goes DEF CleanView
  <2>3. Fields(op'[h], "cleaning", r.node, r.oid, r.peer, "none", r.at)
    BY <1>a, <2>1, <2>2, WithPc
  <2> QED
    BY Zenon, <2>1, <2>3, OnTo
<1>8. CASE DropStale(h)
  BY Zenon, <1>8, Goes, IdleTo DEF DropStale
<1>9. CASE WorkerIsDead(h)
  <2>1. r.second = "none" /\ Stale(r.node)
    BY Zenon, <1>9, ShapeIs DEF WorkerIsDead, PutPc
  <2>2. op'[h] = [r EXCEPT !.pc = "cleaning"]
    BY Zenon, <1>9, Goes DEF WorkerIsDead
  <2>3. Fields(op'[h], "cleaning", r.node, r.oid, r.peer, "none", r.at)
    BY <1>a, <2>1, <2>2, WithPc
  <2> QED
    BY Zenon, <2>1, <2>3, OnTo
<1>10. CASE GCGet(h)
  <2> DEFINE go == record[r.oid].there /\ ~RecentlyReferenced(record[r.oid], now)
  <2>1. /\ op'[h] = IF go THEN At("gcMarking", r.node, r.oid) ELSE Idle
        /\ r.pc = "gcViewed" /\ UNCHANGED record
    BY Zenon, <1>10, Goes DEF GCGet
  <2>2. CASE ~go
    BY Zenon, <2>1, <2>2, IdleTo
  <2>3. CASE go
    <3>1. op'[h] = At("gcMarking", r.node, r.oid)
      BY Zenon, <2>1, <2>3
    <3>2. Fields(op'[h], "gcMarking", r.node, r.oid, None, "none", 0)
      BY Zenon, <3>1, AtFields
    <3>3. op'[h].pc = "gcMarking" /\ op'[h].oid = r.oid
      BY Zenon, <3>2 DEF Fields
    <3>4. ChangedCopies(h)
      BY Zenon, <3>2, CopiesKept
    <3>5. ChangedTimes(h)
      BY Zenon, <3>2, TimesTo
    <3>6. ChangedServer(h)
      BY Zenon, <2>1, <3>2, ServerTo DEF ServerPc
    <3>7. Secures(h)
      BY Zenon, <3>3 DEF Secures
    <3>8. ChangedCas(h)
      BY Zenon, <2>1, <2>3, <3>3 DEF ChangedCas
    <3> QED
      BY Zenon, <3>4, <3>5, <3>6, <3>7, <3>8 DEF Changed
  <2> QED
    BY Zenon, <2>2, <2>3
<1>11. CASE GCSet(h)
  BY Zenon, <1>11, Goes, IdleTo DEF GCSet
<1> QED
  BY Zenon, <1>1, <1>2, <1>3, <1>4, <1>5, <1>6, <1>7, <1>8, <1>9, <1>10, <1>11
     DEF RemovalStep

(***************************************************************************)
(* A handler that ends early leaves its peer to record what it stored.     *)
(***************************************************************************)
LEMMA AbortTo ==
    ASSUME TypeOK, TypeOK', NEW h \in Handler, op'[h] = Aborted(op[h])
    PROVE  Changed(h)
<1>1. CASE op[h].second = "stored"
  BY Zenon, <1>1, PeerTo DEF Aborted
<1>2. CASE op[h].second # "stored"
  BY Zenon, <1>2, IdleTo DEF Aborted
<1> QED
  BY Zenon, <1>1, <1>2

(***************************************************************************)
(* A step of h changes h as Changed says.                                  *)
(***************************************************************************)
LEMMA OpMoves ==
    ASSUME TypeOK, TypeOK', NEW h \in Handler,
           ClientStep(h) \/ RepairStep(h) \/ RemovalStep(h) \/ Abort(h)
    PROVE  Changed(h)
<1>1. CASE Abort(h)
  BY Zenon, <1>1, Goes, AbortTo DEF Abort
<1> QED
  BY Zenon, <1>1, ClientMoves, RepairMoves, RemovalMoves

-------------------------------------------------------------------------------
HandlerStep(h) == ClientStep(h) \/ RepairStep(h) \/ RemovalStep(h) \/ Abort(h)

(***************************************************************************)
(* A step of h hands a CAS to nobody else.                                 *)
(***************************************************************************)
LEMMA CurrentMoves ==
    ASSUME TypeOK, NEW h \in Handler, HandlerStep(h)
    PROVE  current' \subseteq current \cup {h}
<1> USE DEF Write, Register, Deregister
<1>1. CASE ClientStep(h)
  BY Zenon, <1>1 DEF ClientStep, PutStart, PutStore, PutRecord, PutLink, PeerStore,
        PeerRecord, PeerFail, PostStore, PostRecord, LinkGet, LinkSet, LinkStore
<1>2. CASE RepairStep(h)
  BY Zenon, <1>2 DEF RepairStep, FetchOpen, Walk, Miss, FetchStore, FetchFail,
        DropMoved, RecordSeen, VerifySeen, DropSelf
<1>3. CASE RemovalStep(h)
  BY Zenon, <1>3 DEF RemovalStep, RemoveChecked, RemoveBlind, Suspect, QueueRemoval,
        GCView, RemoveFile, CleanView, DropStale, WorkerIsDead, GCGet, GCSet
<1>4. CASE Abort(h)
  BY Zenon, <1>4 DEF Abort
<1> QED
  BY Zenon, <1>1, <1>2, <1>3, <1>4 DEF HandlerStep

(***************************************************************************)
(* A CAS that survives a step is for a record that the step did not write. *)
(***************************************************************************)
LEMMA CasMoves ==
    ASSUME TypeOK, Step, NEW g \in Handler
    PROVE  CasMove(g)
<1> SUFFICES ASSUME g \in current, g \in current'
             PROVE  record'[op[g].oid] = record[op[g].oid]
  BY Zenon DEF CasMove
<1>1. ASSUME NEW q \in Oid, NEW d, Write(q, d)
      PROVE  record'[op[g].oid] = record[op[g].oid]
  <2>1. op[g].oid # q /\ op[g].oid \in Oid
    BY Zenon, <1>1 DEF Write, TypeOK, Shape
  <2> QED
    BY Zenon, <1>1, <2>1 DEF Write, TypeOK
<1>2. CASE UNCHANGED record
  BY Zenon, <1>2
<1>3. ASSUME NEW h \in Handler, RecordStep(h)
      PROVE  record'[op[g].oid] = record[op[g].oid]
  <2>1. RecordStep(h) => UNCHANGED record \/ \E q, d : Write(q, d)
    BY Zenon DEF RecordStep, PutRecord, PeerRecord, PostRecord, RecordSeen, DropMoved,
        DropSelf, DropStale, LinkSet, GCSet, RemoveChecked, Register, Deregister
  <2> QED
    BY Zenon, <1>3, <2>1, <1>2 DEF Write, TypeOK, Shape
<1> QED
  BY Zenon, <1>2, <1>3, RecordSteps

(***************************************************************************)
(* In any step of the system, a handler stays as it is, and gains no CAS,  *)
(* or changes as Changed says.                                             *)
(***************************************************************************)
LEMMA AllMoves ==
    ASSUME TypeOK, TypeOK', Step, NEW g \in Handler
    PROVE  HandlerMove(g)
<1> SUFFICES \/ op'[g] = op[g] /\ (g \in current' => g \in current)
             \/ Changed(g)
  BY Zenon DEF HandlerMove
<1>1. ASSUME NEW h \in Handler, HandlerStep(h)
      PROVE  \/ op'[g] = op[g] /\ (g \in current' => g \in current)
             \/ Changed(g)
  BY Zenon, <1>1, OpMoves, OthersStay, CurrentMoves DEF HandlerStep
<1>2. ASSUME NEW m \in Node, Crash(m)
      PROVE  \/ op'[g] = op[g] /\ (g \in current' => g \in current)
             \/ Changed(g)
  <2> DEFINE r == op[g]
             s == op'[g]
  <2>1. s = CrashedOp(r, m)
    BY Zenon, <1>2 DEF Crash
  <2>2. CASE s = r
    BY Zenon, <1>2, <2>2 DEF Crash
  <2>3. CASE s = Aborted(r)
    BY Zenon, <2>3, AbortTo
  <2>4. CASE s = [r EXCEPT !.second = "failed"] /\ r.second \in {"sent", "stored"}
    <3>1. r.pc \in PutPc
      BY Zenon, <2>4, ShapeIs
    <3> QED
      BY Zenon, <2>4, <3>1, SecondTo
  <2> QED
    BY Zenon, <2>1, <2>2, <2>3, <2>4 DEF CrashedOp
<1>3. (\E f \in File : DeleteFile(f)) \/ (\E m \in Node : Restart(m)) \/ Tick
        => UNCHANGED <<op, current>>
  BY Zenon DEF DeleteFile, Restart, Tick
<1> QED
  BY Zenon, <1>1, <1>2, <1>3 DEF Step, HandlerStep

(***************************************************************************)
(* A file document pins only what it links, and a blob is only pinned by a *)
(* handler that had secured it (putUserFile, doLinkFile).                  *)
(***************************************************************************)
LEMMA PinMoves ==
    ASSUME TypeOK, Step, \A f \in File : pinned[f] \subseteq meta[f],
           NEW f \in File
    PROVE  /\ pinned'[f] \subseteq meta'[f]
           /\ \A o \in pinned'[f] : \/ o \in pinned[f]
                                    \/ \E g \in Handler : Securing(g, o)
<1>0. meta \in [File -> SUBSET Oid] /\ pinned \in [File -> SUBSET Oid]
  BY Zenon DEF TypeOK
<1>1. ASSUME NEW h \in Handler, HandlerStep(h), UNCHANGED <<meta, pinned>>
      PROVE  /\ pinned'[f] \subseteq meta'[f]
             /\ \A o \in pinned'[f] : o \in pinned[f]
  BY Zenon, <1>1
<1>2. ASSUME NEW h \in Handler, HandlerStep(h)
      PROVE  UNCHANGED <<meta, pinned>> \/ PutLink(h) \/ LinkStore(h)
  <2>1. CASE ClientStep(h)
    BY Zenon, <2>1 DEF ClientStep, PutStart, PutStore, PutRecord, PeerStore,
        PeerRecord, PeerFail, PostStore, PostRecord, LinkGet, LinkSet
  <2>2. CASE RepairStep(h)
    BY Zenon, <2>2 DEF RepairStep, FetchOpen, Walk, Miss, FetchStore, FetchFail,
        DropMoved, RecordSeen, VerifySeen, DropSelf
  <2>3. CASE RemovalStep(h)
    BY Zenon, <2>3 DEF RemovalStep, RemoveChecked, RemoveBlind, Suspect, QueueRemoval,
        GCView, RemoveFile, CleanView, DropStale, WorkerIsDead, GCGet, GCSet
  <2>4. CASE Abort(h)
    BY Zenon, <2>4 DEF Abort
  <2> QED
    BY Zenon, <1>2, <2>1, <2>2, <2>3, <2>4 DEF HandlerStep
<1>3. ASSUME NEW h \in Handler, PutLink(h) \/ LinkStore(h)
      PROVE  /\ pinned'[f] \subseteq meta'[f]
             /\ \A o \in pinned'[f] : \/ o \in pinned[f]
                                      \/ Securing(h, o)
  BY <1>0, <1>3 DEF PutLink, LinkStore, StoreMeta, Securing
<1>4. ASSUME NEW q \in File, DeleteFile(q)
      PROVE  /\ pinned'[f] \subseteq meta'[f]
             /\ \A o \in pinned'[f] : o \in pinned[f]
  BY Zenon, <1>0, <1>4 DEF DeleteFile
<1>5. (\E m \in Node : Crash(m) \/ Restart(m)) \/ Tick => UNCHANGED <<meta, pinned>>
  BY Zenon DEF Crash, Restart, Tick
<1> QED
  BY Zenon, <1>1, <1>2, <1>3, <1>4, <1>5 DEF Step, HandlerStep

(***************************************************************************)
(* Every step moves the system so; what is left of Moves is the count of   *)
(* maybeRemoveBlobOwnership.                                               *)
(***************************************************************************)
LEMMA StepMoves ==
    ASSUME TypeOK, TypeOK', Step
    PROVE  /\ \A o \in Oid : RecordMove(o)
           /\ \A n \in Node, o \in Oid : DiskMove(n, o)
           /\ \A h \in Handler : HandlerMove(h) /\ CasMove(h)
           /\ TimeMove
           /\ PinMove
<1>1. PinMove
  BY Zenon, PinMoves DEF PinMove, PinsLinked
<1> QED
  BY Zenon, <1>1, RecordMoves, DiskMoves, AllMoves, CasMoves, TimeMoves

===============================================================================
