------------------------------- MODULE BlobStore -------------------------------
(***************************************************************************)
(* The life of blobs in a cbfs cluster: uploads, raw stores, fetches,      *)
(* links, removals, the self-repair paths and the garbage collector, all   *)
(* interleaved.                                                            *)
(*                                                                         *)
(* A blob has a file on the disk of some nodes and one ownership record in *)
(* Couchbase (BlobRecord) that says which nodes these are.  No code path   *)
(* changes both in one step, and no lock ties them together: a handler     *)
(* looks at one, then changes the other.  Each running handler (an HTTP    *)
(* request, a periodic task or an internode worker) is a Handler whose     *)
(* "pc" says which of its steps it has taken.  A couchbase.Update (a CAS   *)
(* loop) is one step.  mc.Get followed by a SET with the CAS it returned   *)
(* is two, and "current" holds the handlers whose Get is still the latest  *)
(* version of the document.                                                *)
(***************************************************************************)
EXTENDS BlobRecord

CONSTANTS
    Oid,             \* blob names: a content and its hash
    File,            \* user file names
    Handler,         \* the handlers that may run at the same time
    None,            \* no node, no oid, no file
    Started,         \* the operations that may start, by their first pc
    StaleNodeLimit,  \* globalConfig.StaleNodeLimit
    LinkDelay,       \* bound on the time between reference and file meta
    PageTime,        \* bound on the time between a GC view and okToClean
    MaxTime          \* the clock stops here

(***************************************************************************)
(* Where an operation starts.  A cluster starts them all; Started lets a   *)
(* small instance look at some of them.                                    *)
(***************************************************************************)
FirstPc == {"putting", "posted", "reading", "seen", "linkGot", "linkUnsafe",
            "removing", "blind", "missing", "suspect", "purging",
            "gcViewed", "gcEmpty"}

ASSUME StartedAssumption == Started \subseteq FirstPc

ASSUME NoneAssumption ==
    None \notin Node /\ None \notin Oid /\ None \notin File

(***************************************************************************)
(* The code does not bound LinkDelay and PageTime.  Its grace periods only *)
(* protect a new link when the two together are shorter than they are.     *)
(***************************************************************************)
ASSUME TimingAssumption ==
    /\ StaleNodeLimit \in Nat
    /\ LinkDelay \in Nat
    /\ PageTime \in Nat
    /\ MaxTime \in Nat
    /\ LinkDelay + PageTime <= StaleNodeLimit
    /\ StaleNodeLimit < GCGrace

VARIABLES
    record,   \* record[o]: the ownership record of o
    disk,     \* disk[n]: the blobs with a file on n's disk
    meta,     \* meta[f]: the blobs f's document refers to, revisions included
    pinned,   \* pinned[f]: those of them the server had secured for the link
    op,       \* op[h]: what handler h is doing
    current,  \* handlers whose mc.Get is still the latest version
    downAt,   \* downAt[n]: when n stopped heartbeating, Never while it is up
    now,      \* the clock
    exposed   \* history: <<n, o>> where a removal of o at n went unchecked

vars == <<record, disk, meta, pinned, op, current, downAt, now, exposed>>

(***************************************************************************)
(* What a handler has done so far.                                         *)
(*   putting, putStored, putRecorded   putUserFile                         *)
(*   reading           openRemote has an open stream from another node     *)
(*   posted            the file is in place, ownership not yet recorded    *)
(*   seen              a file seen by a directory walk or by performFetch  *)
(*   linkGot           referenceBlob has its Get                           *)
(*   linked            referenceBlob succeeded, the record has owners      *)
(*   linkUnsafe        it failed, or the record has no owner               *)
(*   removing          removeObject is about to remove the file            *)
(*   blind             the same, without having checked any record         *)
(*   missing           a file was looked for and not found                 *)
(*   suspect           checkStaleNodes took node for dead                  *)
(*   cleaning          node's entry is about to be dropped: it is dead     *)
(*   purging           a removal is queued for node                        *)
(*   moved             performFetch took the blob over from node           *)
(*   gcViewed, gcEmpty the collector's view row: owners, or no owner       *)
(*   gcMarking         markGarbage has its Get                             *)
(***************************************************************************)
PutPc == {"putting", "putStored", "putRecorded"}
LinkPc == {"linkGot", "linked", "linkUnsafe"}
TargetPc == {"suspect", "cleaning", "purging", "moved"}
ServerPc == {"reading", "posted", "seen", "removing", "blind", "missing",
             "gcViewed", "gcEmpty", "gcMarking"}
Pc == {"idle"} \cup PutPc \cup LinkPc \cup TargetPc \cup ServerPc

(***************************************************************************)
(* node is the server that runs the handler, except in TargetPc, where it  *)
(* is the node being dropped.  In PutPc, peer and second are the node that *)
(* altStoreFile streams a second copy to and how far that copy is; in      *)
(* reading and posted, peer is the node the blob moves from.  at is the    *)
(* time of the reference (putRecorded, LinkPc) or of the view (gcViewed).  *)
(***************************************************************************)
Second == {"none", "sent", "stored", "ok", "failed"}

Op == [pc: Pc, node: Node \cup {None}, oid: Oid \cup {None},
       file: File \cup {None}, peer: Node \cup {None}, second: Second,
       at: Time]

Idle == [pc |-> "idle", node |-> None, oid |-> None, file |-> None,
         peer |-> None, second |-> "none", at |-> 0]

At(pc, n, o) == [Idle EXCEPT !.pc = pc, !.node = n, !.oid = o]

Up(n) == downAt[n] = Never

(***************************************************************************)
(* The node's record is older than StaleNodeLimit (checkStaleNodes and     *)
(* IsDead): a node that is up heartbeats much more often than that.        *)
(***************************************************************************)
Stale(n) == downAt[n] # Never /\ now - downAt[n] > StaleNodeLimit

Linked(o) == \E f \in File : o \in meta[f]
Pinned(o) == \E f \in File : o \in pinned[f]

(***************************************************************************)
(* h has put the file of o in place at n, or has seen it there, and is     *)
(* going to record n as an owner.                                          *)
(***************************************************************************)
Storing(h, n, o) ==
    /\ op[h].oid = o
    /\ \/ op[h].pc \in {"putStored", "posted", "seen"} /\ op[h].node = n
       \/ op[h].second = "stored" /\ op[h].peer = n

(***************************************************************************)
(* h has decided that n is not, or is no longer, an owner of o, and is     *)
(* going to act on it.                                                     *)
(***************************************************************************)
Dropping(h, n, o) ==
    /\ op[h].pc \in {"removing", "missing", "suspect", "cleaning", "gcEmpty"}
    /\ op[h].node = n
    /\ op[h].oid = o

(***************************************************************************)
(* h is going to remove the file, or the entry, of o at n without having   *)
(* established anything about that copy.                                   *)
(***************************************************************************)
Blind(h, n, o) ==
    op[h].pc \in {"blind", "moved"} /\ op[h].node = n /\ op[h].oid = o

(***************************************************************************)
(* The copies at which a handler works on stale knowledge: one is storing  *)
(* what another is dropping, or a removal goes ahead without a record.     *)
(***************************************************************************)
Exposed ==
    {p \in Node \X Oid :
        \E h, g \in Handler :
            \/ Blind(h, p[1], p[2])
            \/ Storing(h, p[1], p[2]) /\ Dropping(g, p[1], p[2])}

Init ==
    /\ record = [o \in Oid |-> NoRecord]
    /\ disk = [n \in Node |-> {}]
    /\ meta = [f \in File |-> {}]
    /\ pinned = [f \in File |-> {}]
    /\ op = [h \in Handler |-> Idle]
    /\ current = {}
    /\ downAt = [n \in Node |-> Never]
    /\ now = 0
    /\ exposed = {}

-------------------------------------------------------------------------------
(***************************************************************************)
(* Steps of a handler, in terms of what they touch.                        *)
(***************************************************************************)
Start(h, new) ==
    /\ op[h] = Idle
    /\ new.pc \in Started
    /\ op' = [op EXCEPT ![h] = new]

Continue(h, new) == op' = [op EXCEPT ![h] = new]

(***************************************************************************)
(* A write of the document of o: every CAS handed out for it is now old.   *)
(***************************************************************************)
Write(o, d) ==
    /\ record' = [record EXCEPT ![o] = d]
    /\ current' = {h \in current : op[h].oid # o}

(***************************************************************************)
(* recordBlobOwnership(o) at n.                                            *)
(***************************************************************************)
Register(o, n, force) ==
    IF AlreadyKnown(record[o], n, force)
      THEN UNCHANGED <<record, current>>
      ELSE Write(o, RecordOwnership(record[o], n, now, force))

(***************************************************************************)
(* removeBlobOwnershipRecord(o, node) at self: UpdateCancel when there is  *)
(* no document.                                                            *)
(***************************************************************************)
Deregister(o, node, self) ==
    IF record[o].there
      THEN Write(o, RemoveOwnershipRecord(record[o], node, self))
      ELSE UNCHANGED <<record, current>>

(***************************************************************************)
(* hashRecord.Finish renames the temporary file to the blob's name.  When  *)
(* the first rename fails it removes what has that name and tries again,   *)
(* or gives up: that removal checks no record, and is the RemoveBlind of   *)
(* another handler before the Place, or before an Abort.                   *)
(***************************************************************************)
Place(n, o) == disk' = [disk EXCEPT ![n] = @ \cup {o}]

-------------------------------------------------------------------------------
(***************************************************************************)
(* putUserFile at n for file f: altStoreFile picks a node that is up to    *)
(* stream a second copy to, or none.                                       *)
(***************************************************************************)
PutStart(h, n, f, o, m) ==
    /\ Up(n)
    /\ m # n
    /\ m # None => Up(m)
    /\ Start(h, [At("putting", n, o) EXCEPT
                    !.file = f, !.peer = m,
                    !.second = IF m = None THEN "none" ELSE "sent"])
    /\ UNCHANGED <<record, disk, meta, pinned, current, downAt, now>>

PutStore(h) ==
    /\ op[h].pc = "putting"
    /\ Place(op[h].node, op[h].oid)
    /\ Continue(h, [op[h] EXCEPT !.pc = "putStored"])
    /\ UNCHANGED <<record, meta, pinned, current, downAt, now>>

PutRecord(h) ==
    /\ op[h].pc = "putStored"
    /\ Register(op[h].oid, op[h].node, TRUE)
    /\ Continue(h, [op[h] EXCEPT !.pc = "putRecorded", !.at = now])
    /\ UNCHANGED <<disk, meta, pinned, downAt, now>>

(***************************************************************************)
(* doPostRawBlob at the peer, driven by the stream of altStoreFile.  Its   *)
(* answer may be an error, or get lost.                                    *)
(***************************************************************************)
PeerStore(h) ==
    /\ op[h].second = "sent"
    /\ Place(op[h].peer, op[h].oid)
    /\ Continue(h, [op[h] EXCEPT !.second = "stored"])
    /\ UNCHANGED <<record, meta, pinned, current, downAt, now>>

PeerRecord(h) ==
    /\ op[h].second = "stored"
    /\ Register(op[h].oid, op[h].peer, TRUE)
    /\ Continue(h, [op[h] EXCEPT !.second = "ok"])
    /\ UNCHANGED <<disk, meta, pinned, downAt, now>>

PeerFail(h) ==
    /\ op[h].second \in {"sent", "stored", "ok"}
    /\ Continue(h, [op[h] EXCEPT !.second = "failed"])
    /\ UNCHANGED <<record, disk, meta, pinned, current, downAt, now>>

(***************************************************************************)
(* storeMeta: f refers to o and to whichever revisions are kept.           *)
(***************************************************************************)
StoreMeta(f, o, kept, secured) ==
    /\ meta' = [meta EXCEPT ![f] = kept \cup {o}]
    /\ pinned' = [pinned EXCEPT ![f] = (@ \cap kept) \cup
                                       (IF secured THEN {o} ELSE {})]

(***************************************************************************)
(* The rest of putUserFile: with the second copy confirmed, or none asked  *)
(* for, the file is linked.  increaseReplicaCount only queues acquisitions *)
(* (Fetch).  A failed second copy or precondition is Abort.                *)
(***************************************************************************)
PutLink(h) ==
    /\ op[h].pc = "putRecorded"
    /\ op[h].second \in {"none", "ok"}
    /\ \E kept \in SUBSET meta[op[h].file] :
          StoreMeta(op[h].file, op[h].oid, kept, TRUE)
    /\ Continue(h, Idle)
    /\ UNCHANGED <<record, disk, current, downAt, now>>

-------------------------------------------------------------------------------
(***************************************************************************)
(* doPostRawBlob and putRawHash at n, from a client.                       *)
(***************************************************************************)
PostStore(h, n, o) ==
    /\ Up(n)
    /\ Place(n, o)
    /\ Start(h, At("posted", n, o))
    /\ UNCHANGED <<record, meta, pinned, current, downAt, now>>

(***************************************************************************)
(* getBlobFromRemote at n (performFetch, or a cached proxied read): a node *)
(* that was an owner when the record was read is up and streams its file.  *)
(* An open stream outlives the removal of its file.  hwFinisher.Close puts *)
(* the copy in place.                                                      *)
(***************************************************************************)
FetchOpen(h, n, o, prev) ==
    /\ Up(n)
    /\ o \notin disk[n]
    /\ \E src \in Node : Up(src) /\ o \in disk[src]
    /\ Start(h, [At("reading", n, o) EXCEPT !.peer = prev])
    /\ UNCHANGED <<record, disk, meta, pinned, current, downAt, now>>

FetchStore(h) ==
    /\ op[h].pc = "reading"
    /\ Place(op[h].node, op[h].oid)
    /\ Continue(h, [op[h] EXCEPT !.pc = "posted"])
    /\ UNCHANGED <<record, meta, pinned, current, downAt, now>>

(***************************************************************************)
(* What performFetch does once getBlobFromRemote returned: nothing, or, in *)
(* a move, ask prev to remove its copy.                                    *)
(***************************************************************************)
Fetched(r) ==
    IF r.peer = None THEN Idle ELSE At("moved", r.peer, r.oid)

(***************************************************************************)
(* An error of Finish or of recordBlobOwnership is only logged: the move   *)
(* goes on.                                                                *)
(***************************************************************************)
FetchFail(h) ==
    /\ op[h].pc \in {"reading", "posted"}
    /\ Continue(h, Fetched(op[h]))
    /\ UNCHANGED <<record, disk, meta, pinned, current, downAt, now>>

(***************************************************************************)
(* recordBlobOwnership with force, the last step of a store.               *)
(***************************************************************************)
PostRecord(h) ==
    /\ op[h].pc = "posted"
    /\ Register(op[h].oid, op[h].node, TRUE)
    /\ Continue(h, Fetched(op[h]))
    /\ UNCHANGED <<disk, meta, pinned, downAt, now>>

(***************************************************************************)
(* prev's node record could not be read: its entry is dropped unasked.     *)
(* Otherwise (Abort) a removal is queued.  A node can be its own prev.     *)
(***************************************************************************)
DropMoved(h) ==
    /\ op[h].pc = "moved"
    /\ \E self \in {None, op[h].node} :
          Deregister(op[h].oid, op[h].node, self)
    /\ Continue(h, Idle)
    /\ UNCHANGED <<disk, meta, pinned, downAt, now>>

(***************************************************************************)
(* reconcileWith finds the file of o in n's directory; so does the os.Stat *)
(* of performFetch.  quickVerifyWorker and performFetch record without     *)
(* force.  verifyWorker may hash the file first: a file that is gone by    *)
(* then costs n its entry, a good one is recorded with force.              *)
(***************************************************************************)
Walk(h, n, o) ==
    /\ Up(n)
    /\ o \in disk[n]
    /\ Start(h, At("seen", n, o))
    /\ UNCHANGED <<record, disk, meta, pinned, current, downAt, now>>

RecordSeen(h) ==
    /\ op[h].pc = "seen"
    /\ Register(op[h].oid, op[h].node, FALSE)
    /\ Continue(h, Idle)
    /\ UNCHANGED <<disk, meta, pinned, downAt, now>>

VerifySeen(h) ==
    /\ op[h].pc = "seen"
    /\ Continue(h, [op[h] EXCEPT
          !.pc = IF op[h].oid \in disk[op[h].node] THEN "posted"
                                                   ELSE "missing"])
    /\ UNCHANGED <<record, disk, meta, pinned, current, downAt, now>>

-------------------------------------------------------------------------------
(***************************************************************************)
(* doLinkFile and doRestoreDocument.  referenceBlob reads the record, then *)
(* writes it back with the CAS.  Whatever comes of it the file meta is     *)
(* stored: doLinkFile has no return after its error answer, and            *)
(* doRestoreDocument goes on by design.  The former replaces the document; *)
(* the latter only adds one, with the older revisions it had when it was   *)
(* backed up.                                                              *)
(***************************************************************************)
LinkGet(h, f, o) ==
    /\ Start(h, [At(IF record[o].there THEN "linkGot" ELSE "linkUnsafe",
                    None, o) EXCEPT !.file = f, !.at = now])
    /\ current' = IF record[o].there THEN current \cup {h} ELSE current
    /\ UNCHANGED <<record, disk, meta, pinned, downAt, now>>

LinkSet(h) ==
    LET o == op[h].oid
        ok == h \in current
    IN  /\ op[h].pc = "linkGot"
        /\ IF ok THEN Write(o, ReferenceBlob(record[o], op[h].at))
                 ELSE UNCHANGED <<record, current>>
        /\ Continue(h, [op[h] EXCEPT
              !.pc = IF ok /\ Owners(record[o]) # {} THEN "linked"
                                                     ELSE "linkUnsafe"])
        /\ UNCHANGED <<disk, meta, pinned, downAt, now>>

LinkStore(h) ==
    /\ op[h].pc \in {"linked", "linkUnsafe"}
    /\ \/ StoreMeta(op[h].file, op[h].oid, {}, op[h].pc = "linked")
       \/ /\ meta[op[h].file] = {}
          /\ \E older \in SUBSET Oid :
                StoreMeta(op[h].file, op[h].oid, older, op[h].pc = "linked")
    /\ Continue(h, Idle)
    /\ UNCHANGED <<record, disk, current, downAt, now>>

(***************************************************************************)
(* doDeleteUserDoc, or the file's expiration.                              *)
(***************************************************************************)
DeleteFile(f) ==
    /\ meta[f] # {}
    /\ meta' = [meta EXCEPT ![f] = {}]
    /\ pinned' = [pinned EXCEPT ![f] = {}]
    /\ UNCHANGED <<record, disk, op, current, downAt, now>>

-------------------------------------------------------------------------------
(***************************************************************************)
(* removeObject at n, for a DELETE from a client or from an internode      *)
(* worker.  maybeRemoveBlobOwnership reports neither an absent document    *)
(* nor a Couchbase error, and the file is removed all the same.  So is one *)
(* that is in the way of hashRecord.Finish.                                *)
(***************************************************************************)
RemoveChecked(h, n, o) ==
    /\ Up(n)
    /\ record[o].there
    /\ MayRemove(record[o], n, now)
    /\ Write(o, RemoveOwner(record[o], n))
    /\ Start(h, At("removing", n, o))
    /\ UNCHANGED <<disk, meta, pinned, downAt, now>>

RemoveBlind(h, n, o) ==
    /\ Up(n)
    /\ Start(h, At("blind", n, o))
    /\ UNCHANGED <<record, disk, meta, pinned, current, downAt, now>>

RemoveFile(h) ==
    /\ op[h].pc \in {"removing", "blind"}
    /\ disk' = [disk EXCEPT ![op[h].node] = @ \ {op[h].oid}]
    /\ Continue(h, Idle)
    /\ UNCHANGED <<record, meta, pinned, current, downAt, now>>

(***************************************************************************)
(* A file that is not there (doServeRawBlob, doHeadRawBlob, validateLocal) *)
(* makes n remove itself from the owners.                                  *)
(***************************************************************************)
Miss(h, n, o) ==
    /\ Up(n)
    /\ o \notin disk[n]
    /\ Start(h, At("missing", n, o))
    /\ UNCHANGED <<record, disk, meta, pinned, current, downAt, now>>

DropSelf(h) ==
    /\ op[h].pc \in {"missing", "gcEmpty"}
    /\ Deregister(op[h].oid, op[h].node, op[h].node)
    /\ Continue(h, Idle)
    /\ UNCHANGED <<disk, meta, pinned, downAt, now>>

-------------------------------------------------------------------------------
(***************************************************************************)
(* checkStaleNodes takes d for dead.  Then cleanupNode finds o among d's   *)
(* blobs with enough owners, or as garbage, and drops d's entry.           *)
(***************************************************************************)
Suspect(h, d, o) ==
    /\ Stale(d)
    /\ Start(h, At("suspect", d, o))
    /\ UNCHANGED <<record, disk, meta, pinned, current, downAt, now>>

CleanView(h) ==
    /\ op[h].pc = "suspect"
    /\ op[h].node \in Owners(record[op[h].oid])
    /\ EnoughToDrop(record[op[h].oid])
    /\ Continue(h, [op[h] EXCEPT !.pc = "cleaning"])
    /\ UNCHANGED <<record, disk, meta, pinned, current, downAt, now>>

DropStale(h) ==
    /\ op[h].pc = "cleaning"
    /\ Deregister(op[h].oid, op[h].node, None)
    /\ Continue(h, Idle)
    /\ UNCHANGED <<disk, meta, pinned, downAt, now>>

(***************************************************************************)
(* A removal is queued for d.  An internode worker asks d to remove the    *)
(* blob, which is RemoveChecked or RemoveBlind at d, or fails to, and then *)
(* drops d's entry if d is dead.                                           *)
(***************************************************************************)
QueueRemoval(h, d, o) ==
    /\ d \in Owners(record[o])
    /\ WorthRemoving(record[o])
    /\ Start(h, At("purging", d, o))
    /\ UNCHANGED <<record, disk, meta, pinned, current, downAt, now>>

WorkerIsDead(h) ==
    /\ op[h].pc = "purging"
    /\ Stale(op[h].node)
    /\ Continue(h, [op[h] EXCEPT !.pc = "cleaning"])
    /\ UNCHANGED <<record, disk, meta, pinned, current, downAt, now>>

-------------------------------------------------------------------------------
(***************************************************************************)
(* garbageCollectBlobs at n finds no file row before the rows of o: either *)
(* o has owners, or its one row has no node.                               *)
(***************************************************************************)
GCView(h, n, o) ==
    /\ Up(n)
    /\ record[o].there
    /\ ~Linked(o)
    /\ Start(h, [At(IF Owners(record[o]) # {} THEN "gcViewed" ELSE "gcEmpty",
                    n, o) EXCEPT !.at = now])
    /\ UNCHANGED <<record, disk, meta, pinned, current, downAt, now>>

(***************************************************************************)
(* okToClean, that is markGarbage: a read, then a write with its CAS.  The *)
(* removal it then queues is QueueRemoval.                                 *)
(***************************************************************************)
GCGet(h) ==
    LET o == op[h].oid
        go == record[o].there /\ ~RecentlyReferenced(record[o], now)
    IN  /\ op[h].pc = "gcViewed"
        /\ current' = IF go THEN current \cup {h} ELSE current
        /\ Continue(h, IF go THEN At("gcMarking", op[h].node, o) ELSE Idle)
        /\ UNCHANGED <<record, disk, meta, pinned, downAt, now>>

GCSet(h) ==
    LET o == op[h].oid
    IN  /\ op[h].pc = "gcMarking"
        /\ IF h \in current THEN Write(o, MarkGarbage(record[o]))
                            ELSE UNCHANGED <<record, current>>
        /\ Continue(h, Idle)
        /\ UNCHANGED <<disk, meta, pinned, downAt, now>>

-------------------------------------------------------------------------------
(***************************************************************************)
(* A handler ends early: an error it reports, a failed precondition, or    *)
(* the loss of its server.  The peer of an upload does not notice.         *)
(***************************************************************************)
Aborted(r) ==
    IF r.second = "stored" THEN At("posted", r.peer, r.oid) ELSE Idle

\* Mutant: what the handler had read is kept.
AbortKeepsCas(h) ==
    /\ op[h] # Idle
    /\ Continue(h, Aborted(op[h]))
    /\ UNCHANGED <<record, disk, meta, pinned, current, downAt, now>>

Abort(h) ==
    /\ op[h] # Idle
    /\ Continue(h, Aborted(op[h]))
    /\ current' = current \ {h}
    /\ UNCHANGED <<record, disk, meta, pinned, downAt, now>>

(***************************************************************************)
(* n goes down with the handlers it runs, and keeps its disk.              *)
(***************************************************************************)
CrashedOp(r, n) ==
    IF r.node = n /\ r.pc \notin TargetPc THEN Aborted(r)
    ELSE IF r.peer = n /\ r.second \in {"sent", "stored"}
           THEN [r EXCEPT !.second = "failed"]
    ELSE r

Crash(n) ==
    /\ Up(n)
    /\ downAt' = [downAt EXCEPT ![n] = now]
    /\ op' = [h \in Handler |-> CrashedOp(op[h], n)]
    /\ current' = {h \in current : op[h].node # n}
    /\ UNCHANGED <<record, disk, meta, pinned, now>>

Restart(n) ==
    /\ ~Up(n)
    /\ downAt' = [downAt EXCEPT ![n] = Never]
    /\ UNCHANGED <<record, disk, meta, pinned, op, current, now>>

(***************************************************************************)
(* Time passes.  A link takes at most LinkDelay from reference to file     *)
(* meta, and the collector at most PageTime from view to markGarbage.      *)
(***************************************************************************)
InTime(r) ==
    /\ r.pc \in {"putRecorded", "linkGot", "linked"} => now - r.at < LinkDelay
    /\ r.pc = "gcViewed" => now - r.at < PageTime

Tick ==
    /\ now < MaxTime
    /\ \A h \in Handler : InTime(op[h])
    /\ now' = now + 1
    /\ UNCHANGED <<record, disk, meta, pinned, op, current, downAt>>

-------------------------------------------------------------------------------
ClientStep(h) ==
    \/ \E n \in Node, f \in File, o \in Oid, m \in Node \cup {None} :
          PutStart(h, n, f, o, m)
    \/ PutStore(h) \/ PutRecord(h) \/ PutLink(h)
    \/ PeerStore(h) \/ PeerRecord(h) \/ PeerFail(h)
    \/ \E n \in Node, o \in Oid : PostStore(h, n, o)
    \/ PostRecord(h)
    \/ \E f \in File, o \in Oid : LinkGet(h, f, o)
    \/ LinkSet(h) \/ LinkStore(h)

RepairStep(h) ==
    \/ \E n \in Node, o \in Oid :
          \/ \E prev \in Node \cup {None} : FetchOpen(h, n, o, prev)
          \/ Walk(h, n, o)
          \/ Miss(h, n, o)
    \/ FetchStore(h) \/ FetchFail(h) \/ DropMoved(h)
    \/ RecordSeen(h) \/ VerifySeen(h) \/ DropSelf(h)

RemovalStep(h) ==
    \/ \E n \in Node, o \in Oid :
          \/ RemoveChecked(h, n, o)
          \/ RemoveBlind(h, n, o)
          \/ Suspect(h, n, o)
          \/ QueueRemoval(h, n, o)
          \/ GCView(h, n, o)
    \/ RemoveFile(h)
    \/ CleanView(h) \/ DropStale(h) \/ WorkerIsDead(h)
    \/ GCGet(h) \/ GCSet(h)

Step ==
    \/ \E h \in Handler :
          ClientStep(h) \/ RepairStep(h) \/ RemovalStep(h) \/ Abort(h)
    \/ \E f \in File : DeleteFile(f)
    \/ \E n \in Node : Crash(n) \/ Restart(n)
    \/ Tick

Next == Step /\ exposed' = exposed \cup Exposed'

Spec == Init /\ [][Next]_vars

-------------------------------------------------------------------------------
(***************************************************************************)
(* The shape of a handler: what it works on is known as long as it runs.   *)
(***************************************************************************)
Shape(r) ==
    /\ r.pc # "idle" => r.oid \in Oid
    /\ r.pc \in PutPc \cup ServerPc \cup TargetPc => r.node \in Node
    /\ r.pc \in PutPc \cup LinkPc => r.file \in File
    /\ r.second # "none" => r.pc \in PutPc /\ r.peer \in Node \ {r.node}

(***************************************************************************)
(* Type correctness, the shape of every handler, and that only the two     *)
(* read-then-SET sequences, referenceBlob and markGarbage, hold a CAS that *)
(* may still be good.                                                      *)
(***************************************************************************)
TypeOK ==
    /\ record \in [Oid -> Record]
    /\ disk \in [Node -> SUBSET Oid]
    /\ meta \in [File -> SUBSET Oid]
    /\ pinned \in [File -> SUBSET Oid]
    /\ op \in [Handler -> Op]
    /\ \A h \in Handler : Shape(op[h])
    /\ current \subseteq
          {h \in Handler : op[h].pc \in {"linkGot", "gcMarking"}}
    /\ downAt \in [Node -> Stamp]
    /\ now \in Time
    /\ exposed \subseteq Node \X Oid

ExposedBlob(o) == \E n \in Node : <<n, o>> \in exposed

(***************************************************************************)
(* An owner has the file.  The record and the disk are never changed       *)
(* together, so an entry can outlive or precede its file; but only where a *)
(* store of the blob at that node overlapped a removal of it there, or a   *)
(* removal ran without having read the record (maybeRemoveBlobOwnership    *)
(* drops the Couchbase error, performFetch drops an entry unasked).        *)
(***************************************************************************)
RegisteredOnDisk ==
    \A o \in Oid : \A n \in Owners(record[o]) :
        o \in disk[n] \/ <<n, o>> \in exposed

(***************************************************************************)
(* What is marked as garbage was neither stored nor linked for the 15      *)
(* minutes of markGarbage: every store and every link takes the mark off,  *)
(* and the mark is only put on a record read with no recent reference and  *)
(* not written since.                                                      *)
(***************************************************************************)
GarbageIsOld ==
    \A o \in Oid : record[o].garbage => ~RecentlyReferenced(record[o], now)

(***************************************************************************)
(* The collector does not condemn a blob that a file was linked to after   *)
(* the server had secured it (putUserFile recorded its own copy, or        *)
(* referenceBlob succeeded on a record with owners), although the view it  *)
(* acts on may be older than the link.                                     *)
(***************************************************************************)
NoGarbagePinned ==
    \A o \in Oid : Pinned(o) /\ record[o].garbage => ExposedBlob(o)

(***************************************************************************)
(* The copies that are on a disk and not about to be removed from it.      *)
(***************************************************************************)
SafeCopies(o) ==
    {n \in Node :
        /\ o \in disk[n]
        /\ ~\E h \in Handler :
               /\ op[h].pc \in {"removing", "blind"}
               /\ op[h].node = n
               /\ op[h].oid = o}

(***************************************************************************)
(* A linked blob is not lost: while a file that was linked to a secured    *)
(* blob refers to it, some disk keeps a copy that nobody is about to       *)
(* remove (putUserFile, doLinkFile, garbageCollectBlobs and removeObject   *)
(* together).                                                              *)
(***************************************************************************)
PinnedSafe ==
    \A o \in Oid : Pinned(o) /\ ~ExposedBlob(o) => SafeCopies(o) # {}

(***************************************************************************)
(* removeObject never takes the copies of a blob below MinReplicas unless  *)
(* the blob is garbage, however many nodes remove at the same time: the    *)
(* count of maybeRemoveBlobOwnership is checked against the record, and    *)
(* holds for the disks.                                                    *)
(***************************************************************************)
CopyFloor ==
    [][\A o \in Oid :
          SafeCopies(o)' \subseteq SafeCopies(o) /\ SafeCopies(o)' # SafeCopies(o)
            => \/ record[o].garbage
               \/ ExposedBlob(o)'
               \/ Cardinality(SafeCopies(o)') >= MinReplicas]_vars

(***************************************************************************)
(* cleanupNode, where it drops the entry of a stale node: "There are       *)
(* enough copies, just remove this one."  At least MinReplicas owners      *)
(* remain.                                                                 *)
(***************************************************************************)
EnoughCopies ==
    [][\A h \in Handler, o \in Oid :
          op[h].pc = "cleaning" /\ op[h].oid = o /\ ~record[o].garbage
            /\ op[h].node \in Owners(record[o]) \ Owners(record'[o])
            => Cardinality(Owners(record'[o])) >= MinReplicas]_vars

-------------------------------------------------------------------------------
(***************************************************************************)
(* The inductive invariant behind these properties.                        *)
(*                                                                         *)
(* Clock: nothing is stamped in the future, a node that is down did not    *)
(* register anything since it went down, and links and collections are in  *)
(* time.                                                                   *)
(***************************************************************************)
Timely(r) ==
    /\ r.at <= now
    /\ r.pc \in {"putRecorded", "linkGot", "linked"} => now - r.at <= LinkDelay
    /\ r.pc = "gcViewed" => now - r.at <= PageTime

ClockInv ==
    /\ \A n \in Node : downAt[n] <= now
    /\ \A o \in Oid : record[o].referenced <= now
    /\ \A n \in Node, o \in Oid :
          /\ record[o].nodes[n] <= now
          /\ downAt[n] # Never => record[o].nodes[n] <= downAt[n]
    /\ \A h \in Handler : Timely(op[h])

(***************************************************************************)
(* A handler runs on a node that is up.                                    *)
(***************************************************************************)
RunsOn(r) ==
    /\ r.pc \in PutPc \cup ServerPc => Up(r.node)
    /\ r.second \in {"sent", "stored"} => Up(r.peer)

RunsUp == \A h \in Handler : RunsOn(op[h])

(***************************************************************************)
(* Copies: who is about to register has the file, who is about to remove   *)
(* is not registered, and a dead node's entry is old; else it is exposed.  *)
(***************************************************************************)
CopyInv ==
    /\ Exposed \subseteq exposed
    /\ RegisteredOnDisk
    /\ \A h \in Handler, n \in Node, o \in Oid : <<n, o>> \notin exposed =>
          /\ Storing(h, n, o) => o \in disk[n]
          /\ Dropping(h, n, o) /\ n \in Owners(record[o]) =>
                /\ op[h].pc \in {"suspect", "cleaning"}
                /\ record[o].nodes[n] + StaleNodeLimit < now

(***************************************************************************)
(* A CAS that is still good was read after the last write.                 *)
(***************************************************************************)
CasInv ==
    \A h \in current :
        LET d == record[op[h].oid]
        IN  /\ op[h].pc = "linkGot" => d.referenced <= op[h].at
            /\ op[h].pc = "gcMarking" => ~RecentlyReferenced(d, now)

ReferencedSince(d, t) ==
    \/ d.referenced # Never /\ d.referenced >= t
    \/ \E n \in Node : d.nodes[n] # Never /\ d.nodes[n] >= t

(***************************************************************************)
(* o is linked to, or a handler has secured it and is going to link it.    *)
(***************************************************************************)
Securing(h, o) ==
    op[h].oid = o /\ op[h].pc \in {"putRecorded", "linked"}

Secured(o) == Pinned(o) \/ \E h \in Handler : Securing(h, o)

(***************************************************************************)
(* References: a link in progress shows in the record as long as it needs  *)
(* to for the collector, whose view may be older, to see it.               *)
(***************************************************************************)
ReferenceInv ==
    \A o \in Oid : ~ExposedBlob(o) =>
        /\ \A h \in Handler :
              /\ Securing(h, o) /\ record[o].there =>
                    ReferencedSince(record[o], op[h].at)
              /\ op[h].pc = "gcViewed" /\ op[h].oid = o /\ Secured(o)
                    /\ record[o].there =>
                    ReferencedSince(record[o], op[h].at - LinkDelay)
              /\ op[h].pc = "gcMarking" /\ op[h].oid = o /\ h \in current =>
                    ~Secured(o)
        /\ Secured(o) => ~record[o].garbage /\ SafeCopies(o) # {}

Inv ==
    /\ TypeOK
    /\ \A f \in File : pinned[f] \subseteq meta[f]
    /\ ClockInv
    /\ RunsUp
    /\ CopyInv
    /\ GarbageIsOld
    /\ CasInv
    /\ ReferenceInv

===============================================================================
