-------------------------------- MODULE Backup --------------------------------
(***************************************************************************)
(* Backups of the metadata (backup.go): a backup walks over the documents  *)
(* of all files and writes them into a file of the file system itself, and *)
(* the document /@backup lists the backups.  The garbage collection        *)
(* (tasks.go) spares the blobs that the listed backups refer to.  cbfsadm  *)
(* restores from backups and removes old ones (tools/cbfsadm).             *)
(***************************************************************************)
EXTENDS Naturals, Sequences, SequencesExt

CONSTANTS
    File, Blob,       \* the files, and what they are made of
    Name,             \* names that backups are stored under
    Proc,             \* requests for a backup
    Keep,             \* cbfsadm rmbak -keep
    MaxChanges,       \* bound on the changes of files by others
    MaxFaults,        \* bound on the calls that fail
    MaxRemovals,      \* bound on the runs of rmbak
    MaxCollections,   \* bound on the garbage collections
    None

BackupAssumption ==
    {Keep, MaxChanges, MaxFaults, MaxRemovals, MaxCollections} \subseteq Nat

(***************************************************************************)
(* A backup is the set of the files with their blobs at the time each was  *)
(* read.  It is stored by its hash, so its oid is what it holds.           *)
(***************************************************************************)
Content == SUBSET (File \X Blob)
Item == [fn: Name, oid: Content]
BlobsOf(c) == {e[2] : e \in c}

VARIABLES
    docs,        \* docs[f]: the blob of the file, or None
    bdocs,       \* bdocs[n]: the backup that is stored as n, or None
    blobs,       \* the blobs that exist
    list,        \* Backups of the document /@backup
    pc,          \* pc[p]: "new", "stream", "meta", "get", "prune", "set",
                 \* "done", "failed"
    fn,          \* fn[p]: the name of the backup
    todo,        \* todo[p]: files that were not read yet
    acc,         \* acc[p]: what was written
    b,           \* b[p]: the list as it was read, without dead backups
    gc,          \* gc: [pc, todo: items to load, known: blobs, err]
    rm,          \* rmbak: [pc, todo: names to delete]
    changes, faults, counts,
    \* History, read by no action:
    steady,      \* steady[p]: files that have not changed since p began
    cut,         \* requests whose stream ended with an error
    missed,      \* items the collection does not know of: not loaded, or
                 \* listed after it read the list
    seen,        \* seen[p]: the items of the list that p has read
    excused      \* items that may be off the list: their file was deleted, or
                 \* they were added behind the back of a storeBackupObject

procVars == <<pc, fn, todo, acc, b, steady, cut, seen>>
vars == <<docs, bdocs, blobs, list, procVars, gc, rm, changes, faults, counts,
          missed, excused>>

TypeOK ==
    /\ docs \in [File -> Blob \cup {None}]
    /\ bdocs \in [Name -> Content \cup {None}]
    /\ blobs \subseteq Blob
    /\ list \in Seq(Item)
    /\ pc \in [Proc -> {"new", "stream", "meta", "get", "prune", "set", "done",
                        "failed"}]
    /\ fn \in [Proc -> Name]
    /\ todo \in [Proc -> SUBSET File]
    /\ acc \in [Proc -> Content]
    /\ b \in [Proc -> [left: Seq(Item), kept: Seq(Item)]]
    /\ gc \in [pc: {"idle", "load", "scan"}, todo: SUBSET Item,
               known: SUBSET Blob, err: BOOLEAN]
    /\ rm \in [pc: {"idle", "delete", "done"}, todo: Seq(Name)]
    /\ missed \subseteq Item /\ excused \subseteq Item
    /\ seen \in [Proc -> SUBSET Item]
    /\ cut \subseteq Proc /\ steady \in [Proc -> SUBSET File]

NoList == [left |-> <<>>, kept |-> <<>>]
GCIdle == [pc |-> "idle", todo |-> {}, known |-> {}, err |-> FALSE]
RmIdle == [pc |-> "idle", todo |-> <<>>]

Init ==
    /\ docs \in [File -> Blob]
    /\ bdocs = [n \in Name |-> None]
    /\ blobs = {docs[f] : f \in File}
    /\ list = <<>>
    /\ pc = [p \in Proc |-> "new"]
    /\ fn \in [Proc -> Name]
    /\ todo = [p \in Proc |-> {}]
    /\ acc = [p \in Proc |-> {}]
    /\ b = [p \in Proc |-> NoList]
    /\ gc = GCIdle
    /\ rm = RmIdle
    /\ changes = 0 /\ faults = 0
    /\ counts = [rm |-> 0, gc |-> 0]
    /\ steady = [p \in Proc |-> {}] /\ seen = [p \in Proc |-> {}]
    /\ cut = {} /\ missed = {} /\ excused = {}

Fault == faults < MaxFaults /\ faults' = faults + 1
NoFault == UNCHANGED faults

-------------------------------------------------------------------------------
(***************************************************************************)
(* Files are uploaded and deleted, and backups are deleted like files.     *)
(***************************************************************************)
Change(f) ==
    /\ changes < MaxChanges
    /\ changes' = changes + 1
    /\ \E x \in (Blob \cup {None}) \ {docs[f]} :
          /\ docs' = [docs EXCEPT ![f] = x]
          /\ blobs' = blobs \cup ({x} \ {None})
    /\ steady' = [p \in Proc |-> steady[p] \ {f}]
    /\ UNCHANGED <<bdocs, list, pc, fn, todo, acc, b, gc, rm, faults, counts,
                   cut, missed, seen, excused>>

\* cbfsadm restore, with doRestoreDocument: only where there is no document,
\* and whether the blob exists or not.
Restore(f) ==
    /\ changes < MaxChanges
    /\ changes' = changes + 1
    /\ docs[f] = None
    /\ \E n \in {m \in Name : bdocs[m] # None} : \E e \in bdocs[n] :
          /\ e[1] = f
          /\ docs' = [docs EXCEPT ![f] = e[2]]
    /\ steady' = [p \in Proc |-> steady[p] \ {f}]
    /\ UNCHANGED <<bdocs, blobs, list, pc, fn, todo, acc, b, gc, rm, faults, counts,
                   cut, missed, seen, excused>>

-------------------------------------------------------------------------------
Goto(p, l) == pc' = [pc EXCEPT ![p] = l]

\* backupToCBFS starts backupTo, which walks over the documents.
Begin(p) ==
    /\ pc[p] = "new"
    /\ Goto(p, "stream")
    /\ todo' = [todo EXCEPT ![p] = {f \in File : docs[f] # None}]
    /\ steady' = [steady EXCEPT ![p] = {f \in File : docs[f] # None}]
    /\ UNCHANGED <<docs, bdocs, blobs, list, fn, acc, b, gc, rm, changes, faults,
                   counts, cut, missed, seen, excused>>

(***************************************************************************)
(* streamFileMeta: a document that has gone since it was listed is written *)
(* without an oid, which those who load the backup pass over.              *)
(***************************************************************************)
Entry(f) == IF docs[f] = None THEN {} ELSE {<<f, docs[f]>>}

StreamTo(p, f, rest) ==
    /\ pc[p] = "stream" /\ f \in todo[p]
    /\ todo' = [todo EXCEPT ![p] = rest]
    /\ acc' = [acc EXCEPT ![p] = @ \cup Entry(f)]
    /\ UNCHANGED <<docs, bdocs, blobs, list, pc, fn, b, gc, rm, changes, faults,
                   counts, steady, cut, missed, seen, excused>>

\* Mutant: the stream ends at a document that has gone.
StreamStops(p, f) == StreamTo(p, f, IF docs[f] = None THEN {} ELSE todo[p] \ {f})

Stream(p, f) == StreamTo(p, f, todo[p] \ {f})

(***************************************************************************)
(* The end of the stream.  An error of the view ends it too: the deferred  *)
(* function of backupTo puts the outcome of gz.Close in its place.  Only   *)
(* when that fails as well, or the blob cannot be stored and recorded, the *)
(* backup fails.                                                           *)
(***************************************************************************)
StreamEnd(p) ==
    /\ pc[p] = "stream"
    /\ \/ /\ todo[p] = {}
          /\ Goto(p, "meta")
          /\ NoFault /\ UNCHANGED cut
       \/ /\ Fault
          /\ Goto(p, "meta")
          /\ cut' = cut \cup {p}
       \/ /\ Fault
          /\ Goto(p, "failed")
          /\ UNCHANGED cut
    /\ todo' = [todo EXCEPT ![p] = {}]
    /\ UNCHANGED <<docs, bdocs, blobs, list, fn, acc, b, gc, rm, changes, counts,
                   steady, missed, seen, excused>>

StoreMeta(p) ==
    /\ pc[p] = "meta"
    /\ bdocs' = [bdocs EXCEPT ![fn[p]] = acc[p]]
    /\ Goto(p, "get")
    /\ UNCHANGED <<docs, blobs, list, fn, todo, acc, b, gc, rm, changes, faults,
                   counts, steady, cut, missed, seen, excused>>

(***************************************************************************)
(* storeBackupObject.  An error of the Get is only logged, and the list    *)
(* then begins anew.                                                       *)
(***************************************************************************)
GetList(p) ==
    /\ pc[p] = "get"
    /\ \/ NoFault /\ b' = [b EXCEPT ![p] = [left |-> list, kept |-> <<>>]]
       \/ Fault /\ b' = [b EXCEPT ![p] = NoList]
    /\ seen' = [seen EXCEPT ![p] = ToSet(b'[p].left)]
    /\ Goto(p, "prune")
    /\ UNCHANGED <<docs, bdocs, blobs, list, fn, todo, acc, gc, rm, changes, counts,
                   steady, cut, missed, excused>>

(***************************************************************************)
(* removeDeadBackups drops an item when its file is not found, and keeps   *)
(* it when the Get fails.                                                  *)
(***************************************************************************)
Prune(p) ==
    /\ pc[p] = "prune" /\ b[p].left # <<>>
    /\ LET it == Head(b[p].left) IN
       \/ /\ NoFault
          /\ b' = [b EXCEPT ![p] =
                     [left |-> Tail(@.left),
                      kept |-> IF bdocs[it.fn] = None THEN @.kept
                               ELSE Append(@.kept, it)]]
       \/ /\ Fault
          /\ b' = [b EXCEPT ![p] =
                     [left |-> Tail(@.left), kept |-> Append(@.kept, it)]]
    /\ UNCHANGED <<docs, bdocs, blobs, list, pc, fn, todo, acc, gc, rm, changes,
                   counts, steady, cut, missed, seen, excused>>

\* The list is set without a CAS.
SetList(p) ==
    /\ pc[p] = "prune" /\ b[p].left = <<>>
    /\ LET it == [fn |-> fn[p], oid |-> acc[p]] IN
       /\ list' = Append(b[p].kept, it)
       /\ missed' = IF gc.pc = "idle" THEN missed ELSE missed \cup {it}
       /\ excused' = (excused \cup (ToSet(list) \ seen[p])) \ {it}
    /\ Goto(p, "done")
    /\ b' = [b EXCEPT ![p] = NoList]
    /\ seen' = [seen EXCEPT ![p] = {}]
    /\ UNCHANGED <<docs, bdocs, blobs, fn, todo, acc, gc, rm, changes, faults, counts,
                   steady, cut>>

-------------------------------------------------------------------------------
(***************************************************************************)
(* The garbage collection.  loadExistingHashes loads the listed backups;   *)
(* the error of one that cannot be loaded goes into err, which the closing *)
(* of errch sets to nil again.                                             *)
(***************************************************************************)
GCBegin ==
    /\ gc.pc = "idle" /\ counts.gc < MaxCollections
    /\ counts' = [counts EXCEPT !.gc = @ + 1]
    /\ gc' = [GCIdle EXCEPT !.pc = "load", !.todo = ToSet(list)]
    /\ missed' = {}
    /\ UNCHANGED <<docs, bdocs, blobs, list, procVars, rm, changes, faults, excused>>

GCLoadAs(it, known) ==
    /\ gc.pc = "load" /\ it \in gc.todo
    /\ \/ /\ NoFault
          /\ gc' = [gc EXCEPT !.todo = @ \ {it}, !.known = known]
          /\ UNCHANGED missed
       \/ /\ Fault
          /\ gc' = [gc EXCEPT !.todo = @ \ {it}, !.err = TRUE]
          /\ missed' = missed \cup {it}
    /\ UNCHANGED <<docs, bdocs, blobs, list, procVars, rm, changes, counts, excused>>

\* Mutant: the set of one backup takes the place of the others.
GCLoadOne(it) == GCLoadAs(it, BlobsOf(it.oid))

GCLoad(it) == GCLoadAs(it, gc.known \cup BlobsOf(it.oid))

GCLoaded ==
    /\ gc.pc = "load" /\ gc.todo = {}
    /\ gc' = [gc EXCEPT !.pc = "scan", !.err = FALSE]
    /\ UNCHANGED <<docs, bdocs, blobs, list, procVars, rm, changes, faults, counts,
                   missed, excused>>

\* garbageCollectBlobs removes a blob that no file and no loaded backup has.
GCRemove(x) ==
    /\ gc.pc = "scan"
    /\ x \in blobs \ gc.known
    /\ \A f \in File : docs[f] # x
    /\ blobs' = blobs \ {x}
    /\ UNCHANGED <<docs, bdocs, list, procVars, gc, rm, changes, faults, counts,
                   missed, excused>>

GCEnd ==
    /\ gc.pc = "scan"
    /\ gc' = GCIdle
    /\ missed' = {}
    /\ UNCHANGED <<docs, bdocs, blobs, list, procVars, rm, changes, faults, counts,
                   excused>>

-------------------------------------------------------------------------------
(***************************************************************************)
(* cbfsadm rmbak: all but the last Keep backups are deleted, by name.  The *)
(* list comes from doGetBackupInfo; sorting it changes nothing, since Less *)
(* compares each item with itself.                                         *)
(***************************************************************************)
Live(it) == bdocs[it.fn] # None

RmBegin ==
    /\ rm.pc = "idle" /\ counts.rm < MaxRemovals
    /\ counts' = [counts EXCEPT !.rm = @ + 1]
    /\ LET l == SelectSeq(list, Live)
           n == IF Len(l) < Keep THEN 0 ELSE Len(l) - Keep IN
       rm' = [pc |-> "delete", todo |-> [i \in 1..n |-> l[i].fn]]
    /\ UNCHANGED <<docs, bdocs, blobs, list, procVars, gc, changes, faults, missed,
                   excused>>

DeleteBackup(n) ==
    /\ bdocs' = [bdocs EXCEPT ![n] = None]
    /\ excused' = excused \cup {it \in ToSet(list) : it.fn = n}

RmDelete ==
    /\ rm.pc = "delete" /\ rm.todo # <<>>
    /\ DeleteBackup(Head(rm.todo))
    /\ rm' = [rm EXCEPT !.todo = Tail(@)]
    /\ UNCHANGED <<docs, blobs, list, procVars, gc, changes, faults, counts, missed>>

RmEnd ==
    /\ rm.pc = "delete" /\ rm.todo = <<>>
    /\ rm' = [rm EXCEPT !.pc = "done"]
    /\ UNCHANGED <<docs, bdocs, blobs, list, procVars, gc, changes, faults, counts,
                   missed, excused>>

-------------------------------------------------------------------------------
Backing(p) ==
    \/ Begin(p) \/ (\E f \in File : Stream(p, f)) \/ StreamEnd(p) \/ StoreMeta(p)
    \/ GetList(p) \/ Prune(p) \/ SetList(p)

Collecting ==
    \/ GCBegin \/ (\E it \in gc.todo : GCLoad(it)) \/ GCLoaded
    \/ (\E x \in Blob : GCRemove(x)) \/ GCEnd

Next ==
    \/ \E p \in Proc : Backing(p)
    \/ \E f \in File : Change(f) \/ Restore(f)
    \/ Collecting
    \/ RmBegin \/ RmDelete \/ RmEnd

Spec == Init /\ [][Next]_vars

-------------------------------------------------------------------------------
(***************************************************************************)
(* The garbage collection removes no blob of a listed backup, except of    *)
(* one it could not load, which it does not notice, and of one that was    *)
(* listed after it had read the list.                                      *)
(***************************************************************************)
RemovesOther ==
    \A x \in blobs \ blobs' : \A it \in ToSet(list) :
        x \in BlobsOf(it.oid) => it \in missed

GCKeepsBackups == [][RemovesOther]_vars

(***************************************************************************)
(* A backup that is done has every file that was there all the time, with  *)
(* its blob, unless its stream ended with an error: that backup is done    *)
(* all the same.                                                           *)
(***************************************************************************)
BackupWhole ==
    \A p \in Proc :
       pc[p] = "done" /\ p \notin cut =>
          \A f \in steady[p] : <<f, docs[f]>> \in acc[p]

(***************************************************************************)
(* A backup that is done and whose file is there is listed, unless another *)
(* storeBackupObject that had read the list before, or could not read it,  *)
(* has set it.                                                             *)
(***************************************************************************)
BackupListed ==
    \A p \in Proc :
       pc[p] = "done" /\ bdocs[fn[p]] = acc[p] =>
          [fn |-> fn[p], oid |-> acc[p]] \in ToSet(list) \cup excused

===============================================================================
