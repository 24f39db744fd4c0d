---------------------------- MODULE BlobStoreMoves ----------------------------
(***************************************************************************)
(* What a step of BlobStore may do to a record, a disk, a handler, the     *)
(* clock and the file documents, whichever action takes it.  That every    *)
(* step does no more is shown in BlobStoreSteps; that whatever does no     *)
(* more keeps the invariant, in BlobStoreInvariants.                       *)
(***************************************************************************)
EXTENDS BlobStore

(***************************************************************************)
(* What a step may do to the record of o: recordBlobOwnership by g at n,   *)
(* removeBlobOwnershipRecord, maybeRemoveBlobOwnership (RemoveChecked),    *)
(* referenceBlob or markGarbage.                                           *)
(***************************************************************************)
Registers(g, n, o) ==
    /\ Storing(g, n, o)
    /\ record'[o].there
    /\ ~record'[o].garbage
    /\ record'[o].referenced = record[o].referenced
    /\ \A m \in Node :
          record'[o].nodes[m] = IF m = n THEN now ELSE record[o].nodes[m]

Removed(n, o) ==
    /\ record[o].there
    /\ \A m \in Node :
          record'[o].nodes[m] = IF m = n THEN Never ELSE record[o].nodes[m]
    /\ \/ /\ record'[o].there
          /\ record'[o].garbage = record[o].garbage
          /\ record'[o].referenced = record[o].referenced
       \/ /\ ~record'[o].there
          /\ ~record'[o].garbage
          /\ record'[o].referenced = Never

Drops(g, n, o) ==
    /\ \/ Dropping(g, n, o) /\ op[g].pc # "removing"
       \/ Blind(g, n, o)
    /\ Removed(n, o)

References(g, o) ==
    /\ g \in current /\ op[g].pc = "linkGot" /\ op[g].oid = o
    /\ record'[o].there = record[o].there
    /\ record'[o].nodes = record[o].nodes
    /\ record'[o].referenced = op[g].at
    /\ ~record'[o].garbage

Marks(g, o) ==
    /\ g \in current /\ op[g].pc = "gcMarking" /\ op[g].oid = o
    /\ record'[o].there = record[o].there
    /\ record'[o].nodes = record[o].nodes
    /\ record'[o].referenced = record[o].referenced

RecordMove(o) ==
    \/ record'[o] = record[o]
    \/ \E g \in Handler, n \in Node : Registers(g, n, o)
    \/ \E g \in Handler, n \in Node : Drops(g, n, o)
    \/ \E g \in Handler, n \in Node : RemoveChecked(g, n, o)
    \/ \E g \in Handler : References(g, o) \/ Marks(g, o)

(***************************************************************************)
(* A file only leaves a disk by the os.Remove of removeObject.             *)
(***************************************************************************)
DiskMove(n, o) ==
    o \in disk[n] /\ o \notin disk'[n] =>
        \E g \in Handler :
            /\ op[g].pc \in {"removing", "blind"}
            /\ op[g].node = n
            /\ op[g].oid = o

(***************************************************************************)
(* A handler that comes to store a copy has placed it; one that comes to   *)
(* drop one found the node stale, or took its entry, or missed the file.   *)
(***************************************************************************)
ChangedCopies(g) ==
    LET r == op[g]
        s == op'[g]
    IN  /\ \A n \in Node, o \in Oid :
              /\ Storing(g, n, o)' => Storing(g, n, o) \/ o \in disk'[n]
              /\ Dropping(g, n, o)' =>
                    \/ Dropping(g, n, o) /\ r.pc = "suspect" /\ s.pc = "cleaning"
                    \/ s.pc \in {"suspect", "cleaning"} /\ Stale(n)
                    \/ n \notin Owners(record'[o])
                    \/ RemoveChecked(g, n, o)
                    \/ o \notin disk[n] /\ UNCHANGED record
        /\ s.pc = "removing" => RemoveChecked(g, s.node, s.oid)

(***************************************************************************)
(* The times at which a handler references, views and secures.             *)
(***************************************************************************)
ChangedTimes(g) ==
    LET r == op[g]
        s == op'[g]
    IN  /\ s.at = r.at \/ s.at = now \/ s.at = 0
        /\ s.pc \in {"putRecorded", "linkGot", "linked"} =>
              \/ s.at = now
              \/ s.at = r.at /\ r.pc \in {"putRecorded", "linkGot", "linked"}
        /\ s.pc = "gcViewed" =>
              s.at = now /\ ~Linked(s.oid) /\ UNCHANGED <<record, pinned>>

Secures(g) ==
    LET r == op[g]
        s == op'[g]
    IN  s.pc \in {"putRecorded", "linked"} =>
              \/ r.pc = s.pc /\ r.oid = s.oid /\ r.at = s.at
              \/ s.at = now /\ \E n \in Node : Registers(g, n, s.oid)
              \/ /\ References(g, s.oid)
                 /\ s.at = r.at
                 /\ Owners(record[s.oid]) # {}

(***************************************************************************)
(* Who has a CAS that is good has just read the record.                    *)
(***************************************************************************)
ChangedCas(g) ==
    LET r == op[g]
        s == op'[g]
    IN  g \in current' =>
              /\ UNCHANGED record
              /\ \/ s.pc = "linkGot" /\ s.at = now
                 \/ /\ s.pc = "gcMarking" /\ r.pc = "gcViewed" /\ s.oid = r.oid
                    /\ record[s.oid].there
                    /\ ~RecentlyReferenced(record[s.oid], now)

(***************************************************************************)
(* A handler comes to run on a node that is up.                            *)
(***************************************************************************)
ChangedServer(g) ==
    LET r == op[g]
        s == op'[g]
    IN  /\ s.pc \in PutPc \cup ServerPc =>
              \/ Up(s.node)
              \/ s.node = r.node /\ r.pc \in PutPc \cup ServerPc
              \/ s.node = r.peer /\ r.second = "stored"
        /\ s.second \in {"sent", "stored"} =>
              \/ Up(s.peer)
              \/ s.peer = r.peer /\ r.second \in {"sent", "stored"}

(***************************************************************************)
(* A handler that a step changes changes so.                               *)
(***************************************************************************)
Changed(g) ==
    ChangedCopies(g) /\ ChangedTimes(g) /\ Secures(g) /\ ChangedCas(g) /\ ChangedServer(g)

(***************************************************************************)
(* In any step, a handler stays as it is and gains no CAS, or changes.     *)
(***************************************************************************)
HandlerMove(g) ==
    \/ op'[g] = op[g] /\ (g \in current' => g \in current)
    \/ Changed(g)

(***************************************************************************)
(* A CAS that survives a step is for a record that the step did not write. *)
(***************************************************************************)
CasMove(g) ==
    g \in current /\ g \in current' => record'[op[g].oid] = record[op[g].oid]

(***************************************************************************)
(* Only the clock, a crash and a restart change times.                     *)
(***************************************************************************)
TimeMove ==
    \/ UNCHANGED <<downAt, now>>
    \/ Tick
    \/ \E m \in Node : Crash(m) \/ Restart(m)

(***************************************************************************)
(* A file document pins only what it links, and a blob is only pinned by a *)
(* handler that had secured it (putUserFile, doLinkFile).                  *)
(***************************************************************************)
PinsLinked == \A f \in File : pinned[f] \subseteq meta[f]

PinMove ==
    PinsLinked =>
        /\ PinsLinked'
        /\ \A f \in File : \A o \in pinned'[f] :
              o \in pinned[f] \/ \E g \in Handler : Securing(g, o)

(***************************************************************************)
(* maybeRemoveBlobOwnership takes n's entry, and the count it makes inside *)
(* its CAS leaves MinReplicas owners of a blob that is not garbage.        *)
(***************************************************************************)
CheckedMove(o) ==
    \A h \in Handler, n \in Node : RemoveChecked(h, n, o) =>
        /\ Removed(n, o)
        /\ MayRemove(record[o], n, now)
        /\ ~record[o].garbage =>
              /\ Cardinality(Owners(record'[o])) >= MinReplicas
              /\ Owners(record'[o]) # {}

Moves ==
    /\ TypeOK
    /\ TypeOK'
    /\ exposed' = exposed \cup Exposed'
    /\ \A o \in Oid : RecordMove(o) /\ CheckedMove(o)
    /\ \A n \in Node, o \in Oid : DiskMove(n, o)
    /\ \A h \in Handler : HandlerMove(h) /\ CasMove(h)
    /\ TimeMove
    /\ PinMove

===============================================================================
