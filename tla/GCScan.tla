------------------------------- MODULE GCScan --------------------------------
(***************************************************************************)
(* The pass of garbageCollectBlobs (tasks.go) over the view file_blobs:    *)
(* page after page, downwards, while files are linked and unlinked and     *)
(* copies come and go.  What markGarbage decides about a blob, and what    *)
(* becomes of it, is in BlobStore; here it may say yes or no.              *)
(***************************************************************************)
EXTENDS Integers, Sequences, SequencesExt, FiniteSets

CONSTANTS
    MaxBlob,       \* the oids are 1 .. MaxBlob, in the order of the view
    File, Node,
    Self,          \* the node that the pass runs on (serverId)
    NodeMap,       \* the nodes that findNodeMap knows
    Backedup,      \* the blobs that loadExistingHashes found in a backup
    GCLimit

Blob == 1..MaxBlob

ScanAssumption ==
    /\ MaxBlob \in Nat
    /\ NodeMap \subseteq Node
    /\ Self \in Node
    /\ Backedup \subseteq Blob
    /\ GCLimit \in Nat \ {0}

VARIABLES
    links,      \* links[f]: the blobs that the document of f refers to
    owners,     \* owners[b]: the Nodes map of the record of b
    recorded,   \* the blobs that have a record
    pc,         \* "idle", "view", "rows", "relock"
    startKey,   \* the next page begins below this blob
    lastBlob,   \* the blob of the last "file" row of the page, 0 for ""
    page,       \* the rows of the page that are still to be looked at
    last,       \* done: the page was the last one
    \* History, read by no action of the collector:
    linked,     \* the blobs with a "file" row when the page was read
    steady,     \* the blobs that were there, unlinked, throughout the pass
    cut,        \* the blobs whose rows a page has ended in
    tried       \* the blobs that okToClean was asked about

env == <<links, owners, recorded>>
scan == <<pc, startKey, lastBlob, page, last>>
history == <<linked, steady, cut, tried>>
vars == <<links, owners, recorded, pc, startKey, lastBlob, page, last, linked,
          steady, cut, tried>>

Linked(b) == \E f \in File : b \in links[f]

-------------------------------------------------------------------------------
(***************************************************************************)
(* The rows of a blob, downwards: those of files come before those of      *)
(* copies.  A record without owners has one row without a node (None).     *)
(***************************************************************************)
None == "none"

RowsOf(b) ==
    LET files == SetToSeq({f \in File : b \in links[f]})
        copies == IF b \notin recorded THEN <<>>
                  ELSE IF owners[b] = {} THEN <<None>>
                  ELSE SetToSeq(owners[b])
    IN  [i \in DOMAIN files |-> [oid |-> b, type |-> "file", node |-> None]]
        \o [i \in DOMAIN copies |-> [oid |-> b, type |-> "blob", node |-> copies[i]]]

\* All rows below the key [k].  A key that has [k] as a proper prefix is above
\* it, so the rows of k itself are not among them.
Below(k) ==
    FlattenSeq([i \in 1..(k - 1) |-> RowsOf(k - i)])

Upto(s, n) == IF Len(s) <= n THEN s ELSE SubSeq(s, 1, n)

-------------------------------------------------------------------------------
TypeOK ==
    /\ links \in [File -> SUBSET Blob]
    /\ owners \in [Blob -> SUBSET Node]
    /\ recorded \subseteq Blob
    /\ pc \in {"idle", "view", "rows", "relock"}
    /\ startKey \in 1..(MaxBlob + 1)
    /\ lastBlob \in 0..MaxBlob
    /\ Len(page) <= GCLimit + 1
    /\ last \in BOOLEAN
    /\ linked \subseteq Blob /\ steady \subseteq Blob /\ cut \subseteq Blob
    /\ tried \subseteq Blob

Init ==
    /\ links \in [File -> {{}} \cup {{b} : b \in Blob}]
    /\ recorded \in SUBSET Blob
    /\ owners \in [Blob -> SUBSET Node]
    /\ \A b \in Blob \ recorded : owners[b] = {}
    /\ pc = "idle"
    /\ startKey = MaxBlob + 1
    /\ lastBlob = 0
    /\ page = <<>>
    /\ last = FALSE
    /\ linked = {} /\ steady = {} /\ cut = {} /\ tried = {}

(***************************************************************************)
(* What happens meanwhile: a file document is stored or deleted, a node    *)
(* registers or takes itself off.                                          *)
(***************************************************************************)
StoreFile(f, b) ==
    /\ \E older \in SUBSET links[f] : links' = [links EXCEPT ![f] = older \cup {b}]
    /\ steady' = steady \ {b}
    /\ UNCHANGED <<owners, recorded, scan, linked, cut, tried>>

DeleteFile(f) ==
    /\ links' = [links EXCEPT ![f] = {}]
    /\ UNCHANGED <<owners, recorded, scan, history>>

ChangeCopies(n, b) ==
    /\ \/ /\ n \notin owners[b]
          /\ owners' = [owners EXCEPT ![b] = @ \cup {n}]
          /\ recorded' = recorded \cup {b}
       \/ /\ n \in owners[b]
          /\ owners' = [owners EXCEPT ![b] = @ \ {n}]
          /\ UNCHANGED recorded
       \/ /\ owners[b] = {n}
          /\ owners' = [owners EXCEPT ![b] = {}]
          /\ recorded' = recorded \ {b}
    /\ steady' = steady \ {b}
    /\ UNCHANGED <<links, scan, linked, cut, tried>>

-------------------------------------------------------------------------------
(***************************************************************************)
(* The collector starts, knowing the nodes and the blobs in backups.       *)
(***************************************************************************)
Start ==
    /\ pc = "idle"
    /\ pc' = "view"
    /\ steady' = {b \in Blob : ~Linked(b) /\ owners[b] \cap NodeMap # {}}
    /\ UNCHANGED <<env, startKey, lastBlob, page, last, linked, cut, tried>>

\* The local variables of the pass are gone.
EndPass ==
    /\ pc' = "idle"
    /\ startKey' = MaxBlob + 1
    /\ lastBlob' = 0
    /\ page' = <<>>
    /\ last' = FALSE
    /\ linked' = {} /\ steady' = {} /\ cut' = {} /\ tried' = {}
    /\ UNCHANGED env

(***************************************************************************)
(* A page is read (ViewCustom).  An error, of the call or in the view,     *)
(* ends the pass.                                                          *)
(***************************************************************************)
ReadPage(rows, rest, done) ==
    /\ pc = "view"
    /\ pc' = "rows"
    /\ page' = rows
    /\ last' = done
    /\ lastBlob' = 0
    /\ linked' = {b \in Blob : Linked(b)}
    /\ cut' = cut \cup {b \in Blob : /\ \E i \in DOMAIN rows : rows[i].oid = b
                                     /\ \E i \in DOMAIN rest : rest[i].oid = b}
    /\ UNCHANGED <<env, startKey, steady, tried>>

Rest(rows) == SubSeq(rows, GCLimit + 2, Len(rows))

\* Mutant: the number of rows asked for is taken for a short page.
ViewPageShort ==
    LET rows == Below(startKey)
        here == Upto(rows, GCLimit + 1)
    IN  ReadPage(here, Rest(rows), Len(here) < GCLimit + 2)

ViewPage ==
    LET rows == Below(startKey)
        here == Upto(rows, GCLimit + 1)
    IN  ReadPage(here, Rest(rows), Len(here) < GCLimit)

ViewError ==
    /\ pc = "view"
    /\ EndPass

(***************************************************************************)
(* The next row.  A copy whose blob had no "file" row on this page is a    *)
(* candidate: okToClean is asked, and whatever it says is in BlobStore.    *)
(***************************************************************************)
NextRow ==
    /\ pc = "rows" /\ page # <<>>
    /\ LET r == Head(page)
           isFile == r.type = "file"
           free == r.type = "blob" /\ r.oid # lastBlob
       IN  /\ startKey' = r.oid
           /\ lastBlob' = IF isFile THEN r.oid ELSE lastBlob
           /\ \/ /\ free /\ r.node = None
                 /\ owners' = [owners EXCEPT ![r.oid] = @ \ {Self}]
                 /\ recorded' = IF owners[r.oid] \subseteq {Self}
                                  THEN recorded \ {r.oid} ELSE recorded
                 /\ UNCHANGED tried
              \/ /\ free /\ r.node \in NodeMap /\ r.oid \notin Backedup
                 /\ tried' = tried \cup {r.oid}
                 /\ UNCHANGED <<owners, recorded>>
              \/ /\ ~free \/ r.node \notin NodeMap \cup {None} \/ r.oid \in Backedup
                 /\ UNCHANGED <<owners, recorded, tried>>
           /\ steady' = IF owners' = owners THEN steady ELSE steady \ {r.oid}
    /\ page' = Tail(page)
    /\ UNCHANGED <<links, pc, last, linked, cut>>

EndOfPage ==
    /\ pc = "rows" /\ page = <<>>
    /\ pc' = "relock"
    /\ UNCHANGED <<env, startKey, lastBlob, page, last, history>>

(***************************************************************************)
(* relockTask, then the next page unless this was the last or the lock is  *)
(* lost.                                                                   *)
(***************************************************************************)
Relock ==
    /\ pc = "relock" /\ ~last
    /\ pc' = "view"
    /\ UNCHANGED <<env, startKey, lastBlob, page, last, history>>

Finished ==
    /\ pc = "relock"
    /\ EndPass

-------------------------------------------------------------------------------
Collect ==
    \/ Start \/ ViewPage \/ ViewError \/ NextRow \/ EndOfPage \/ Relock
    \/ Finished

Next ==
    \/ Collect
    \/ \E f \in File, b \in Blob : StoreFile(f, b)
    \/ \E f \in File : DeleteFile(f)
    \/ \E n \in Node, b \in Blob : ChangeCopies(n, b)

(***************************************************************************)
(* The collector goes on: its calls return.                                *)
(***************************************************************************)
Spec == Init /\ [][Next]_vars /\ WF_vars(Collect)

-------------------------------------------------------------------------------
(***************************************************************************)
(* The collector never asks to clean a blob that had a file when its page  *)
(* was read, wherever the pages end, nor one that is in a backup.          *)
(***************************************************************************)
AsksUnlinked == \A b \in tried' \ tried : b \notin linked \cup Backedup

OnlyUnlinked == [][AsksUnlinked]_vars

(***************************************************************************)
(* When a pass has come to its end, it has asked about every blob that had *)
(* copies and no file throughout, but for those in backups and those whose *)
(* rows a page has ended in: the rest of their rows waits for the next     *)
(* pass.                                                                   *)
(***************************************************************************)
PassComplete ==
    pc = "relock" /\ last => steady \subseteq tried \cup Backedup \cup cut

(***************************************************************************)
(* A pass ends, however the view changes: every page begins strictly below *)
(* the one before.                                                         *)
(***************************************************************************)
PassEnds == (pc # "idle") ~> (pc = "idle")

===============================================================================
