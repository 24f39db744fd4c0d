------------------------------- MODULE MCScans --------------------------------
(***************************************************************************)
(* What goes over everything there is: the collector (GCScan),             *)
(* validateLocal (BlobWalk), a walk over the files with a taker that goes  *)
(* on to the end or gives up (PathWalk), fsck (Fsck), and backups          *)
(* (Backup).  They share no state, so each is explored by itself: "part"   *)
(* is the one that runs, and the others stay in an initial state.          *)
(***************************************************************************)
EXTENDS Naturals

CONSTANT n1

CONSTANTS File, Node, Self, Fetcher, Name, NoOid, x, y, Proc, NoBackup

VARIABLES
    part,
    \* GCScan:
    links, owners, recorded, pc, startKey, lastBlob, page, last, linked, steady, cut,
    tried,
    \* BlobWalk:
    regs, disk, walk, startDocId, brows, blast, oids, task, bchanges, berrors, stale,
    \* PathWalk:
    docs, gen, start, rows, plast, fetchch, fetch, taker, closed, changes, errors, got,
    psteady, starts, failed,
    \* Fsck:
    meta, records, broken, errsOnly, res, batch, input, fsck, reports, taken, spared,
    quiet,
    \* Backup:
    bfiles, bdocs, blobs, list, bpc, fn, todo, acc, lists, gc, rm, fchanges, faults, counts,
    fsteady, bcut, missed, seen, excused

\* Pages of two rows.
G == INSTANCE GCScan WITH
         MaxBlob <- 2, NodeMap <- Node, Backedup <- {2}, GCLimit <- 1
B == INSTANCE BlobWalk WITH
         MaxOid <- 4, Limit <- 2, Cap <- 2, MaxChanges <- 2, MaxErrors <- 1,
         start <- startDocId, rows <- brows, last <- blast, changes <- bchanges,
         errors <- berrors
\* A taker that goes on, as that of the archives, and one that gives up, as
\* that of a backup or of a listing that is sent to a client.
P == INSTANCE PathWalk WITH
         MaxPath <- 4, End <- 3, Limit <- 2, OwnErrors <- FALSE, MayStop <- FALSE,
         MaxChanges <- 1, MaxErrors <- 1, last <- plast, steady <- psteady
Q == INSTANCE PathWalk WITH
         MaxPath <- 4, End <- 3, Limit <- 2, OwnErrors <- TRUE, MayStop <- TRUE,
         MaxChanges <- 1, MaxErrors <- 1, last <- plast, steady <- psteady
F == INSTANCE Fsck WITH Oid <- {x, y}, Size <- 2, MaxFiles <- 3
\* Two backups at once: of two files, with rmbak; of one file, with a
\* collection.
K == INSTANCE Backup WITH
         None <- NoBackup, File <- Name, Blob <- {x}, Keep <- 1, MaxChanges <- 1, MaxFaults <- 1,
         MaxRemovals <- 1, MaxCollections <- 0, docs <- bfiles, pc <- bpc,
         changes <- fchanges, steady <- fsteady, cut <- bcut, b <- lists
C == INSTANCE Backup WITH
         None <- NoBackup, Blob <- {x, y}, Name <- File, Keep <- 1, MaxChanges <- 1, MaxFaults <- 1,
         MaxRemovals <- 0, MaxCollections <- 1, docs <- bfiles, pc <- bpc,
         changes <- fchanges, steady <- fsteady, cut <- bcut, b <- lists

ASSUME ScansAssumption ==
    /\ G!ScanAssumption /\ B!OidAssumption /\ P!WalkAssumption /\ Q!WalkAssumption
    /\ F!FsckAssumption /\ K!BackupAssumption /\ C!BackupAssumption

gvars == <<links, owners, recorded, pc, startKey, lastBlob, page, last, linked, steady,
           cut, tried>>
bvars == <<regs, disk, walk, startDocId, brows, blast, oids, task, bchanges, berrors,
           stale>>
pvars == <<docs, gen, start, rows, plast, fetchch, fetch, taker, closed, changes, errors,
           got, psteady, starts, failed>>
fvars == <<meta, records, broken, errsOnly, res, batch, input, fsck, reports, taken,
           spared, quiet>>
kvars == <<bfiles, bdocs, blobs, list, bpc, fn, todo, acc, lists, gc, rm, fchanges, faults,
           counts, fsteady, bcut, missed, seen, excused>>
vars == <<part, gvars, bvars, pvars, fvars, kvars>>

GOff == links = [f \in File |-> {}] /\ recorded = {} /\ owners = [b \in G!Blob |-> {}]
BOff == regs = {} /\ disk = {}
POff == docs = {}
FOff == meta = [n \in Name |-> NoOid] /\ records = {} /\ broken = {} /\ errsOnly = TRUE
KOff == bfiles = [f \in File |-> x] /\ fn = [p \in Proc |-> CHOOSE f \in File : TRUE]

Init ==
    /\ part \in {"collect", "validate", "walk", "giveup", "fsck", "backup", "backupgc"}
    /\ (part = "collect" \/ GOff) /\ G!Init
    /\ (part = "validate" \/ BOff) /\ B!Init
    /\ (part \in {"walk", "giveup"} \/ POff) /\ P!Init
    /\ (part = "fsck" \/ FOff) /\ F!Init
    /\ IF part = "backup" THEN K!Init ELSE (part = "backupgc" \/ KOff) /\ C!Init

Next ==
    \/ part = "collect" /\ G!Next /\ UNCHANGED <<part, bvars, pvars, fvars, kvars>>
    \/ part = "validate" /\ B!Next /\ UNCHANGED <<part, gvars, pvars, fvars, kvars>>
    \/ part = "walk" /\ P!Next /\ UNCHANGED <<part, gvars, bvars, fvars, kvars>>
    \/ part = "giveup" /\ Q!Next /\ UNCHANGED <<part, gvars, bvars, fvars, kvars>>
    \/ part = "fsck" /\ F!Next /\ UNCHANGED <<part, gvars, bvars, pvars, kvars>>
    \/ part = "backup" /\ K!Next /\ UNCHANGED <<part, gvars, bvars, pvars, fvars>>
    \/ part = "backupgc" /\ C!Next /\ UNCHANGED <<part, gvars, bvars, pvars, fvars>>

\* The fairness of the part that runs.
Fairness ==
    /\ WF_gvars(part = "collect" /\ G!Collect)
    /\ WF_bvars(part = "validate" /\ B!Walk)
    /\ WF_bvars(part = "validate" /\ B!Validate)
    /\ WF_bvars(part = "validate" /\ B!TaskEnd)
    /\ WF_pvars(part = "walk" /\ P!Generate) /\ WF_pvars(part = "giveup" /\ Q!Generate)
    /\ WF_pvars(part = "walk" /\ P!TakeEnd) /\ WF_pvars(part = "giveup" /\ Q!TakeEnd)
    /\ \A w \in Fetcher :
          /\ WF_pvars(part = "walk" /\ P!Fetch(w)) /\ WF_pvars(part = "walk" /\ P!HandOver(w))
          /\ WF_pvars(part = "giveup" /\ Q!Fetch(w)) /\ WF_pvars(part = "giveup" /\ Q!HandOver(w))

Spec == Init /\ [][Next]_vars /\ Fairness

-------------------------------------------------------------------------------
\* GCScan and BlobWalk: a pass of the collector looks at every piece of garbage
\* that was there throughout, and validateLocal at every stale registration.
ViewsComplete ==
    /\ G!TypeOK /\ G!PassComplete
    /\ B!TypeOK /\ B!ValidationComplete

\* PathWalk: a walk without an error passes on every file that was there, a
\* file comes twice only at the border of two pages, and no fetcher sends on
\* the channel once it is closed.
WalkRight == P!TypeOK /\ P!WalkComplete /\ P!TwiceAtBorders /\ P!NoSendOnClosed

\* Fsck: every file is reported on or found to be well, a broken one as such, and
\* the check panics only at a broken record that two files of a batch have.
FsckRight == F!TypeOK /\ F!FsckComplete /\ F!PanicsOnlyThere

\* Backup: a backup that is done has every file that was there all the time,
\* and it is listed.
BackupRight ==
    IF part = "backup" THEN K!TypeOK /\ K!BackupWhole /\ K!BackupListed
                       ELSE C!TypeOK /\ C!BackupWhole /\ C!BackupListed

\* GCScan and Backup: the collector does not ask about what had a file, and
\* removes nothing that a listed backup has.
OnlyGarbage ==
    [][ /\ part = "collect" => G!AsksUnlinked
        /\ part = "backupgc" => C!RemovesOther ]_<<gvars, kvars>>

\* GCScan, BlobWalk and PathWalk: a pass, a validation whose view does not
\* fail, and a walk with a taker that goes on come to their ends; when the
\* taker gives up, goroutines are left only with a document in hand or in
\* front of a full buffer.
ScansEnd ==
    /\ part = "collect" => G!PassEnds
    /\ part = "validate" => B!ValidationEnds
    /\ part = "walk" => P!WalkEnds
    /\ part = "giveup" => Q!LeftOnlyThere

===============================================================================
