------------------------------- MODULE Download -------------------------------
(***************************************************************************)
(* The directory download of cbfsclient (tools/cbfsclient/download.go) and *)
(* Client.Blobs (client/fetch.go): the files of a listing are grouped by   *)
(* content; the blobs the server has a record of are fetched concurrently, *)
(* each with retries, and written to all of its files at once, or, with    *)
(* -L, to one file to which the others are hard links.                     *)
(*                                                                         *)
(* The destination may hold files of an earlier download, some of them     *)
(* hard links of one another.                                              *)
(***************************************************************************)
EXTENDS Naturals

CONSTANTS
    File,          \* names at the destination
    Oid,
    MaxInode,      \* bound on inodes
    Priors,        \* inodes the names may have before (0 is no file)
    Tries,         \* attempts at a blob (saturate)
    MaxFaults,     \* bound on attempts that fail
    None, Old, Torn

DownloadAssumption ==
    /\ MaxInode \in Nat /\ Priors \subseteq [File -> 0..MaxInode]
    /\ Tries \in Nat \ {0} /\ MaxFaults \in Nat /\ None \notin Oid

VARIABLES
    link,          \* -L
    want,          \* the listing: file -> oid, None when it is not listed
    known,         \* blobs that have a record with nodes
    base,          \* the first file of each blob
    prior,         \* the inodes before
    inode,         \* file -> inode
    cont,          \* inode -> content: Old, Torn or an oid
    mixed,         \* inodes two writers had open at once
    job,           \* oid -> [pc, tries, open]
    pc,            \* "run", "ok", "failed"
    faults

vars == <<link, want, known, base, prior, inode, cont, mixed, job, pc, faults>>

Inode == 1..MaxInode

Dests(o) == {f \in File : want[f] = o}

\* Blobs feeds what the answer about the blobs has, and nothing for the rest.
Fed == {o \in known : \E f \in File : want[f] = o}

TypeOK ==
    /\ link \in BOOLEAN /\ want \in [File -> Oid \cup {None}] /\ known \subseteq Oid
    /\ base \in [Oid -> File] /\ prior \in [File -> Inode \cup {0}]
    /\ inode \in [File -> Inode \cup {0}] /\ cont \in [Inode -> Oid \cup {Old, Torn}]
    /\ mixed \subseteq Inode /\ pc \in {"run", "ok", "failed"} /\ faults \in 0..MaxFaults
    /\ job \in [Oid -> [pc : {"wait", "copy", "done", "failed"}, tries : 0..Tries,
                        open : SUBSET Inode]]

Init ==
    /\ link \in BOOLEAN /\ want \in [File -> Oid \cup {None}] /\ known \in SUBSET Oid
    /\ base \in {b \in [Oid -> File] :
                     \A o \in Oid : (\E f \in File : want[f] = o) => want[b[o]] = o}
    /\ prior \in Priors /\ inode = prior
    /\ cont = [i \in Inode |-> Old] /\ mixed = {}
    /\ job = [o \in Oid |-> [pc |-> "wait", tries |-> 0, open |-> {}]]
    /\ pc = "run" /\ faults = 0

-------------------------------------------------------------------------------
\* An attempt failed; after the last one the blob is given up.
FailedIn(o, n) ==
    /\ faults < MaxFaults /\ faults' = faults + 1
    /\ job' = [job EXCEPT ![o] = [pc |-> IF @.tries + 1 < n THEN "wait" ELSE "failed",
                                  tries |-> @.tries + 1, open |-> {}]]

Failed(o) == FailedIn(o, Tries)

\* fetchWorker.Work: the node does not answer, or not with 200.
WorkFails(o) ==
    /\ pc = "run" /\ o \in Fed /\ job[o].pc = "wait" /\ Failed(o)
    /\ UNCHANGED <<link, want, known, base, prior, inode, cont, mixed, pc>>

\* os.Create: a new inode, or the one the name has, truncated.
Unused == Inode \ {inode[f] : f \in File}

Creates(fs) ==
    {new \in [fs -> Inode] :
        /\ \A f \in fs : IF inode[f] # 0 THEN new[f] = inode[f] ELSE new[f] \in Unused
        /\ \A f, g \in fs : f # g /\ inode[f] = 0 => new[f] # new[g]}

OpenElsewhere(o) == UNION {job[p].open : p \in Oid \ {o}}

(***************************************************************************)
(* saveDownload up to the copy.  With -L a name that exists already is     *)
(* left as it is.                                                          *)
(***************************************************************************)
Made(o) == IF link THEN Dests(o) \cap {base[o]} ELSE Dests(o)

SaveDownload(o) ==
    /\ pc = "run" /\ o \in Fed /\ job[o].pc = "wait"
    /\ \E new \in Creates(Made(o)) :
           LET is == {new[f] : f \in Made(o)} IN
           /\ inode' = [f \in File |->
                  CASE f \in Made(o) -> new[f]
                    [] f \in Dests(o) \ Made(o) /\ inode[f] = 0 -> new[base[o]]
                    [] OTHER -> inode[f]]
           /\ cont' = [i \in Inode |-> IF i \in is THEN Torn ELSE cont[i]]
           /\ mixed' = (mixed \ is) \cup (is \cap OpenElsewhere(o))
           /\ job' = [job EXCEPT ![o] = [pc |-> "copy", tries |-> @.tries, open |-> is]]
    /\ UNCHANGED <<link, want, known, base, prior, pc, faults>>

\* io.Copy to the end; what two writers wrote at once is neither's.
Copied(o) ==
    /\ pc = "run" /\ job[o].pc = "copy"
    /\ cont' = [i \in Inode |-> IF i \notin job[o].open THEN cont[i]
                               ELSE IF i \in mixed THEN Torn ELSE o]
    /\ job' = [job EXCEPT ![o] = [pc |-> "done", tries |-> @.tries, open |-> {}]]
    /\ UNCHANGED <<link, want, known, base, prior, inode, mixed, pc, faults>>

\* Mutant: the error of the copy is not returned.
CopyFailsQuiet(o) ==
    /\ pc = "run" /\ job[o].pc = "copy"
    /\ job' = [job EXCEPT ![o] = [pc |-> "done", tries |-> @.tries, open |-> {}]]
    /\ faults < MaxFaults /\ faults' = faults + 1
    /\ UNCHANGED <<link, want, known, base, prior, inode, cont, mixed, pc>>

CopyFails(o) ==
    /\ pc = "run" /\ job[o].pc = "copy" /\ Failed(o)
    /\ UNCHANGED <<link, want, known, base, prior, inode, cont, mixed, pc>>

\* Saturate returns.
Ends ==
    /\ pc = "run" /\ \A o \in Fed : job[o].pc \in {"done", "failed"}
    /\ pc' = IF \E o \in Fed : job[o].pc = "failed" THEN "failed" ELSE "ok"
    /\ UNCHANGED <<link, want, known, base, prior, inode, cont, mixed, job, faults>>

Next ==
    \/ Ends
    \/ \E o \in Oid : WorkFails(o) \/ SaveDownload(o) \/ Copied(o) \/ CopyFails(o)

Spec == Init /\ [][Next]_vars

-------------------------------------------------------------------------------
Shared(f) == prior[f] # 0 /\ \E g \in File \ {f} : prior[g] = prior[f]
Right(f) == inode[f] # 0 /\ cont[inode[f]] = want[f]

(***************************************************************************)
(* A download that reports no error has every listed file with its         *)
(* content, whatever was retried and however the writers interleaved,      *)
(* except: a blob without a record is left out; with -L a name that was    *)
(* there before keeps what it had; and names that an earlier -L made one   *)
(* file (the file itself, or the one it is linked to now) get whatever was *)
(* written last.                                                           *)
(***************************************************************************)
DownloadWhole ==
    pc = "ok" => \A f \in File : want[f] # None =>
        \/ want[f] \notin known
        \/ Right(f)
        \/ link /\ prior[f] # 0 /\ base[want[f]] # f
        \/ Shared(f) \/ (link /\ Shared(base[want[f]]))

(***************************************************************************)
(* Files that are not part of the listing keep what they held, unless they *)
(* are hard links to one that is.                                          *)
(***************************************************************************)
OthersKept ==
    \A f \in File : want[f] = None =>
        /\ inode[f] = prior[f]
        /\ prior[f] # 0 /\ ~Shared(f) => cont[inode[f]] = Old

-------------------------------------------------------------------------------
(***************************************************************************)
(* What makes them inductive.  A name that -L has linked has the inode of  *)
(* the first file of its blob, its origin; origins have one inode only if  *)
(* they had it before.                                                     *)
(***************************************************************************)
Origin(f) == IF link /\ prior[f] = 0 /\ want[f] # None THEN base[want[f]] ELSE f

InodeInv ==
    /\ \A o \in Oid, f \in File : want[f] = o => want[base[o]] = o
    /\ \A f \in File : prior[f] # 0 => inode[f] = prior[f]
    /\ \A f \in File : inode[f] # 0 => inode[f] = inode[Origin(f)]
    /\ \A f, g \in File :
          Origin(f) = f /\ Origin(g) = g /\ f # g /\ inode[f] # 0 /\ inode[f] = inode[g]
             => prior[f] # 0 /\ prior[f] = prior[g]

(***************************************************************************)
(* A writer has the inodes of its files open, all of them, and another one *)
(* has one of these open only if names shared it before.                   *)
(***************************************************************************)
OpenInv ==
    /\ \A o \in Oid : \A i \in job[o].open : \E f \in Made(o) : inode[f] = i
    /\ \A o \in Oid : job[o].pc = "copy" => \A f \in Made(o) : inode[f] \in job[o].open
    /\ \A o \in Oid : job[o].pc \in {"copy", "done"} => \A f \in Dests(o) : inode[f] # 0
    /\ \A i \in mixed : \E f \in File : Shared(f) /\ prior[f] = i
    /\ \A o \in Oid : job[o].pc \in {"wait", "copy"} => job[o].tries < Tries

\* What was copied stays.
DoneInv ==
    \A o \in Oid : job[o].pc = "done" => \A f \in Made(o) : Shared(f) \/ Right(f)

\* Success is told when all is done.
OkInv == pc = "ok" => \A o \in Fed : job[o].pc = "done"

Inv == TypeOK /\ OthersKept /\ InodeInv /\ OpenInv /\ DoneInv /\ OkInv

===============================================================================
