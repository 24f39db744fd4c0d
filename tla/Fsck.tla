---------------------------------- MODULE Fsck ----------------------------------
(***************************************************************************)
(* dofsck (fsck.go): the files of a walk are clumped into batches, and the *)
(* ownership records of a batch are read at once.  A record that the bulk  *)
(* read did not give is asked for again.  The check stops with a panic at  *)
(* a record that cannot be read and that two of the batch share.           *)
(***************************************************************************)
EXTENDS Naturals, Sequences, SequencesExt

CONSTANTS
    Name, Oid,
    NoOid,            \* the document of the file could not be read
    Size,             \* of a batch
    MaxFiles          \* bound on the files of the walk

FsckAssumption == Size \in Nat \ {0} /\ MaxFiles \in Nat

VARIABLES
    meta,        \* the oid of each file, or NoOid
    records,     \* the blobs that have a readable ownership record
    broken,      \* the blobs that have an unreadable one
    errsOnly,
    res,         \* keyClumper: the batch that is being filled
    batch,       \* the batch that was handed over, or <<>>
    input,       \* "open", or "closed" after the last file
    fsck,        \* "run", "done", "aborted", "panicked"
    reports,     \* what was reported: <<name, "ok" | "file" | "blob" | "missing">>
    taken,       \* history: the files taken from the walk
    spared,      \* history: the names that were found only when asked again
    quiet        \* history: the names that the bulk read did not give

vars == <<meta, records, broken, errsOnly, res, batch, input, fsck, reports, taken,
          spared, quiet>>

TypeOK ==
    /\ res \in Seq(Name) /\ Len(res) < Size
    /\ batch \in Seq(Name) /\ Len(batch) <= Size
    /\ input \in {"open", "closed"}
    /\ fsck \in {"run", "done", "aborted", "panicked"}
    /\ reports \subseteq Name \X {"ok", "file", "blob", "missing"}
    /\ {spared, quiet} \subseteq SUBSET Name

Init ==
    /\ meta \in [Name -> Oid \cup {NoOid}]
    /\ records \in SUBSET Oid
    /\ broken \in SUBSET (Oid \ records)
    /\ errsOnly \in BOOLEAN
    /\ res = <<>> /\ batch = <<>> /\ input = "open" /\ fsck = "run"
    /\ reports = {} /\ taken = <<>> /\ spared = {} /\ quiet = {}

config == <<meta, records, broken, errsOnly>>

-------------------------------------------------------------------------------
(***************************************************************************)
(* keyClumper takes a file, and hands the batch over when it is full, or   *)
(* at the end.  The walk may give the same file twice.                     *)
(***************************************************************************)
ClumpBy(n, size) ==
    /\ input = "open" /\ fsck = "run" /\ Len(taken) < MaxFiles
    /\ LET r == Append(res, n) IN
       \/ Len(r) < size /\ res' = r /\ UNCHANGED batch
       \/ Len(r) = size /\ batch = <<>> /\ batch' = r /\ res' = <<>>
    /\ taken' = Append(taken, n)
    /\ UNCHANGED <<config, input, fsck, reports, spared, quiet>>

Clump(n) == ClumpBy(n, Size)

ClumpLast(flush) ==
    /\ input = "open" /\ fsck = "run"
    /\ batch = <<>>
    /\ input' = "closed"
    /\ batch' = IF flush THEN res ELSE <<>>
    /\ res' = <<>>
    /\ UNCHANGED <<config, fsck, reports, taken, spared, quiet>>

\* Mutant: what is left over is forgotten.
ClumpEndForgets == ClumpLast(FALSE)

ClumpEnd == ClumpLast(TRUE)

(***************************************************************************)
(* One batch.  The bulk read gives some of the records; it is keyed by     *)
(* blob, and fnmap has the names of each, one as often as it came.         *)
(***************************************************************************)
NamesOf(given) == {n \in ToSet(batch) : meta[n] \in given}

\* The records given that cannot be read and have more than one name.
Shared(given) ==
    {o \in given \cap broken :
         \E i, j \in 1..Len(batch) : i < j /\ meta[batch[i]] = o /\ meta[batch[j]] = o}

\* What is reported of files without a document, and for the records given.
FileReports == {<<n, "file">> : n \in {m \in ToSet(batch) : meta[m] = NoOid}}

RecordReports(given) ==
    {<<n, "blob">> : n \in NamesOf(given \cap broken)}
    \cup {<<n, "ok">> : n \in IF errsOnly THEN {} ELSE NamesOf(given)}

Batch ==
    /\ batch # <<>> /\ fsck = "run"
    /\ \E given \in SUBSET (records \cup broken), again \in SUBSET records :
          LET left == ToSet(batch) \ NamesOf(given)
              found == {n \in left : meta[n] \in again} IN
          /\ Shared(given) = {}
          /\ reports' = reports \cup FileReports \cup RecordReports(given)
                            \cup {<<n, "missing">> : n \in left \ found}
          /\ spared' = spared \cup found
          /\ quiet' = quiet \cup left
    /\ batch' = <<>>
    /\ UNCHANGED <<config, res, input, fsck, taken>>

\* The report of the first name overwrites the error (fsck.go:107), and for the
\* second one nil.Error() is called.  Some records came before, in any order.
BatchPanics ==
    /\ batch # <<>> /\ fsck = "run" /\ fsck' = "panicked"
    /\ \E given \in SUBSET (records \cup broken) :
       \E o \in Shared(given), before \in SUBSET (given \ Shared(given)) :
          LET named == SelectSeq(batch, LAMBDA n : meta[n] = o) IN
          /\ reports' = reports \cup FileReports \cup RecordReports(before)
                            \cup {<<Head(named), "blob">>}
          /\ quiet' = quiet \cup (ToSet(batch) \ NamesOf(given))
    /\ UNCHANGED <<config, res, batch, input, taken, spared>>

\* The bulk read or the output fails.
Abort ==
    /\ batch # <<>> /\ fsck = "run"
    /\ fsck' = "aborted"
    /\ UNCHANGED <<config, res, batch, input, reports, taken, spared, quiet>>

End ==
    /\ fsck = "run" /\ input = "closed" /\ batch = <<>>
    /\ fsck' = "done"
    /\ UNCHANGED <<config, res, batch, input, reports, taken, spared, quiet>>

Next == (\E n \in Name : Clump(n)) \/ ClumpEnd \/ Batch \/ BatchPanics \/ Abort \/ End

Spec == Init /\ [][Next]_vars

-------------------------------------------------------------------------------
(***************************************************************************)
(* However the check ends, of every file of the batches it is done with    *)
(* something was reported, unless only errors are asked for, except those  *)
(* whose record was found only when it was asked for again; and it is an   *)
(* error for a file without a readable document, and for one whose record  *)
(* was given and cannot be read.  At its end that is every file it was     *)
(* given.                                                                  *)
(***************************************************************************)
DoneWith == SubSeq(taken, 1, Len(taken) - Len(res) - Len(batch))

FsckComplete ==
    \A n \in ToSet(DoneWith) :
       /\ errsOnly \/ (\E r \in reports : r[1] = n) \/ n \in spared \cap quiet
       /\ meta[n] = NoOid => <<n, "file">> \in reports
       /\ meta[n] \in broken => {<<n, "blob">>, <<n, "missing">>} \cap reports # {}

(***************************************************************************)
(* The check panics only when two files of the walk that fall into one     *)
(* batch, or one that came twice, have a record that cannot be read, and   *)
(* it has said so of one of them.                                          *)
(***************************************************************************)
PanicsOnlyThere ==
    fsck = "panicked" =>
       \E i, j \in 1..Len(taken) :
          /\ i < j /\ (i - 1) \div Size = (j - 1) \div Size
          /\ meta[taken[i]] = meta[taken[j]] /\ meta[taken[i]] \in broken
          /\ <<taken[i], "blob">> \in reports

===============================================================================
