------------------------------- MODULE ReadPart -------------------------------
(***************************************************************************)
(* An application that reads a file (FileHandle) and the download of a     *)
(* directory (Download), as parts of a client.                             *)
(***************************************************************************)
EXTENDS Naturals, Sequences

CONSTANTS
    Node, MaxLength, Buf, Uses, HandleFaults,                            \* FileHandle
    File, Oid, MaxInode, Priors, Tries, DownloadFaults, None, Old, Torn  \* Download

VARIABLES
    \* FileHandle:
    calls, length, nodes, whole, off, listed, cached, has, cluster, last, start, got,
    hfaults, unlisted, early,
    \* Download:
    link, want, known, base, prior, inode, cont, mixed, job, dpc, dfaults

hvars == <<calls, length, nodes, whole, off, listed, cached, has, cluster, last, start, got,
           hfaults, unlisted, early>>
dvars == <<link, want, known, base, prior, inode, cont, mixed, job, dpc, dfaults>>

H == INSTANCE FileHandle WITH MaxFaults <- HandleFaults, faults <- hfaults
D == INSTANCE Download WITH MaxFaults <- DownloadFaults, pc <- dpc, faults <- dfaults

ASSUME ReadAssumption == H!HandleAssumption /\ D!DownloadAssumption

-------------------------------------------------------------------------------
\* FileHandle: the right bytes, in order, each once; a call panics only when it
\* knows no node of the blob, which with a list read after the file was opened
\* means that there was none or that all left, and an answer is refused only when
\* the node lost the blob, or for the ranges that RefusedOnlyThere names.
HandleRight == H!TypeOK /\ H!ReadsExact /\ H!PanicsOnlyThere /\ H!RefusedOnlyThere

\* Download: success means that every listed file is there, and other files
\* keep what they held.
DownloadRight == D!TypeOK /\ D!DownloadWhole /\ D!OthersKept

===============================================================================
