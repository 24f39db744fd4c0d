------------------------------- MODULE TeeUpload -------------------------------
(***************************************************************************)
(* One upload: putUserFile (http.go) reads the body into a temporary file, *)
(* while altStoreFile sends the same body to another node.  One pipe ties  *)
(* the two together (ioutil.go): the transport of the second copy reads    *)
(* the request, writes each chunk into the pipe, where putUserFile reads   *)
(* it, and then sends it.  Whoever closes the pipe, for whatever reason,   *)
(* putUserFile sees the end of the body.                                   *)
(*                                                                         *)
(* The body is Size chunks; its first k chunks, and their hash, are k.     *)
(***************************************************************************)
EXTENDS Naturals, Sequences

CONSTANTS Size, Nothing

SizeAssumption == Size \in Nat \ {0} /\ Nothing \notin Nat

\* Capacity of bgch.
BgCap == 2

VARIABLES
    alt,       \* a second copy is made: not X-CBFS-Unsafe, and there is a node
    hashin,    \* X-CBFS-Hash: that of the body, of something else, or Nothing
    read,      \* chunks read from the request
    pipe,      \* "open" or "closed"
    tee,       \* the reader of the request for the second copy: "read", "write"
               \* into the pipe, "send", "eof" or "err" reported, or "off"
    pc,        \* putUserFile: "copy", "finish", "record", "collect", "meta",
               \* "done", or "crashed" with the process
    got,       \* chunks in the temporary file
    tmp,       \* the temporary file exists
    owned,     \* the blob that is stored and recorded here, or Nothing
    answer,    \* the status, 0 until there is one
    remote,    \* doPostRawBlob: "receive", "stored" or "refused"
    rgot,      \* chunks received there
    bg,        \* the goroutine: "do", "again", "done"
    bgch       \* the channel of storInfo

vars == <<alt, hashin, read, pipe, tee, pc, got, tmp, owned, answer, remote, rgot,
          bg, bgch>>
handler == <<pc, got, tmp, owned, answer>>
second == <<remote, rgot, bg, bgch>>

StorInfo == [err: BOOLEAN, hs: (0..Size) \cup {Nothing}]

TypeOK ==
    /\ alt \in BOOLEAN
    /\ hashin \in {"none", "right", "wrong"}
    /\ read \in 0..Size /\ rgot \in 0..Size /\ got \in 0..Size
    /\ pipe \in {"open", "closed"}
    /\ tee \in {"read", "write", "send", "eof", "err", "off"}
    /\ pc \in {"copy", "finish", "record", "collect", "meta", "done", "crashed"}
    /\ tmp \in BOOLEAN
    /\ owned \in (0..Size) \cup {Nothing}
    /\ answer \in {0, 201, 412, 500}
    /\ (answer # 0) <=> (pc = "done")
    /\ remote \in {"receive", "stored", "refused"}
    /\ bg \in {"do", "again", "done"}
    /\ bgch \in Seq(StorInfo) /\ Len(bgch) <= BgCap

Init ==
    /\ alt \in BOOLEAN
    /\ hashin \in {"none", "right", "wrong"}
    /\ read = 0 /\ got = 0 /\ rgot = 0
    /\ pipe = "open"
    /\ tee = IF alt THEN "read" ELSE "off"
    /\ pc = "copy"
    /\ tmp = TRUE
    /\ owned = Nothing
    /\ answer = 0
    /\ remote = "receive"
    /\ bg = IF alt THEN "do" ELSE "done"
    /\ bgch = <<>>

-------------------------------------------------------------------------------
(***************************************************************************)
(* closingPipe.Read.  The request has another chunk, has ended, or fails:  *)
(* its sender has gone or its time is up, or putUserFile has returned and  *)
(* the server has closed it.                                               *)
(***************************************************************************)
TeeRead ==
    /\ tee = "read"
    /\ \/ /\ read < Size /\ pc # "done"
          /\ read' = read + 1 /\ tee' = "write"
          /\ UNCHANGED pipe
       \/ /\ read = Size /\ pc # "done"
          /\ tee' = "eof" /\ pipe' = "closed"
          /\ UNCHANGED read
       \/ /\ tee' = "err" /\ pipe' = "closed"
          /\ UNCHANGED read
    /\ UNCHANGED <<alt, hashin, handler, second>>

\* The chunk goes over only when putUserFile takes it.
TeeWrite ==
    /\ tee = "write"
    /\ \/ /\ pipe = "open" /\ pc = "copy"
          /\ got' = got + 1 /\ tee' = "send"
       \/ /\ pipe = "closed"
          /\ tee' = "err"
          /\ UNCHANGED got
    /\ UNCHANGED <<alt, hashin, read, pipe, pc, tmp, owned, answer, second>>

\* The timer of the write, which may also fire just before it is stopped.
TeeTimeout ==
    /\ tee \in {"write", "send"}
    /\ pipe' = "closed"
    /\ UNCHANGED <<alt, hashin, read, tee, handler, second>>

TeeSend ==
    /\ tee = "send"
    /\ tee' = "read"
    /\ rgot' = IF remote = "receive" THEN rgot + 1 ELSE rgot
    /\ UNCHANGED <<alt, hashin, read, pipe, handler, remote, bg, bgch>>

-------------------------------------------------------------------------------
(***************************************************************************)
(* doPostRawBlob, on the other node: it stores what it has received when   *)
(* the body has ended.  It fails when the body is cut off, and may fail    *)
(* at any time.                                                            *)
(***************************************************************************)
PostRawBlob ==
    /\ bg = "do" /\ remote = "receive"
    /\ \/ tee = "eof" /\ remote' = "stored"
       \/ remote' = "refused"
    /\ UNCHANGED <<alt, hashin, read, pipe, tee, handler, rgot, bg, bgch>>

Sends(err, hs) == bgch' = Append(bgch, [err |-> err, hs |-> hs])

(***************************************************************************)
(* The goroutine of altStoreFile.  A refusal is sent at once, and then the *)
(* response is read all the same and a second storInfo is sent.            *)
(***************************************************************************)
DoAnswered ==
    /\ bg = "do"
    /\ \/ /\ remote = "stored"
          /\ \E hs \in {rgot, Nothing} : Sends(FALSE, hs)
          /\ bg' = "done"
          /\ UNCHANGED pipe
       \/ /\ remote = "refused"
          /\ pipe' = "closed"
          /\ Sends(TRUE, Nothing)
          /\ bg' = "again"
    /\ UNCHANGED <<alt, hashin, read, tee, handler, remote, rgot>>

\* The request could not be sent, or was not answered in time.
DoFailed ==
    /\ bg = "do"
    /\ pipe' = "closed"
    /\ Sends(TRUE, Nothing)
    /\ bg' = "done"
    /\ UNCHANGED <<alt, hashin, read, tee, handler, remote, rgot>>

SendAgain ==
    /\ bg = "again"
    /\ Len(bgch) < BgCap
    /\ Sends(FALSE, Nothing)
    /\ bg' = "done"
    /\ UNCHANGED <<alt, hashin, read, pipe, tee, handler, remote, rgot>>

-------------------------------------------------------------------------------
\* Returning closes the hashRecord, which removes a temporary file.
Returns(status) == pc' = "done" /\ answer' = status /\ tmp' = FALSE

\* io.Copy of hashRecord.Process, from the pipe or from the request.
Copy ==
    /\ pc = "copy"
    /\ \/ /\ alt /\ pipe = "closed"
          /\ pc' = "finish"
          /\ UNCHANGED <<read, got, tmp, answer>>
       \/ /\ ~alt /\ read < Size
          /\ read' = read + 1 /\ got' = got + 1
          /\ UNCHANGED <<pc, tmp, answer>>
       \/ /\ ~alt /\ read = Size
          /\ pc' = "finish"
          /\ UNCHANGED <<read, got, tmp, answer>>
       \/ /\ ~alt
          /\ Returns(500)
          /\ UNCHANGED <<read, got>>
    /\ UNCHANGED <<alt, hashin, pipe, tee, owned, second>>

\* The temporary file cannot be written.
CopyFails ==
    /\ pc = "copy"
    /\ Returns(500)
    /\ UNCHANGED <<alt, hashin, read, pipe, tee, got, owned, second>>

(***************************************************************************)
(* hashRecord.Finish: the hash is compared with X-CBFS-Hash, and the file  *)
(* takes its name, unless it has been taken for an old one and removed.    *)
(***************************************************************************)
Finish ==
    /\ pc = "finish"
    /\ \/ /\ hashin = "none" \/ (hashin = "right" /\ got = Size)
          /\ tmp
          /\ pc' = "record" /\ tmp' = FALSE
          /\ UNCHANGED answer
       \/ Returns(500)
    /\ UNCHANGED <<alt, hashin, read, pipe, tee, got, owned, second>>

Record ==
    /\ pc = "record"
    /\ \/ /\ owned' = got /\ pc' = "collect"
          /\ UNCHANGED <<tmp, answer>>
       \/ Returns(500) /\ UNCHANGED owned
    /\ UNCHANGED <<alt, hashin, read, pipe, tee, got, second>>

(***************************************************************************)
(* The outcome of the second copy: the first storInfo, or the channel is   *)
(* closed when no second copy was tried.                                   *)
(***************************************************************************)
CollectIf(good) ==
    /\ pc = "collect"
    /\ \/ /\ ~alt
          /\ pc' = "meta"
          /\ UNCHANGED <<tmp, answer, bgch>>
       \/ /\ bgch # <<>>
          /\ bgch' = Tail(bgch)
          /\ \/ good /\ pc' = "meta" /\ UNCHANGED <<tmp, answer>>
             \/ ~good /\ Returns(500)
    /\ UNCHANGED <<alt, hashin, read, pipe, tee, got, owned, remote, rgot, bg>>

\* Mutant: the second copy is only waited for.
CollectAny == CollectIf(TRUE)

Collect == CollectIf(bgch # <<>> /\ ~bgch[1].err /\ bgch[1].hs = got)

StoreMeta ==
    /\ pc = "meta"
    /\ \E status \in {201, 412, 500} : Returns(status)
    /\ UNCHANGED <<alt, hashin, read, pipe, tee, got, owned, second>>

-------------------------------------------------------------------------------
\* The process stops; the other node sees the body cut off.
Crash ==
    /\ pc # "crashed" /\ pc # "done"
    /\ pc' = "crashed"
    /\ tee' = "off" /\ bg' = "done" /\ pipe' = "closed"
    /\ UNCHANGED <<alt, hashin, read, got, tmp, owned, answer, remote, rgot, bgch>>

(***************************************************************************)
(* cleanTmpFiles: a temporary file that was not written for an hour is     *)
(* removed, whether its upload is still running or not.                    *)
(***************************************************************************)
CleanTmpFiles ==
    /\ tmp
    /\ tmp' = FALSE
    /\ UNCHANGED <<alt, hashin, read, pipe, tee, pc, got, owned, answer, second>>

Next ==
    \/ TeeRead \/ TeeWrite \/ TeeTimeout \/ TeeSend
    \/ PostRawBlob \/ DoAnswered \/ DoFailed \/ SendAgain
    \/ Copy \/ CopyFails \/ Finish \/ Record \/ Collect \/ StoreMeta
    \/ Crash \/ CleanTmpFiles

(***************************************************************************)
(* Reads of the request end, since the server has a ReadTimeout; requests  *)
(* to the other node have the timeouts of TimeoutTransport, counted here   *)
(* only once the body has ended; the timer of a write fires; cleanTmpFiles *)
(* is a periodic task.                                                     *)
(***************************************************************************)
Fairness ==
    /\ WF_vars(TeeRead) /\ WF_vars(TeeWrite) /\ WF_vars(TeeTimeout) /\ WF_vars(TeeSend)
    /\ WF_vars(tee \in {"eof", "err"} /\ PostRawBlob) /\ WF_vars(DoAnswered) /\ WF_vars(SendAgain)
    /\ WF_vars(Copy) /\ WF_vars(Finish) /\ WF_vars(Record) /\ WF_vars(Collect)
    /\ WF_vars(StoreMeta) /\ WF_vars(pc = "crashed" /\ CleanTmpFiles)

Spec == Init /\ [][Next]_vars /\ Fairness

-------------------------------------------------------------------------------
(***************************************************************************)
(* An upload that is answered with 201 is whole, here and, if a second     *)
(* copy was tried, there, although the pipe shows every failure of the     *)
(* request, of the other node and of the timer as the end of the body.     *)
(***************************************************************************)
AckedWhole ==
    answer = 201 => owned = Size /\ (alt => remote = "stored" /\ rgot = Size)

(***************************************************************************)
(* A cut off body is stored and recorded as a blob only if the upload had  *)
(* a second copy and no X-CBFS-Hash; one with the wrong hash never is.     *)
(***************************************************************************)
CutOnlyUnhashed ==
    owned # Nothing =>
       /\ hashin # "wrong"
       /\ owned < Size => alt /\ hashin = "none"

(***************************************************************************)
(* The upload is answered, its goroutine ends whether anybody takes what   *)
(* it sends or not, and no temporary file is left, unless the process      *)
(* stops; then the file goes later.                                        *)
(***************************************************************************)
UploadEnds == <>(pc \in {"done", "crashed"} /\ bg = "done" /\ ~tmp)

-------------------------------------------------------------------------------
(***************************************************************************)
(* What makes the properties inductive.  How far the chunks have come: the *)
(* temporary file and the other node have what was read, up to the chunk   *)
(* in hand, and what the other node has stored is everything.              *)
(***************************************************************************)
Flow ==
    /\ tee \in {"read", "send", "eof"} => got = read
    /\ tee = "write" => got + 1 = read
    /\ remote = "receive" =>
          /\ tee \in {"read", "eof"} => rgot = read
          /\ tee \in {"write", "send"} => rgot + 1 = read
    /\ tee = "eof" => read = Size
    /\ remote = "stored" => tee \in {"eof", "off"} /\ rgot = Size /\ got = Size
    /\ ~alt => tee = "off" /\ bg = "done" /\ remote = "receive" /\ got = read

\* A storInfo with a hash is that of a second copy that is whole.
Sent ==
    /\ bg = "do" => bgch = <<>>
    /\ \A i \in DOMAIN bgch :
          bgch[i].hs # Nothing => remote = "stored" /\ bgch[i].hs = Size

\* The hash is right when there is one to compare with.
Hashed == hashin = "none" \/ (hashin = "right" /\ got = Size)

\* What putUserFile knows of the file at each step.
Kept ==
    /\ ~alt /\ pc \in {"finish", "record", "collect", "meta"} => got = Size
    /\ pc \in {"record", "collect", "meta"} => Hashed
    /\ pc \in {"collect", "meta"} => owned = got
    /\ pc = "meta" => got = Size /\ (alt => remote = "stored")
    /\ owned # Nothing =>
          /\ pc \in {"collect", "meta", "done", "crashed"}
          /\ owned = got /\ Hashed /\ (~alt => got = Size)

Inv == TypeOK /\ AckedWhole /\ CutOnlyUnhashed /\ Flow /\ Sent /\ Kept

===============================================================================
