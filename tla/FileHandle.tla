------------------------------ MODULE FileHandle ------------------------------
(***************************************************************************)
(* The file handle of the client library (client/fetch.go): Read, ReadAt,  *)
(* WriteTo and Seek on a file of which the length, and the nodes that have *)
(* its blob, were read once, by OpenFile.  Each call asks one of those     *)
(* nodes for a range; the list of the cluster's nodes is cached by the     *)
(* client (client/nodes.go), of which the handle keeps a copy, with a list *)
(* that the client may have asked for long before.                         *)
(*                                                                         *)
(* A byte is its position in the file.                                     *)
(***************************************************************************)
EXTENDS Naturals, Sequences

CONSTANTS
    Node,
    MaxLength,     \* lengths of the file, 0..MaxLength
    Buf,           \* lengths of the buffers of Read and ReadAt
    Uses,          \* the calls that an application makes, for each kind of one
    MaxFaults      \* bound on lost calls, cut answers and lost copies

HandleAssumption ==
    /\ MaxLength \in Nat /\ Buf \subseteq Nat /\ MaxFaults \in Nat
    /\ Uses \subseteq SUBSET {"Read", "ReadAt", "WriteTo", "Seek"}

VARIABLES
    calls,         \* the calls that the application makes
    length, nodes, \* of the handle, since OpenFile
    whole,         \* status net/http gives a range that is all of the file
    off,           \* of the handle
    listed,        \* the client's cached nodes, if it asked for them
    cached,        \* it has asked
    has,           \* nodes that have the blob
    cluster,       \* nodes of the cluster
    last,          \* the last call: [call, at, want, data, err]
    start, got,    \* history: position after the last Seek, and what was read since
    faults,
    unlisted,      \* history: a list of nodes could not be had
    early          \* history: the client asked for the nodes before OpenFile

vars == <<calls, length, nodes, whole, off, listed, cached, has, cluster, last, start, got,
          faults, unlisted, early>>

Errs == {"none", "EOF", "status", "call", "cut", "range", "panic"}
Dead == last.err = "panic"

\* The bytes from a up to and without b.
Bytes(a, b) == [i \in 1..(IF a < b THEN b - a ELSE 0) |-> a + i - 1]

Result(call, at, want, data, err) ==
    [call |-> call, at |-> at, want |-> want, data |-> data, err |-> err]

TypeOK ==
    /\ calls \in Uses /\ length \in 0..MaxLength /\ nodes \subseteq Node /\ whole \in {200, 206}
    /\ off \in 0..length /\ start \in 0..length
    /\ listed \subseteq Node /\ cached \in BOOLEAN /\ has \subseteq cluster /\ cluster \subseteq Node
    /\ last.err \in Errs /\ faults \in 0..MaxFaults /\ unlisted \in BOOLEAN
    /\ early \in BOOLEAN

\* The client has not asked for the nodes yet, or it has the list of earlier on,
\* which may lack nodes that joined since and have nodes that left, or it has
\* the empty one that a failed request leaves.
ListBefore ==
    /\ early \in BOOLEAN /\ cached = early
    /\ listed \in SUBSET Node /\ unlisted \in BOOLEAN
    /\ unlisted => early
    /\ ~early \/ unlisted => listed = {}

\* OpenFile: nodes is empty when the blob has no record.
Init ==
    /\ calls \in Uses /\ length \in 0..MaxLength /\ nodes \in SUBSET Node /\ has = nodes
    /\ cluster \in {c \in SUBSET Node : nodes \subseteq c}
    /\ whole \in {200, 206} /\ off = 0 /\ start = 0 /\ got = <<>>
    /\ ListBefore /\ faults = 0
    /\ last = Result("open", 0, 0, <<>>, "none")

\* A node loses its copy, or gives it up, or leaves.
Lose(n) ==
    /\ ~Dead /\ n \in has /\ faults < MaxFaults /\ faults' = faults + 1
    /\ has' = has \ {n} /\ cluster' \in {cluster, cluster \ {n}}
    /\ UNCHANGED <<calls, length, nodes, whole, off, listed, cached, last, start, got, unlisted,
                   early>>

-------------------------------------------------------------------------------
(***************************************************************************)
(* What the node answers (doServeRawBlob, http.ServeContent): 206 for a    *)
(* part, 416 for an empty range, 404 without the blob.                     *)
(***************************************************************************)
Status(n, ranged, a, b) ==
    CASE n \notin has -> 404
      [] n \in has /\ ~ranged -> 200
      [] n \in has /\ ranged /\ a >= b -> 416
      [] n \in has /\ ranged /\ a < b /\ a = 0 /\ b = length -> whole
      [] n \in has /\ ranged /\ a < b /\ ~(a = 0 /\ b = length) -> 206

\* Client.Nodes: asked for the first time only.
Known == IF cached THEN listed ELSE cluster

(***************************************************************************)
(* A call: Nodes, randomUrl, the request, the status the caller expects,   *)
(* and what is read of the body of at most want bytes.  When the list of   *)
(* nodes cannot be had, the client keeps an empty one; when none of the    *)
(* handle's nodes is listed, rand.Intn(0) panics.                          *)
(***************************************************************************)
EndedAt(call, at, want, data, err, pos) ==
    /\ last' = Result(call, at, want, data, err)
    /\ IF call = "ReadAt"
       THEN UNCHANGED <<off, got>>
       ELSE off' = pos /\ got' = got \o data

\* Mutant: the position stays after an error.
EndedOk(call, at, want, data, err) ==
    EndedAt(call, at, want, data, err, IF err = "none" THEN off + Len(data) ELSE off)

Ended(call, at, want, data, err) ==
    EndedAt(call, at, want, data, err, off + Len(data))

NodesFail(call, at) ==
    /\ ~cached /\ faults < MaxFaults /\ faults' = faults + 1
    /\ cached' = TRUE /\ listed' = {} /\ unlisted' = TRUE
    /\ Ended(call, at, 0, <<>>, "call")

NodesListed == listed' = Known /\ cached' = TRUE /\ UNCHANGED unlisted

NoNode(call, at) ==
    /\ nodes \cap listed' = {}
    /\ Ended(call, at, 0, <<>>, "panic") /\ UNCHANGED faults

\* io.ReadFull: a body that ends early, at the end of the file or because
\* the connection broke, is io.EOF.
FullOf(call, at, want, data) ==
    \/ /\ Ended(call, at, want, data, IF Len(data) < want THEN "EOF" ELSE "none")
       /\ UNCHANGED faults
    \/ \E k \in 0..(Len(data) - 1) :
           /\ faults < MaxFaults /\ faults' = faults + 1
           /\ Ended(call, at, want, SubSeq(data, 1, k), "EOF")

\* The status ReadAt expects.
Exp(at, end) == IF at = 0 /\ end = length THEN 200 ELSE 206

AskRange(n, call, at, want) ==
    LET end == IF at + want >= length THEN length ELSE at + want IN
    \/ /\ faults < MaxFaults /\ faults' = faults + 1
       /\ Ended(call, at, want, <<>>, "call")
    \/ /\ Status(n, TRUE, at, end) # Exp(at, end)
       /\ Ended(call, at, want, <<>>, "status") /\ UNCHANGED faults
    \/ /\ Status(n, TRUE, at, end) = Exp(at, end)
       /\ FullOf(call, at, want, Bytes(at, end))

ReadFrom(call, at, want) ==
    /\ \/ NodesFail(call, at)
       \/ /\ NodesListed
          /\ NoNode(call, at) \/ \E n \in nodes \cap listed' : AskRange(n, call, at, want)
    /\ UNCHANGED <<calls, length, nodes, whole, has, cluster, start, early>>

ReadAt(at, want) == ~Dead /\ "ReadAt" \in calls /\ ReadFrom("ReadAt", at, want)

Read(want) ==
    /\ ~Dead /\ "Read" \in calls
    /\ \/ off < length /\ ReadFrom("Read", off, want)
       \/ /\ off >= length /\ Ended("Read", off, want, <<>>, "EOF")
          /\ UNCHANGED <<calls, length, nodes, whole, listed, cached, has, cluster, start,
                         faults, unlisted, early>>

\* io.Copy of what the answer holds; a Range only when something was read.
AskAll(n) ==
    LET status == Status(n, off > 0, off, length) IN
    \/ /\ faults < MaxFaults /\ faults' = faults + 1
       /\ Ended("WriteTo", off, 0, <<>>, "call")
    \/ status # 200 /\ Ended("WriteTo", off, 0, <<>>, "status") /\ UNCHANGED faults
    \/ /\ status = 200
       /\ \/ Ended("WriteTo", off, 0, Bytes(off, length), "none") /\ UNCHANGED faults
          \/ \E k \in 0..(length - off - 1) :
                 /\ faults < MaxFaults /\ faults' = faults + 1
                 /\ Ended("WriteTo", off, 0, Bytes(off, off + k), "cut")

WriteTo ==
    /\ ~Dead /\ "WriteTo" \in calls
    /\ \/ NodesFail("WriteTo", off)
       \/ /\ NodesListed
          /\ NoNode("WriteTo", off) \/ \E n \in nodes \cap listed' : AskAll(n)
    /\ UNCHANGED <<calls, length, nodes, whole, has, cluster, start, early>>

SeekWithin(abs, limit) ==
    /\ ~Dead /\ "Seek" \in calls
    /\ IF abs >= limit
       THEN last' = Result("Seek", abs, 0, <<>>, "range") /\ UNCHANGED <<off, start, got>>
       ELSE /\ off' = abs /\ start' = abs /\ got' = <<>>
            /\ last' = Result("Seek", abs, 0, <<>>, "none")
    /\ UNCHANGED <<calls, length, nodes, whole, listed, cached, has, cluster, faults, unlisted,
                   early>>

Seek(abs) == SeekWithin(abs, length)

Next ==
    \/ \E n \in Node : Lose(n)
    \/ \E w \in Buf : Read(w) \/ \E at \in 0..(length + 1) : ReadAt(at, w)
    \/ WriteTo
    \/ \E abs \in 0..(length + 1) : Seek(abs)

Spec == Init /\ [][Next]_vars

\* The application reads on, and every listed node that has the blob is
\* picked by rand.Intn again and again.
GoodRead == calls = {"Read"} /\ \E w \in Buf \ {0} : Read(w) /\ Len(last'.data) > 0
FairSpec == Spec /\ SF_vars(GoodRead)

-------------------------------------------------------------------------------
(***************************************************************************)
(* Whatever fails in between and whichever nodes answer, what the handle's *)
(* Read and WriteTo have given since the last Seek is what follows there   *)
(* in the file, without a gap and without a byte given twice, up to the    *)
(* position of the handle; and ReadAt gives what is at the position asked. *)
(***************************************************************************)
ReadsExact ==
    /\ got = Bytes(start, off)
    /\ last.call = "ReadAt" => last.data = Bytes(last.at, last.at + Len(last.data))

(***************************************************************************)
(* A call panics (rand.Intn(0), fetch.go:200) only when the blob had no    *)
(* record when the file was opened, when the first attempt to get the list *)
(* of nodes failed, which is never repeated, when all the nodes that had   *)
(* the blob left the cluster, or when the client's list is from before the *)
(* file was opened and has none of them, which is never asked for again    *)
(* either.                                                                 *)
(***************************************************************************)
PanicsOnlyThere ==
    Dead => \/ nodes = {} \/ unlisted \/ nodes \cap cluster = {}
            \/ early /\ nodes \cap listed = {}

(***************************************************************************)
(* An answer that came is refused only when the node lost the blob, for an *)
(* empty range, for WriteTo after something was read, and, with a net/http *)
(* that gives 206 to a range of the whole file, when the buffer of a first *)
(* read holds it all.                                                      *)
(***************************************************************************)
RefusedOnlyThere ==
    last.err = "status" =>
        \/ has # nodes
        \/ last.call = "WriteTo" /\ last.at > 0
        \/ last.call # "WriteTo" /\ (last.want = 0 \/ last.at >= length)
        \/ whole = 206 /\ last.at = 0 /\ last.want >= length

(***************************************************************************)
(* An application that only goes on reading gets to the end of the file,   *)
(* if a listed node keeps the blob and its buffer is not refused as above. *)
(***************************************************************************)
ReadsToEnd ==
    calls = {"Read"} =>
        (<>[](nodes \cap has \cap listed # {} /\ ~Dead) /\ [](whole = 200) => <>(off = length))

-------------------------------------------------------------------------------
(***************************************************************************)
(* What makes them inductive: the handle moves on only, no node gets the   *)
(* blob, and a list that could be had since the file was opened has every  *)
(* node that is still there.                                               *)
(***************************************************************************)
NodesInv ==
    /\ start <= off /\ has \subseteq nodes
    /\ cached /\ ~unlisted /\ ~early => cluster \subseteq listed
    /\ unlisted \/ early => cached

Inv == TypeOK /\ ReadsExact /\ PanicsOnlyThere /\ RefusedOnlyThere /\ NodesInv

===============================================================================
