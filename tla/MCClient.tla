------------------------------- MODULE MCClient -------------------------------
(***************************************************************************)
(* Programs that use the client library: cbfsclient with one of its        *)
(* commands (ls and rm -r, Listing; upload, UploadSync; download,          *)
(* Download), and an application that reads a file (FileHandle).  A        *)
(* process runs one command, so each is explored by itself: "part" is the  *)
(* one that runs, and the others stay in an initial state.                 *)
(***************************************************************************)
EXTENDS ReadPart, TLC

CONSTANTS w1, w2

VARIABLES
    part,
    \* Listing:
    docs, index, lpc, dir, depth, seen, answer, ltodo, changes, steady,
    \* UploadSync:
    tree, bad, remote, pc, todo, pend, ch, ech, wk, rc, faults, first, missed, lagged

lvars == <<docs, index, lpc, dir, depth, seen, answer, ltodo, changes, steady>>
uvars == <<tree, bad, remote, pc, todo, pend, ch, ech, wk, rc, faults, first, missed, lagged>>
clientVars == <<part, lvars, uvars, hvars, dvars>>

(***************************************************************************)
(* Files that share prefixes, also a file in the place of a directory, and *)
(* names that come twice; listed at three places, one level or all.        *)
(***************************************************************************)
Paths == {<<"a">>, <<"a", "a">>, <<"a", "b">>, <<"b", "b">>, <<"a", "b", "a">>}

L == INSTANCE Listing WITH
         Path <- Paths, Dirs <- {<<>>, <<"a">>, <<"a", "b">>}, Depths <- {1, 9}, Deep <- 9,
         MaxChanges <- 1, pc <- lpc, todo <- ltodo

(***************************************************************************)
(* A file beside a directory with two files, against destinations that     *)
(* lack files, have other contents, other files and other directories,     *)
(* also a file for a directory and the reverse; names that are quoted, one *)
(* of which reads as the other, as directories and as files on both sides; *)
(* and four files in one directory for one worker and a channel of one.    *)
(***************************************************************************)
Trees ==
    {[files |-> (<<"a">> :> 1 @@ <<"d", "d">> :> 1 @@ <<"d", "e">> :> 2),
      dirs |-> <<<<>>, <<"d">>>>],
     [files |-> (<<"a">> :> 2 @@ <<"a%23b">> :> 1), dirs |-> <<<<>>>>],
     [files |-> (<<"a">> :> 2 @@ <<"a#b", "x">> :> 1), dirs |-> <<<<>>, <<"a#b">>>>]}

Remotes ==
    {<<>>,
     (<<"a">> :> 1 @@ <<"d", "e">> :> 1),
     (<<"a">> :> 2 @@ <<"z", "y">> :> 1 @@ <<"z">> :> 1 @@ <<"d", "z">> :> 1),
     (<<"d">> :> 1 @@ <<"a", "y">> :> 2),
     (<<"a">> :> 2 @@ <<"a#b", "z">> :> 1 @@ <<"a#b", "a%23b">> :> 1 @@ <<"a%23b">> :> 1)}

\* "a#b" is read up to the "#", and "a%23b" as "a#b".
ReadAs == "a#b" :> [name |-> "a", cut |-> TRUE] @@ "a%23b" :> [name |-> "a#b", cut |-> FALSE]
Quoted == "a#b" :> "a%23b" @@ "a%23b" :> "a%2523b"

Flat ==
    [files |-> (<<"a">> :> 1 @@ <<"b">> :> 1 @@ <<"c">> :> 1 @@ <<"d">> :> 1),
     dirs |-> <<<<>>>>]

U == INSTANCE UploadSync WITH
         Delete <- TRUE, Worker <- {w1, w2}, ChCap <- 2, Retries <- 1, MaxFaults <- 2, MaxLag <- 0
W == INSTANCE UploadSync WITH
         Delete <- TRUE, Worker <- {w1, w2}, ChCap <- 2, Retries <- 1, MaxFaults <- 0, MaxLag <- 1
V == INSTANCE UploadSync WITH
         Trees <- {Flat},
         Remotes <- {<<>>, (<<"a">> :> 1 @@ <<"b">> :> 2 @@ <<"z", "y">> :> 1)},
         Delete <- TRUE, Worker <- {w1}, ChCap <- 1, Retries <- 1, MaxFaults <- 2, MaxLag <- 0

ASSUME ClientAssumption ==
    L!PathAssumption /\ U!SyncAssumption /\ W!SyncAssumption /\ V!SyncAssumption

-------------------------------------------------------------------------------
LOff == docs = {} /\ dir = <<>> /\ depth = 1
UOff == tree = Flat /\ bad = {} /\ remote = <<>>
HOff ==
    /\ calls = CHOOSE u \in Uses : TRUE
    /\ length = 0 /\ nodes = {} /\ cluster = {} /\ whole = 200 /\ early = FALSE
DOff ==
    /\ link = FALSE /\ want = [f \in File |-> None] /\ known = {}
    /\ base = CHOOSE x \in [Oid -> File] : TRUE
    /\ prior = CHOOSE p \in Priors : TRUE

Init ==
    /\ part \in {"list", "tree", "lag", "flat", "handle", "download"}
    /\ (part = "list" \/ LOff) /\ L!Init
    /\ CASE part = "tree" -> U!Init
         [] part = "lag" -> W!Init
         [] OTHER -> (part = "flat" \/ UOff) /\ V!Init
    /\ (part = "handle" \/ HOff) /\ H!Init
    /\ (part = "download" \/ DOff) /\ D!Init

Next ==
    \/ part = "list" /\ L!Next /\ UNCHANGED <<part, uvars, hvars, dvars>>
    \/ part = "tree" /\ U!Next /\ UNCHANGED <<part, lvars, hvars, dvars>>
    \/ part = "lag" /\ W!Next /\ UNCHANGED <<part, lvars, hvars, dvars>>
    \/ part = "flat" /\ V!Next /\ UNCHANGED <<part, lvars, hvars, dvars>>
    \/ part = "handle" /\ H!Next /\ UNCHANGED <<part, lvars, uvars, dvars>>
    \/ part = "download" /\ D!Next /\ UNCHANGED <<part, lvars, uvars, hvars>>

\* The fairness of the part that runs.
Fairness ==
    /\ WF_uvars(part = "flat" /\ V!Main) /\ WF_uvars(part = "flat" /\ V!Work(w1))
    /\ SF_hvars(part = "handle" /\ H!GoodRead)

Spec == Init /\ [][Next]_clientVars /\ Fairness

-------------------------------------------------------------------------------
\* Listing: a listing of one level or of all shows every file that was there all
\* the time, and as a file, and rm -r has removed what was there and means nothing
\* else.
ListingRight ==
    L!TypeOK /\ L!LevelComplete /\ L!DeepComplete /\ L!DirsRight /\ L!RmComplete

\* UploadSync: exit status 0 means that the trees agree, but for names that clash,
\* rows of an old view and names that are not quoted right.
ExitZeroSynced ==
    CASE part = "tree" -> U!TypeOK /\ U!ExitZeroSynced
      [] part = "lag" -> W!TypeOK /\ W!ExitZeroSynced
      [] OTHER -> V!TypeOK /\ V!ExitZeroSynced

\* UploadSync: -delete removes no file that there is a local file for, unless the
\* server reads its path for another.
KeepsLocal == [][U!KeepsFiles]_uvars

\* UploadSync and FileHandle: the upload ends, or is stuck with every channel
\* full; who goes on reading gets to the end.
ClientEnds ==
    /\ part = "flat" => V!SyncEnds
    /\ part = "handle" => H!ReadsToEnd

-------------------------------------------------------------------------------
(***************************************************************************)
(* For the instance: three names, of which none is there before, one is,   *)
(* or all are and two are one file.                                        *)
(***************************************************************************)
CONSTANTS a, b, c

Inodes(x, y, z) == [f \in {a, b, c} |-> IF f = a THEN x ELSE IF f = b THEN y ELSE z]
SomePriors == {Inodes(0, 0, 0), Inodes(1, 0, 0), Inodes(1, 1, 2)}

===============================================================================
