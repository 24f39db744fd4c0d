-------------------------------- MODULE PathWalk --------------------------------
(***************************************************************************)
(* The walk over all files below a path (pathGenerator, pathgen.go): pages *)
(* of a view, fetchers that read the documents, and the one who takes them *)
(* (dofsck, doZipDocs, doTarDocs, doExport, backupTo).  The channels are   *)
(* Go's: fetchch has a buffer of one page, ch and errs have none.          *)
(*                                                                         *)
(* Paths are numbered in the order of the view; those up to End are below  *)
(* the path of the walk.                                                   *)
(***************************************************************************)
EXTENDS Naturals, Sequences, FiniteSetsExt, SequencesExt

CONSTANTS
    MaxPath, End,     \* the paths, and the last one below the path of the walk
    Limit,            \* rows of a page
    Fetcher,          \* the goroutines that run pathDataFetcher
    OwnErrors,        \* the taker reads errs itself, and gives up at an error
    MayStop,          \* the taker may give up for its own reasons
    MaxChanges,       \* bound on the files that are stored or deleted
    MaxErrors         \* bound on the errors of the view

WalkAssumption ==
    /\ {MaxPath, End, MaxChanges, MaxErrors} \subseteq Nat /\ End <= MaxPath
    /\ Limit \in Nat /\ Limit >= 2
    /\ {OwnErrors, MayStop} \subseteq BOOLEAN

Path == 1..MaxPath

\* States of a fetcher beside the path whose document it has.
Idle == 0
Exit == MaxPath + 1

VARIABLES
    docs,        \* the files
    gen,         \* pathGenerator: "view", "warn", "fail", "rows", "close",
                 \* "wait", "done"
    start,       \* startKey
    rows,        \* rows of the page that were not passed on yet
    last,        \* done: this page is the last
    fetchch,     \* paths to fetch
    fetch,       \* fetch[w]: Idle, Exit, or the path whose document it has
    taker,       \* "run", "stopped" before the end, "end"
    closed,      \* ch is closed
    changes, errors,
    \* History, read by no action:
    got,         \* got[k]: how often the taker was given k
    steady,      \* files that were there all the time
    starts,      \* keys that pages were started at
    failed       \* the view had an error

vars == <<docs, gen, start, rows, last, fetchch, fetch, taker, closed, changes,
          errors, got, steady, starts, failed>>

TypeOK ==
    /\ docs \subseteq Path
    /\ gen \in {"view", "warn", "fail", "rows", "close", "wait", "done"}
    /\ start \in 0..MaxPath
    /\ rows \in Seq(Path) /\ Len(rows) <= Limit
    /\ last \in BOOLEAN
    /\ fetchch \in Seq(Path) /\ Len(fetchch) <= Limit
    /\ fetch \in [Fetcher -> {Idle, Exit} \cup Path]
    /\ taker \in {"run", "stopped", "end"}
    /\ closed \in BOOLEAN
    /\ got \in [Path -> Nat]
    /\ steady \subseteq docs /\ starts \subseteq Path /\ failed \in BOOLEAN

Init ==
    /\ docs \in SUBSET Path
    /\ gen = "view" /\ start = 0 /\ rows = <<>> /\ last = FALSE
    /\ fetchch = <<>>
    /\ fetch = [w \in Fetcher |-> Idle]
    /\ taker = "run" /\ closed = FALSE
    /\ changes = 0 /\ errors = 0
    /\ got = [k \in Path |-> 0]
    /\ steady = docs /\ starts = {} /\ failed = FALSE

Change(k) ==
    /\ changes < MaxChanges
    /\ changes' = changes + 1
    /\ docs' = IF k \in docs THEN docs \ {k} ELSE docs \cup {k}
    /\ steady' = steady \ {k}
    /\ UNCHANGED <<gen, start, rows, last, fetchch, fetch, taker, closed, errors, got,
                   starts, failed>>

-------------------------------------------------------------------------------
(***************************************************************************)
(* A page: the first rows from startKey on, startKey included.             *)
(***************************************************************************)
Page(n) ==
    LET ks == SetToSortSeq({k \in docs : k >= start}, <) IN
    SubSeq(ks, 1, IF Len(ks) < n THEN Len(ks) ELSE n)

\* Mutant: the first row of a later page is taken for the one of startKey, and
\* left out.
RowsOfSkip ==
    IF start = 0 THEN Page(Limit)
    ELSE LET p == Page(Limit + 1) IN IF p = <<>> THEN p ELSE Tail(p)

RowsOf == Page(Limit)

View ==
    /\ gen = "view"
    /\ \/ /\ rows' = RowsOf
          /\ gen' = "rows"
          /\ UNCHANGED <<errors, failed>>
       \/ /\ errors < MaxErrors /\ errors' = errors + 1 /\ failed' = TRUE
          /\ \/ rows' = <<>> /\ gen' = "fail"
             \/ rows' = (IF RowsOf = <<>> THEN <<>> ELSE Tail(RowsOf)) /\ gen' = "warn"
    /\ last' = (Len(rows') < Limit)
    /\ starts' = starts \cup ({start} \cap Path)
    /\ UNCHANGED <<docs, start, fetchch, fetch, taker, closed, changes, got, steady>>

(***************************************************************************)
(* An error is sent to whoever reads errs: the taker, or a goroutine that  *)
(* logs it; or the taker has closed quit.  A view that gave an error and   *)
(* rows goes on with these.                                                *)
(***************************************************************************)
SendError ==
    /\ gen \in {"warn", "fail"}
    /\ \/ /\ ~OwnErrors
          /\ gen' = IF gen = "warn" THEN "rows" ELSE "close"
          /\ UNCHANGED taker
       \/ /\ OwnErrors /\ taker = "run"
          /\ gen' = IF gen = "warn" THEN "rows" ELSE "close"
          /\ taker' = "stopped"
       \/ /\ taker = "stopped"
          /\ gen' = "close"
          /\ UNCHANGED taker
    /\ UNCHANGED <<docs, start, rows, last, fetchch, fetch, closed, changes, errors, got,
                   steady, starts, failed>>

\* A row is passed on when there is room, whether quit is closed or not.
Row ==
    /\ gen = "rows" /\ rows # <<>>
    /\ \/ /\ Head(rows) > End
          /\ gen' = "close"
          /\ UNCHANGED <<start, rows, fetchch>>
       \/ /\ Head(rows) <= End /\ Len(fetchch) < Limit
          /\ start' = Head(rows)
          /\ fetchch' = Append(fetchch, Head(rows))
          /\ rows' = Tail(rows)
          /\ UNCHANGED gen
    /\ UNCHANGED <<docs, last, fetch, taker, closed, changes, errors, got, steady,
                   starts, failed>>

PageEnd ==
    /\ gen = "rows" /\ rows = <<>>
    /\ gen' = IF last THEN "close" ELSE "view"
    /\ UNCHANGED <<docs, start, rows, last, fetchch, fetch, taker, closed, changes,
                   errors, got, steady, starts, failed>>

(***************************************************************************)
(* The deferred function closes fetchch, waits for the fetchers and closes *)
(* ch.                                                                     *)
(***************************************************************************)
CloseFetch(ready) ==
    /\ gen = "close" /\ ready
    /\ gen' = "wait"
    /\ UNCHANGED <<docs, start, rows, last, fetchch, fetch, taker, closed, changes,
                   errors, got, steady, starts, failed>>

\* Mutant: the fetchers are waited for before fetchch is closed.
CloseAfterWait == CloseFetch(\A w \in Fetcher : fetch[w] = Exit)

Close == CloseFetch(TRUE)

CloseCh ==
    /\ gen = "wait" /\ \A w \in Fetcher : fetch[w] = Exit
    /\ gen' = "done" /\ closed' = TRUE
    /\ UNCHANGED <<docs, start, rows, last, fetchch, fetch, taker, changes, errors, got,
                   steady, starts, failed>>

-------------------------------------------------------------------------------
(***************************************************************************)
(* pathDataFetcher: it gets a document, or the error, and hands it over.   *)
(* Only while it waits for a path it sees that quit is closed.             *)
(***************************************************************************)
Fetch(w) ==
    /\ fetch[w] = Idle
    /\ \/ /\ fetchch # <<>>
          /\ fetch' = [fetch EXCEPT ![w] = Head(fetchch)]
          /\ fetchch' = Tail(fetchch)
       \/ /\ \/ gen = "wait" /\ fetchch = <<>>
             \/ taker = "stopped"
          /\ fetch' = [fetch EXCEPT ![w] = Exit]
          /\ UNCHANGED fetchch
    /\ UNCHANGED <<docs, gen, start, rows, last, taker, closed, changes, errors, got,
                   steady, starts, failed>>

HandOver(w) ==
    /\ fetch[w] \in Path /\ taker = "run"
    /\ got' = [got EXCEPT ![fetch[w]] = @ + 1]
    /\ fetch' = [fetch EXCEPT ![w] = Idle]
    /\ UNCHANGED <<docs, gen, start, rows, last, fetchch, taker, closed, changes, errors,
                   steady, starts, failed>>

\* The taker gives up, because its own output fails, and closes quit.
Stop ==
    /\ MayStop /\ taker = "run"
    /\ taker' = "stopped"
    /\ UNCHANGED <<docs, gen, start, rows, last, fetchch, fetch, closed, changes, errors,
                   got, steady, starts, failed>>

TakeEnd ==
    /\ taker = "run" /\ closed
    /\ taker' = "end"
    /\ UNCHANGED <<docs, gen, start, rows, last, fetchch, fetch, closed, changes, errors,
                   got, steady, starts, failed>>

Generate == View \/ SendError \/ Row \/ PageEnd \/ Close \/ CloseCh

Next ==
    \/ \E k \in Path : Change(k)
    \/ Generate
    \/ \E w \in Fetcher : Fetch(w) \/ HandOver(w)
    \/ Stop \/ TakeEnd

(***************************************************************************)
(* Every goroutine goes on when it can.                                    *)
(***************************************************************************)
Spec ==
    /\ Init /\ [][Next]_vars
    /\ WF_vars(Generate)
    /\ \A w \in Fetcher : WF_vars(Fetch(w)) /\ WF_vars(HandOver(w))
    /\ WF_vars(TakeEnd)

-------------------------------------------------------------------------------
(***************************************************************************)
(* A walk that comes to its end without an error of the view has handed    *)
(* over every file that was there all the time, also when files at the     *)
(* borders of pages come and go.                                           *)
(***************************************************************************)
WalkComplete ==
    taker = "end" /\ ~failed =>
       \A k \in steady : k <= End => got[k] > 0

(***************************************************************************)
(* A file is handed over twice only where a page begins, and never more.   *)
(***************************************************************************)
TwiceAtBorders ==
    \A k \in Path : got[k] <= (IF k \in starts THEN 2 ELSE 1)

(***************************************************************************)
(* ch is closed only when no fetcher can send on it any more.              *)
(***************************************************************************)
NoSendOnClosed == closed => \A w \in Fetcher : fetch[w] = Exit

(***************************************************************************)
(* The walk ends, unless the taker gives up: whoever takes all it is given *)
(* sees the end, and no goroutine is left.                                 *)
(***************************************************************************)
WalkEnds == <>(taker = "stopped" \/ (taker = "end" /\ gen = "done"))

(***************************************************************************)
(* When the taker gives up, goroutines are left for ever only in two       *)
(* places: fetchers that have a document in hand, which nobody takes, and  *)
(* pathGenerator with a path to pass on and the buffer full.               *)
(***************************************************************************)
LeftOnlyThere ==
    <>[](\/ gen = "done"
         \/ \E w \in Fetcher : fetch[w] \in Path
         \/ gen = "rows" /\ Len(fetchch) = Limit)

===============================================================================
