------------------------------ MODULE UploadSync ------------------------------
(***************************************************************************)
(* The directory upload of cbfsclient (tools/cbfsclient/upload.go): the    *)
(* main goroutine walks the local tree, compares each directory with a     *)
(* listing of the server's and sends requests to a channel; the workers    *)
(* upload and remove, and send what fails for good to a channel of errors  *)
(* that the main goroutine only reads once the walk is over.               *)
(*                                                                         *)
(* Paths are sequences of names below the destination.  Files the walk     *)
(* ignores (patterns, links, devices) are not part of the local tree.      *)
(* Nobody else writes below the destination meanwhile, but a listing is    *)
(* that of Listing: a row of the view may not show yet what was written or *)
(* deleted before.                                                         *)
(*                                                                         *)
(* Names with a character that has a meaning in a URL are quoted, or not:  *)
(* the requests to remove put the directory in as it is (upload.go:378),   *)
(* so that the server reads another path, and the listing of what is below *)
(* a name is asked for with the quoted name, which is quoted once more     *)
(* (client/listing.go:78).  The name of the destination itself is plain.   *)
(***************************************************************************)
EXTENDS Naturals, Sequences, FiniteSets, SequencesExt

CONSTANTS
    Trees,         \* the local trees: [files: path -> content, dirs: in walk order]
    Remotes,       \* what may be at the destination: path -> content
    Delete,        \* -delete
    Worker,        \* -workers; the error channel holds as many
    ChCap,         \* what the request channel holds (1000)
    Retries,       \* of a worker, and of a listing (3)
    MaxFaults,     \* bound on failing calls and files that cannot be read
    MaxLag,        \* bound on rows that a view does not show as they are
    ReadAs,        \* how the server reads a name that is not quoted, where it is
                   \* another: [name, cut], and whether the rest of the path is cut off
    Quoted,        \* the names that quotingReplacer changes, quoted
    None

SyncAssumption ==
    /\ Delete \in BOOLEAN /\ IsFiniteSet(Worker) /\ Worker # {}
    /\ ChCap \in Nat \ {0} /\ Retries \in Nat /\ MaxFaults \in Nat /\ MaxLag \in Nat
    /\ DOMAIN ReadAs \subseteq DOMAIN Quoted

VARIABLES
    tree,          \* the local tree
    bad,           \* local files that cannot be read
    remote,        \* the files at the destination
    pc,            \* main: "walk", "send", "collect", "exited"
    todo,          \* directories still to visit
    pend,          \* requests of this directory still to send
    ch, ech,       \* the channels
    wk,            \* the workers: [pc, req, tries]
    rc,            \* exit code
    faults,
    first,         \* history: the destination at the start
    missed,        \* history: directories uploadRmDir got no listing of
    lagged         \* history: paths that a listing did not show as they were

vars == <<tree, bad, remote, pc, todo, pend, ch, ech, wk, rc, faults, first, missed, lagged>>

local == tree.files
Idle == [pc |-> "idle", req |-> None, tries |-> 0]
Over == pc = "exited"

Paths == UNION ({DOMAIN t.files : t \in Trees} \cup {DOMAIN r : r \in Remotes})
Contents == UNION ({{t.files[p] : p \in DOMAIN t.files} : t \in Trees}
                   \cup {{r[p] : p \in DOMAIN r} : r \in Remotes})

IsReq(r) ==
    /\ r.op \in {"upload", "rmfile", "rmdir"} /\ r.hash \in Contents \cup {None}
    /\ r.op = "upload" => r.path \in DOMAIN local

TypeOK ==
    /\ tree \in Trees /\ bad \subseteq DOMAIN local /\ first \in Remotes
    /\ DOMAIN remote \subseteq Paths /\ \A p \in DOMAIN remote : remote[p] \in Contents
    /\ pc \in {"walk", "send", "collect", "exited"}
    /\ IsSuffix(todo, tree.dirs)
    /\ \A r \in pend \cup {ch[i] : i \in 1..Len(ch)} : IsReq(r)
    /\ Len(ch) <= ChCap /\ Len(ech) <= Cardinality(Worker)
    /\ \A w \in Worker :
           /\ wk[w].pc \in {"idle", "work", "err", "gone"} /\ wk[w].tries \in 0..Retries
           /\ wk[w].req # None => IsReq(wk[w].req)
    /\ rc \in {0, 1} /\ faults \in 0..MaxFaults /\ lagged \subseteq Paths

Init ==
    /\ tree \in Trees /\ bad \in {s \in SUBSET DOMAIN local : Cardinality(s) <= MaxFaults}
    /\ remote \in Remotes /\ first = remote
    /\ pc = "walk" /\ todo = tree.dirs /\ pend = {}
    /\ ch = <<>> /\ ech = <<>> /\ wk = [w \in Worker |-> Idle]
    /\ rc = 0 /\ faults = Cardinality(bad) /\ missed = {} /\ lagged = {}

-------------------------------------------------------------------------------
(***************************************************************************)
(* A listing (listFiles): the paths below a place that the view has, of    *)
(* which some may be gone and some missing.                                *)
(***************************************************************************)
Below(d, ps) == {p \in ps : IsPrefix(d, p)}

Lag(d, seen) == (seen \ DOMAIN remote) \cup (Below(d, DOMAIN remote) \ seen)

Views(d) == {seen \in SUBSET Below(d, Paths) : Cardinality(lagged \cup Lag(d, seen)) <= MaxLag}

(***************************************************************************)
(* One level: a name with a record is a file, one without a directory, and *)
(* the place itself, when the view has it as a file, is shown among what   *)
(* is in it.                                                               *)
(***************************************************************************)
Name(p) == p[Len(p)]

Shown(d, ps) ==
    {p[Len(d) + 1] : p \in {q \in ps : IsStrictPrefix(d, q)}} \cup {Name(d) : x \in {d} \cap ps}

ListedFiles(d, seen) ==
    {n \in Shown(d, seen \ {d}) : Append(d, n) \in DOMAIN remote}
    \cup {Name(d) : x \in {d} \cap seen \cap DOMAIN remote}

\* The two may be one name.
ListedOid(d, n, seen) ==
    IF n \in Shown(d, seen \ {d}) /\ Append(d, n) \in DOMAIN remote
    THEN remote[Append(d, n)] ELSE remote[d]

LocalDirs == {tree.dirs[i] : i \in 1..Len(tree.dirs)}
LocalFileNames(d) == {Name(p) : p \in {q \in DOMAIN local : Front(q) = d}}
LocalNames(d) == LocalFileNames(d) \cup {Name(e) : e \in {q \in LocalDirs : q # <<>> /\ Front(q) = d}}

(***************************************************************************)
(* The path that the server reads when d + "/" + r.Replace(n) is put into  *)
(* a URL, and the one that is listed for it.                               *)
(***************************************************************************)
Read(n) == IF n \in DOMAIN ReadAs THEN ReadAs[n] ELSE [name |-> n, cut |-> FALSE]

Cuts(d) == {i \in 1..Len(d) : Read(d[i]).cut}

Address(d, n) ==
    LET read == [i \in 1..Len(d) |-> Read(d[i]).name] IN
    IF Cuts(d) = {} THEN Append(read, n) ELSE SubSeq(read, 1, Min(Cuts(d)))

Place(d, n) == Append(d, IF n \in DOMAIN Quoted THEN Quoted[n] ELSE n)

(***************************************************************************)
(* syncPath.                                                               *)
(***************************************************************************)
Upload(d, n, h) == [op |-> "upload", path |-> Append(d, n), hash |-> h, under |-> <<>>]
Removal(d, n) == [op |-> "rmfile", path |-> Address(d, n), hash |-> None, under |-> Place(d, n)]

RequestsBut(d, seen, keep) ==
    {Upload(d, n, ListedOid(d, n, seen)) : n \in LocalFileNames(d) \cap ListedFiles(d, seen)}
    \cup {Upload(d, n, None) : n \in LocalFileNames(d) \ Shown(d, seen)}
    \cup {Removal(d, n) : n \in IF Delete THEN Shown(d, seen) \ keep ELSE {}}

\* Mutant: only the files here are looked up before a remote name is removed.
RequestsFiles(d, seen) == RequestsBut(d, seen, LocalFileNames(d))

Requests(d, seen) == RequestsBut(d, seen, LocalNames(d))

SyncPath ==
    /\ pc = "walk" /\ todo # <<>>
    /\ \E seen \in Views(Head(todo)) :
           /\ pend' = Requests(Head(todo), seen)
           /\ lagged' = lagged \cup Lag(Head(todo), seen)
    /\ todo' = Tail(todo) /\ pc' = "send"
    /\ UNCHANGED <<tree, bad, remote, ch, ech, wk, rc, faults, first, missed>>

\* A directory cannot be read, or not be listed in Retries + 1 attempts: fatal.
SyncFails ==
    /\ pc = "walk" /\ todo # <<>> /\ faults + Retries < MaxFaults
    /\ pc' = "exited" /\ rc' = 1 /\ faults' = faults + Retries + 1
    /\ UNCHANGED <<tree, bad, remote, todo, pend, ch, ech, wk, first, missed, lagged>>

\* Changed files first, then missing ones, then the removals: for each name
\* the file, and at once what is below it.
Rank(r) ==
    CASE r.op = "rmdir" -> 0
      [] r.op = "upload" /\ r.hash # None -> 1
      [] r.op = "upload" /\ r.hash = None -> 2
      [] r.op = "rmfile" -> 3

Send ==
    /\ pc = "send" /\ Len(ch) < ChCap
    /\ \E r \in {q \in pend : \A s \in pend : Rank(q) <= Rank(s)} :
           /\ ch' = Append(ch, r)
           /\ pend' = (pend \ {r}) \cup
                      {[r EXCEPT !.op = "rmdir", !.path = r.under] :
                           x \in {r.op} \cap {"rmfile"}}
    /\ UNCHANGED <<tree, bad, remote, pc, todo, ech, wk, rc, faults, first, missed, lagged>>

Sent ==
    /\ pc = "send" /\ pend = {} /\ pc' = "walk"
    /\ UNCHANGED <<tree, bad, remote, todo, pend, ch, ech, wk, rc, faults, first, missed, lagged>>

-------------------------------------------------------------------------------
\* uploadWorker.
Take(w) ==
    /\ ~Over /\ wk[w].pc = "idle" /\ ch # <<>>
    /\ wk' = [wk EXCEPT ![w] = [pc |-> "work", req |-> Head(ch), tries |-> 0]]
    /\ ch' = Tail(ch)
    /\ UNCHANGED <<tree, bad, remote, pc, todo, pend, ech, rc, faults, first, missed, lagged>>

Leave(w) ==
    /\ ~Over /\ wk[w].pc = "idle" /\ ch = <<>> /\ pc = "collect"
    /\ wk' = [wk EXCEPT ![w].pc = "gone"]
    /\ UNCHANGED <<tree, bad, remote, pc, todo, pend, ch, ech, rc, faults, first, missed, lagged>>

Working(w, op) == ~Over /\ wk[w].pc = "work" /\ wk[w].req.op = op
Fine(w) == wk' = [wk EXCEPT ![w] = Idle]
Fault == faults < MaxFaults /\ faults' = faults + 1

\* Mutant: retries without end.
FailedAgain(w) == UNCHANGED wk

Failed(w) ==
    wk' = [wk EXCEPT ![w] = IF @.tries < Retries THEN [@ EXCEPT !.tries = @ + 1]
                                                  ELSE [@ EXCEPT !.pc = "err"]]

With(p) == [q \in DOMAIN remote \cup {p} |-> IF q = p THEN local[p] ELSE remote[q]]
Without(ps) == [q \in DOMAIN remote \ ps |-> remote[q]]

\* localHash and uploadFile: skipped when the listed hash is the file's.  A
\* put that fails may have stored the file all the same.
UploadFileOp(w) ==
    LET r == wk[w].req IN
    /\ Working(w, "upload")
    /\ \/ /\ r.path \in bad /\ Failed(w) /\ UNCHANGED <<remote, faults>>
       \/ /\ r.path \notin bad /\ r.hash = local[r.path]
          /\ Fine(w) /\ UNCHANGED <<remote, faults>>
       \/ /\ r.path \notin bad /\ r.hash # local[r.path]
          /\ \/ remote' = With(r.path) /\ Fine(w) /\ UNCHANGED faults
             \/ remote' \in {remote, With(r.path)} /\ Failed(w) /\ Fault
    /\ UNCHANGED <<tree, bad, pc, todo, pend, ch, ech, rc, first, missed, lagged>>

\* A removal that fails may have removed the file all the same; one of a
\* file that is gone is none.  A path that is no URL is never removed: that
\* is one that fails.
RemoveFileOp(w) ==
    LET gone == Without({wk[w].req.path}) IN
    /\ Working(w, "rmfile")
    /\ \/ remote' = gone /\ Fine(w) /\ UNCHANGED faults
       \/ remote' \in {remote, gone} /\ Failed(w) /\ Fault
    /\ UNCHANGED <<tree, bad, pc, todo, pend, ch, ech, rc, first, missed, lagged>>

\* uploadRmDir: without a listing it returns no error; a removal that fails
\* leaves the rest.
RemoveRecurseOp(w) ==
    LET p == wk[w].req.path IN
    /\ Working(w, "rmdir")
    /\ \/ Fault /\ Fine(w) /\ missed' = missed \cup {p} /\ UNCHANGED <<remote, lagged>>
       \/ \E seen \in Views(p) :
              /\ \/ remote' = Without(seen) /\ Fine(w) /\ UNCHANGED faults
                 \/ \E some \in SUBSET (seen \cap DOMAIN remote) :
                        remote' = Without(some) /\ Failed(w) /\ Fault
              /\ lagged' = lagged \cup Lag(p, seen)
              /\ UNCHANGED missed
    /\ UNCHANGED <<tree, bad, pc, todo, pend, ch, ech, rc, first>>

SendError(w) ==
    /\ ~Over /\ wk[w].pc = "err" /\ Len(ech) < Cardinality(Worker)
    /\ ech' = Append(ech, wk[w].req.path)
    /\ Fine(w)
    /\ UNCHANGED <<tree, bad, remote, pc, todo, pend, ch, rc, faults, first, missed, lagged>>

-------------------------------------------------------------------------------
\* uploadCommand: the walk is over and ch is closed; collect the errors.
Close ==
    /\ pc = "walk" /\ todo = <<>> /\ pc' = "collect"
    /\ UNCHANGED <<tree, bad, remote, todo, pend, ch, ech, wk, rc, faults, first, missed, lagged>>

Collect ==
    /\ pc = "collect" /\ ech # <<>>
    /\ ech' = Tail(ech) /\ rc' = 1
    /\ UNCHANGED <<tree, bad, remote, pc, todo, pend, ch, wk, faults, first, missed, lagged>>

ExitIf(ready) ==
    /\ pc = "collect" /\ ready /\ pc' = "exited"
    /\ UNCHANGED <<tree, bad, remote, todo, pend, ch, ech, wk, rc, faults, first, missed, lagged>>

\* Mutant: exits as soon as the requests are taken.
ExitEarly == ExitIf(ch = <<>> /\ ech = <<>>)

Exit == ExitIf(ech = <<>> /\ \A w \in Worker : wk[w].pc = "gone")

Work(w) ==
    \/ Take(w) \/ Leave(w) \/ UploadFileOp(w) \/ RemoveFileOp(w)
    \/ RemoveRecurseOp(w) \/ SendError(w)

Main == SyncPath \/ Send \/ Sent \/ Close \/ Collect \/ Exit

Next == Main \/ SyncFails \/ \E w \in Worker : Work(w)

\* The goroutines run and every call returns (http.DefaultClient).
Spec == Init /\ [][Next]_vars /\ WF_vars(Main) /\ \A w \in Worker : WF_vars(Work(w))

-------------------------------------------------------------------------------
\* What may be shown below the destination.
Seen == DOMAIN first \cup lagged

(***************************************************************************)
(* p is not there and is shown as a directory, because something is below  *)
(* it or because it is a deleted file that the view still has; or its      *)
(* directory is shown as something of p's name in it, as a file of p's     *)
(* content or as a directory.                                              *)
(***************************************************************************)
Clash(p) ==
    \/ p \notin DOMAIN first /\ Below(p, Seen) # {}
    \/ /\ Len(p) > 1 /\ Name(Front(p)) = Name(p)
       /\ Front(p) \in lagged \/ (Front(p) \in DOMAIN first /\ first[Front(p)] = local[p])

\* A removal from a directory means another name, and removes p.
Misread(p) ==
    \E d \in LocalDirs : \E n \in Shown(d, Seen) \ LocalNames(d) :
        \/ Address(d, n) # Append(d, n) /\ Address(d, n) = p
        \/ n \in DOMAIN Quoted /\ IsPrefix(Place(d, n), p)

\* No removal means q: it is in, or is, a name that is quoted when it is listed,
\* and it is further down, or in a directory that is read as another.
Unread(q) ==
    \E d \in LocalDirs :
        /\ IsStrictPrefix(d, q) /\ q[Len(d) + 1] \notin LocalNames(d)
        /\ q[Len(d) + 1] \in DOMAIN Quoted
        /\ Len(q) > Len(d) + 1 \/ Address(d, Name(q)) # q

(***************************************************************************)
(* A sync that exits with 0 has every local file at the destination with   *)
(* its content, whatever failed and was retried, with three exceptions     *)
(* that syncPath neither uploads nor reports: a file and a directory have  *)
(* the same name; the view still has a file that was deleted, which is     *)
(* then taken for a directory; a removal went to the wrong path for a name *)
(* that was not quoted.  With -delete nothing else is left there but such  *)
(* clashes, what uploadRmDir got no listing of, what a view did not show   *)
(* yet, and what the removals do not mean for a name that was quoted twice *)
(* or not at all.                                                          *)
(***************************************************************************)
ExitZeroSynced ==
    Over /\ rc = 0 =>
        /\ \A p \in DOMAIN local :
               Clash(p) \/ Misread(p) \/ (p \in DOMAIN remote /\ remote[p] = local[p])
        /\ Delete => \A q \in DOMAIN remote \ DOMAIN local :
               \/ \E p \in DOMAIN local \cup LocalDirs :
                      p # <<>> /\ (IsPrefix(q, p) \/ (IsPrefix(p, q) /\ p \in DOMAIN local))
               \/ \E m \in missed : IsPrefix(m, q)
               \/ q \in lagged \/ Unread(q)

(***************************************************************************)
(* The removals of -delete never remove a file there is a local file for,  *)
(* also while other workers still upload next to it, except where a name   *)
(* that is not quoted, or quoted twice, makes the server read the path of  *)
(* the one for that of another.                                            *)
(***************************************************************************)
KeepsFiles == \A p \in DOMAIN remote \cap DOMAIN local : p \in DOMAIN remote' \/ Misread(p)

KeepsLocal == [][KeepsFiles]_vars

(***************************************************************************)
(* The sync ends, except when the walk cannot go on for a full channel of  *)
(* requests while every worker waits to hand over an error that nobody     *)
(* reads before the walk is over.  That takes twice as many errors as      *)
(* there are workers.                                                      *)
(***************************************************************************)
Stuck ==
    /\ pc = "send" /\ Len(ch) = ChCap /\ Len(ech) = Cardinality(Worker)
    /\ \A w \in Worker : wk[w].pc = "err"

SyncEnds == <>(Over \/ Stuck)

===============================================================================
