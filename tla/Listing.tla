-------------------------------- MODULE Listing --------------------------------
(***************************************************************************)
(* Listing files (list.go, doListDocs in http_api.go, client/listing.go)   *)
(* and removing what was listed (tools/cbfsclient rm -r and upload         *)
(* -delete).  A listing is a view query, which may be answered from an old *)
(* index, and then a multi-get of the rows: a row with a record is a file, *)
(* one without is taken for a directory.                                   *)
(*                                                                         *)
(* A path is a sequence of names.                                          *)
(***************************************************************************)
EXTENDS Naturals, Sequences, SequencesExt

CONSTANTS
    Path,          \* the files that may be there
    Dirs,          \* the places that are listed
    Depths,        \* the depths asked for; Deep for all of it
    Deep,
    MaxChanges     \* bound on files that come or go meanwhile

PathAssumption ==
    /\ Depths \subseteq Nat \ {0} /\ Deep \in Nat
    /\ \A p \in Path : Len(p) \in 1..(Deep - 1)

VARIABLES
    docs,          \* the files
    index,         \* the files as view file_browse last saw them
    pc,            \* "view", "bulk", "answered", "rm", "removed", "failed"
    dir, depth,    \* the request
    seen,          \* the files as the view query found them
    answer,        \* [code, files, dirs]
    todo,          \* files to remove
    changes,
    steady         \* history: files in the index that nobody touched since

vars == <<docs, index, pc, dir, depth, seen, answer, todo, changes, steady>>

NoAnswer == [code |-> 0, files |-> {}, dirs |-> {}]
Rows == UNION {{SubSeq(p, 1, n) : n \in 0..Len(p)} : p \in Path}
Names == UNION {{SubSeq(r, n, Len(r)) : n \in 1..(Len(r) + 1)} : r \in Rows}

TypeOK ==
    /\ docs \subseteq Path /\ index \subseteq Path /\ steady \subseteq Path
    /\ pc \in {"view", "bulk", "answered", "rm", "removed", "failed"}
    /\ dir \in Dirs /\ depth \in Depths /\ seen \subseteq Path
    /\ answer.code \in {0, 200, 404, 500}
    /\ answer.files \subseteq Names /\ answer.dirs \subseteq Names
    /\ todo \subseteq Names /\ (pc = "rm" => answer.code = 200) /\ changes \in 0..MaxChanges

Init ==
    /\ docs \in SUBSET Path /\ index = docs
    /\ pc = "view" /\ dir \in Dirs /\ depth \in Depths
    /\ seen = {} /\ answer = NoAnswer /\ todo = {} /\ changes = 0
    /\ steady = docs

\* A file is stored or deleted; the view sees it at once or later.
Change(p) ==
    /\ pc \in {"view", "bulk", "rm"} /\ changes < MaxChanges /\ changes' = changes + 1
    /\ \/ p \in docs /\ docs' = docs \ {p}
       \/ p \notin docs /\ docs' = docs \cup {p}
    /\ index' \in {index, docs'}
    /\ steady' = steady \ {p}
    /\ UNCHANGED <<pc, dir, depth, seen, answer, todo>>

-------------------------------------------------------------------------------
(***************************************************************************)
(* listFiles.  The rows: what is under the path, the path itself included, *)
(* cut at the level of the path plus the depth.                            *)
(***************************************************************************)
Under(d, p) == IsPrefix(d, p)

Cut(p, n) == SubSeq(p, 1, IF Len(p) < n THEN Len(p) ELSE n)

RowsOf(fs, d, n) == {Cut(p, Len(d) + n) : p \in {q \in fs : Under(d, q)}}

\* Mutant: the names are relative to the place.
NameOfBelow(r, n) == SubSeq(r, Len(dir) + 1, Len(r))

\* The name a row is listed by: its last names, as many as the depth.
NameOf(r, n) == IF Len(r) > n THEN SubSeq(r, Len(r) - n + 1, Len(r)) ELSE r

View ==
    /\ pc = "view"
    /\ \/ seen' = index /\ pc' = "bulk" /\ UNCHANGED answer
       \/ seen' = {} /\ pc' = "answered" /\ answer' = [NoAnswer EXCEPT !.code = 500]
    /\ UNCHANGED <<docs, index, dir, depth, todo, changes, steady>>

\* GetBulk and the division in files and directories; nothing at all is 404.
Bulk ==
    LET keys == RowsOf(seen, dir, depth)
        fs == {NameOf(r, depth) : r \in keys \cap docs}
        ds == {NameOf(r, depth) : r \in keys \ docs} IN
    /\ pc = "bulk" /\ pc' = "answered"
    /\ answer' = [code |-> IF fs = {} /\ ds = {} THEN 404 ELSE 200,
                  files |-> fs, dirs |-> ds]
    /\ UNCHANGED <<docs, index, dir, depth, seen, todo, changes, steady>>

(***************************************************************************)
(* rmDashR and uploadRmDir: list as deep as it goes, and remove the files  *)
(* of the answer one by one, by the names they are listed by.  A file that *)
(* is missing by then is not an error.  Without a listing rm gives up, and *)
(* uploadRmDir returns as if there were nothing to remove.                 *)
(***************************************************************************)
RmAll(otherwise) ==
    /\ pc = "answered" /\ depth = Deep
    /\ IF answer.code = 200 THEN todo' = answer.files /\ pc' = "rm"
                            ELSE pc' = otherwise /\ UNCHANGED todo
    /\ UNCHANGED <<docs, index, dir, depth, seen, answer, changes, steady>>

RmDashR == RmAll("failed")

UploadRmDir == RmAll("removed")

\* A removal that fails may have removed the file all the same.
RmFile(f) ==
    /\ pc = "rm" /\ f \in todo
    /\ \/ /\ docs' = docs \ {f}
          /\ todo' = todo \ {f}
          /\ UNCHANGED pc
       \/ /\ docs' \in {docs, docs \ {f}}
          /\ pc' = "failed"
          /\ UNCHANGED todo
    /\ index' \in {index, docs'}
    /\ UNCHANGED <<dir, depth, seen, answer, changes, steady>>

RmEnd ==
    /\ pc = "rm" /\ todo = {} /\ pc' = "removed"
    /\ UNCHANGED <<docs, index, dir, depth, seen, answer, todo, changes, steady>>

Next ==
    \/ View \/ Bulk \/ RmDashR \/ UploadRmDir \/ RmEnd
    \/ \E f \in todo : RmFile(f)
    \/ \E p \in Path : Change(p)

Spec == Init /\ [][Next]_vars

-------------------------------------------------------------------------------
\* The way from the place that is listed to a file.
Below(p) == SubSeq(p, Len(dir) + 1, Len(p))

Listed == pc = "answered" /\ answer.code # 500

(***************************************************************************)
(* A listing of one level shows every file that was there all the time:    *)
(* one below the place by its name, one further down by the name of its    *)
(* directory.  A directory of the same name as a file is not shown, and    *)
(* neither is what is in it.                                               *)
(***************************************************************************)
LevelComplete ==
    Listed /\ depth = 1 =>
        \A p \in steady : Under(dir, p) /\ p # dir =>
            LET n == <<Below(p)[1]>> IN
            n \in answer.files \/ (Len(Below(p)) > 1 /\ n \in answer.dirs)

(***************************************************************************)
(* A listing as deep as it goes shows every such file, by its whole path.  *)
(***************************************************************************)
DeepComplete ==
    Listed /\ depth = Deep => {p \in steady : Under(dir, p)} \subseteq answer.files

(***************************************************************************)
(* What is shown as a directory has a file further down, as far as the     *)
(* view knows, or is a file that was touched since the view saw it: one    *)
(* that is deleted is shown as a directory, one that was there all the     *)
(* time never is.                                                          *)
(***************************************************************************)
DirsRight ==
    Listed => \A n \in answer.dirs : \E p \in seen :
        LET r == Cut(p, Len(dir) + depth) IN
        Under(dir, p) /\ NameOf(r, depth) = n /\ (r # p \/ p \notin steady)

(***************************************************************************)
(* A recursive removal that reports no error has removed what was there    *)
(* before it began and nobody touched since, save when uploadRmDir got no  *)
(* listing (upload.go:207); and it never means to remove a file outside    *)
(* the place it was asked to empty.                                        *)
(***************************************************************************)
RmComplete ==
    /\ pc = "removed" /\ answer.code # 500 =>
           \A p \in steady \cap docs : ~Under(dir, p)
    /\ \A f \in todo : Under(dir, f)

===============================================================================
