----------------------------- MODULE MCFileMeta ------------------------------
(***************************************************************************)
(* Small instances of FileMeta.                                            *)
(***************************************************************************)
EXTENDS FileMeta

CONSTANTS o1, o2, x1

NoCond == [match |-> No, none |-> No]
IfSame == [match |-> o1, none |-> No]
IfNew == [match |-> No, none |-> Star]
SomeRevs == {-1, 0, 1}
IfNotB == [match |-> No, none |-> o2]
AllConds == {NoCond, IfSame, IfNew, IfNotB}

Of(k, o, r, c, e, v) ==
    [kind |-> k, oid |-> o, revs |-> r, cond |-> c, exp |-> e, data |-> x1, rev |-> v]

\* Uploads with every precondition, and what else changes the document.
Changes ==
    {Of("put", o, 1, c, FALSE, -1) : o \in {o1, o2}, c \in {NoCond, IfSame, IfNew}}
    \cup {Of("put", o1, 1, NoCond, TRUE, -1)}
    \cup {Of("delete", o1, 1, c, FALSE, -1) : c \in {NoCond, IfSame}}
    \cup {Of("setdata", o1, 1, NoCond, FALSE, -1)}

\* Links and restores among uploads.
Resets ==
    {Of(k, o, 1, NoCond, FALSE, -1) : k \in {"put", "link"}, o \in {o1, o2}}
    \cup {Of("restore", o1, 1, NoCond, e, -1) : e \in BOOLEAN}
    \cup {Of("put", o1, 1, NoCond, TRUE, -1)}

\* Uploads that keep all revisions.
Keeps ==
    {Of("put", o, -1, NoCond, FALSE, -1) : o \in {o1, o2}}
    \cup {Of("put", o1, 0, NoCond, FALSE, -1)}
    \cup {Of(k, o1, -1, NoCond, FALSE, -1) : k \in {"delete", "setdata"}}

\* Reads of the current and of older revisions.
Lookups ==
    {Of("put", o, r, NoCond, FALSE, -1) : o \in {o1, o2}, r \in {-1, 1}}
    \cup {Of("get", o1, 1, c, FALSE, v) :
             c \in {NoCond, IfNotB}, v \in {-1, 0, 1}}

AllAsks == Changes \cup Resets \cup Keeps \cup Lookups

===============================================================================
