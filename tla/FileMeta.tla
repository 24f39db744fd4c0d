------------------------------- MODULE FileMeta -------------------------------
(***************************************************************************)
(* Concurrent requests on the document of one file: uploads (storeMeta,    *)
(* main.go), deletes, reads and links (http.go), user data (putMeta,       *)
(* http_api.go) and restores (backup.go).  couchbase.Update is a loop: it  *)
(* reads the document with its CAS, calls the closure and writes; when the *)
(* CAS is no longer good it starts over.  The closure of storeMeta changes *)
(* fm, which the next round starts from.                                   *)
(***************************************************************************)
EXTENDS FileVersions

CONSTANTS
    Request,     \* the requests
    Ask          \* what they ask for

Op == [kind: {"put", "delete", "link", "restore", "setdata", "get"},
       oid: Oid, revs: Revs, cond: Cond, exp: BOOLEAN, data: Data,
       rev: Nat \cup {-1}]

ASSUME AskAssumption == Ask \subseteq Op

VARIABLES
    pc,          \* pc[h]: "new", "read", "write", "done"
    op,          \* op[h]: what the request asks for
    fm,          \* fm[h]: the fileMeta that storeMeta has captured
    seen,        \* seen[h]: the document that the last round has read
    current,     \* the requests whose CAS is still good
    answer,      \* answer[h]: the status, and for a read the blob
    \* History, read by no action:
    acked,       \* uploads that keep all revisions, were answered with 201, and
                 \* whose document has not been removed or cut since
    stored       \* all <<revno, oid>> that the document ever had

local == <<pc, op, fm, seen, current, answer>>
vars == <<doc, gone, pc, op, fm, seen, current, answer, acked, stored>>

NoOp == [kind |-> "none"]

Answer == [status: {0, 200, 201, 204, 300, 304, 404, 409, 410, 412, 500},
           oid: Oid \cup {No}, rev: Int]
Status(s) == [status |-> s, oid |-> No, rev |-> -1]

\* The revisions that a document has.
Versions(d) ==
    IF d = Absent THEN {}
    ELSE {<<d.revno, d.oid>>}
         \cup {<<d.prev[i].revno, d.prev[i].oid>> : i \in DOMAIN d.prev}

TypeOK ==
    /\ doc \in Meta \cup {Absent}
    /\ gone \subseteq Meta
    /\ pc \in [Request -> {"new", "read", "write", "done"}]
    /\ op \in [Request -> Op \cup {NoOp}]
    /\ fm \in [Request -> Meta \cup {Absent}]
    /\ seen \in [Request -> Meta \cup {Absent}]
    /\ current \subseteq {h \in Request : pc[h] = "write"}
    /\ \A h \in current : seen[h] = doc
    /\ answer \in [Request -> Answer]
    /\ acked \subseteq Oid
    /\ stored \subseteq Nat \X Oid

Init ==
    /\ VInit
    /\ pc = [h \in Request |-> "new"]
    /\ op = [h \in Request |-> NoOp]
    /\ fm = [h \in Request |-> Absent]
    /\ seen = [h \in Request |-> Absent]
    /\ current = {}
    /\ answer = [h \in Request |-> Status(0)]
    /\ acked = {}
    /\ stored = {}

-------------------------------------------------------------------------------
Goto(h, p) == pc' = [pc EXCEPT ![h] = p]

Done(h, ans) ==
    /\ Goto(h, "done")
    /\ answer' = [answer EXCEPT ![h] = ans]
    /\ op' = [op EXCEPT ![h] = NoOp]
    /\ fm' = [fm EXCEPT ![h] = Absent]
    /\ seen' = [seen EXCEPT ![h] = Absent]

(***************************************************************************)
(* A write changes the CAS of the document.                                *)
(***************************************************************************)
Writes(d) ==
    /\ Becomes(d)
    /\ current' = {}
    /\ stored' = stored \cup Versions(d)

Reads == UNCHANGED <<doc, gone, acked, stored>>

Begin(h) ==
    /\ pc[h] = "new"
    /\ \E o \in Ask :
          /\ op' = [op EXCEPT ![h] = o]
          /\ fm' = [fm EXCEPT ![h] = Fresh(o.oid, o.exp)]
    /\ Goto(h, "read")
    /\ Reads
    /\ UNCHANGED <<seen, current, answer>>

(***************************************************************************)
(* A round of couchbase.Update for an upload: the closure of storeMeta.    *)
(***************************************************************************)
PutRead(h) ==
    /\ pc[h] = "read" /\ op[h].kind = "put"
    /\ \/ /\ ShouldStoreMeta(op[h].cond, doc)
          /\ fm' = [fm EXCEPT ![h] = NextMeta(@, doc, op[h].revs)]
          /\ seen' = [seen EXCEPT ![h] = doc]
          /\ current' = current \cup {h}
          /\ Goto(h, "write")
          /\ UNCHANGED <<op, answer>>
       \/ /\ ~ShouldStoreMeta(op[h].cond, doc)
          /\ Done(h, Status(412))
          /\ UNCHANGED current
    /\ Reads

\* The write is done, whether its answer arrives or not.
PutStores(h) ==
    /\ Writes(fm[h])
    /\ \/ /\ Done(h, Status(201))
          /\ acked' = IF op[h].revs = -1
                        THEN (IF seen[h] = Absent THEN {} ELSE acked) \cup {op[h].oid}
                        ELSE {}
       \/ /\ Done(h, Status(500))
          /\ acked' = IF op[h].revs = -1 /\ seen[h] # Absent THEN acked ELSE {}

PutRetries(h) ==
    /\ Goto(h, "read")
    /\ Reads
    /\ UNCHANGED <<op, fm, seen, current, answer>>

\* Mutant: the write goes without the CAS.
PutWriteBlind(h) ==
    /\ pc[h] = "write" /\ op[h].kind = "put"
    /\ PutStores(h)

PutWrite(h) ==
    /\ pc[h] = "write" /\ op[h].kind = "put"
    /\ \/ h \in current /\ PutStores(h)
       \/ h \notin current /\ PutRetries(h)

(***************************************************************************)
(* doDeleteUserDoc: the same loop, with a closure that removes, also where *)
(* there is nothing; the library makes that a success or an error.         *)
(***************************************************************************)
DeleteRead(h) ==
    /\ pc[h] = "read" /\ op[h].kind = "delete"
    /\ \/ /\ ShouldStoreMeta(op[h].cond, doc) /\ doc # Absent
          /\ seen' = [seen EXCEPT ![h] = doc]
          /\ current' = current \cup {h}
          /\ Goto(h, "write")
          /\ UNCHANGED <<op, fm, answer>>
       \/ /\ ~ShouldStoreMeta(op[h].cond, doc)
          /\ Done(h, Status(412))
          /\ UNCHANGED current
       \/ /\ ShouldStoreMeta(op[h].cond, doc) /\ doc = Absent
          /\ \E s \in {204, 404} : Done(h, Status(s))
          /\ UNCHANGED current
    /\ Reads

DeleteWrite(h) ==
    /\ pc[h] = "write" /\ op[h].kind = "delete"
    /\ \/ /\ h \in current
          /\ Writes(Absent)
          /\ \E s \in {204, 404} : Done(h, Status(s))
          /\ acked' = {}
       \/ h \notin current /\ PutRetries(h)

(***************************************************************************)
(* putMeta: one read, and one SET with the CAS, that fails if the document *)
(* has changed.  The SET has no expiration.                                *)
(***************************************************************************)
SetDataRead(h) ==
    /\ pc[h] = "read" /\ op[h].kind = "setdata"
    /\ \/ /\ doc # Absent
          /\ seen' = [seen EXCEPT ![h] = doc]
          /\ current' = current \cup {h}
          /\ Goto(h, "write")
          /\ UNCHANGED <<op, fm, answer>>
       \/ /\ doc = Absent
          /\ Done(h, Status(404))
          /\ UNCHANGED current
    /\ Reads

SetsData(h) ==
    /\ Writes([seen[h] EXCEPT !.data = op[h].data, !.exp = FALSE])
    /\ \E s \in {201, 500} : Done(h, Status(s))
    /\ UNCHANGED acked

\* Mutant: the SET goes without the CAS.
SetDataWriteBlind(h) ==
    /\ pc[h] = "write" /\ op[h].kind = "setdata"
    /\ SetsData(h)

SetDataWrite(h) ==
    /\ pc[h] = "write" /\ op[h].kind = "setdata"
    /\ \/ h \in current /\ SetsData(h)
       \/ /\ h \notin current
          /\ Done(h, Status(500))
          /\ Reads
          /\ UNCHANGED current

(***************************************************************************)
(* doLinkFile sets the document whatever it was.  doRestoreDocument adds   *)
(* one that a backup had, unless it has expired since.                     *)
(***************************************************************************)
Link(h) ==
    /\ pc[h] = "read" /\ op[h].kind = "link"
    /\ Writes(fm[h])
    /\ \E s \in {201, 500} : Done(h, Status(s))
    /\ acked' = {}

Restore(h) ==
    /\ pc[h] = "read" /\ op[h].kind = "restore"
    /\ \E d \in gone :
          \/ /\ doc = Absent
             /\ Writes([d EXCEPT !.exp = op[h].exp])
             /\ \E s \in {201, 500} : Done(h, Status(s))
             /\ acked' = {}
          \/ /\ doc # Absent
             /\ Done(h, Status(409))
             /\ Reads /\ UNCHANGED current
          \/ /\ d.exp
             /\ Done(h, Status(201))
             /\ Reads /\ UNCHANGED current

(***************************************************************************)
(* doGetUserDoc.  A revision is looked for among the older ones only, and  *)
(* If-None-Match is compared with the current blob whatever revision is    *)
(* asked for.  The blob itself may be elsewhere, or not be found.          *)
(***************************************************************************)
\* Mutant: what is not among the older revisions is taken from the current one.
FoundOrCurrent(d, rev) ==
    {<<rev, IF \E i \in DOMAIN d.prev : d.prev[i].revno = rev
              THEN d.prev[CHOOSE i \in DOMAIN d.prev : d.prev[i].revno = rev].oid
              ELSE d.oid>>}

Found(d, rev) ==
    IF rev = -1 THEN {<<d.revno, d.oid>>}
    ELSE {<<rev, d.prev[i].oid>> : i \in {j \in DOMAIN d.prev : d.prev[j].revno = rev}}

Served(s, v) ==
    IF s = 500 THEN Status(500) ELSE [status |-> s, oid |-> v[2], rev |-> v[1]]

Get(h) ==
    /\ pc[h] = "read" /\ op[h].kind = "get"
    /\ \/ doc = Absent /\ Done(h, Status(404))
       \/ /\ doc # Absent
          /\ Found(doc, op[h].rev) = {}
          /\ Done(h, Status(410))
       \/ /\ doc # Absent
          /\ \E v \in Found(doc, op[h].rev) :
                IF op[h].cond.none = doc.oid
                  THEN Done(h, Status(304))
                  ELSE \E s \in {200, 300, 500} : Done(h, Served(s, v))
    /\ Reads
    /\ UNCHANGED current

\* Any call may fail, and the request with it.
Fail(h) ==
    /\ pc[h] \in {"read", "write"}
    /\ Done(h, Status(500))
    /\ current' = current \ {h}
    /\ Reads

Expire ==
    /\ doc # Absent /\ doc.exp
    /\ Writes(Absent)
    /\ acked' = {}
    /\ UNCHANGED <<pc, op, fm, seen, answer>>

-------------------------------------------------------------------------------
Step(h) ==
    \/ Begin(h) \/ PutRead(h) \/ PutWrite(h) \/ DeleteRead(h) \/ DeleteWrite(h)
    \/ SetDataRead(h) \/ SetDataWrite(h) \/ Link(h) \/ Restore(h) \/ Get(h)
    \/ Fail(h)

Next == (\E h \in Request : Step(h)) \/ Expire

Spec == Init /\ [][Next]_vars

-------------------------------------------------------------------------------
(***************************************************************************)
(* Whatever runs at the same time, the document changes as if every        *)
(* request were done at once, on the document as it is then: a PUT counts  *)
(* up the revision it replaces and keeps the user data, putMeta changes    *)
(* only those, a restore replaces nothing.                                 *)
(***************************************************************************)
Versioned == VSpec

(***************************************************************************)
(* An upload or a delete that is answered with success has replaced a      *)
(* document its If-Match and If-None-Match are true of, at the time of the *)
(* write and not only when the closure looked.                             *)
(***************************************************************************)
Fulfilled(c, d) ==
    /\ c.match = Star => d # Absent
    /\ c.match \in Oid => d # Absent /\ d.oid = c.match
    /\ c.none = Star => d = Absent
    /\ c.none \in Oid /\ d # Absent => d.oid # c.none

Conditional ==
    [][\A h \in Request :
          /\ pc[h] = "write" /\ op[h].kind \in {"put", "delete"}
          /\ answer'[h].status \in {201, 204}
          => Fulfilled(op[h].cond, doc)]_vars

(***************************************************************************)
(* The older revisions are in the order of their numbers, below the        *)
(* current one, also when a PUT takes over from a document that has gone.  *)
(***************************************************************************)
Ordered(d) ==
    /\ \A i, j \in DOMAIN d.prev : i < j => d.prev[i].revno < d.prev[j].revno
    /\ \A i \in DOMAIN d.prev : d.prev[i].revno < d.revno

RevsOrdered == doc # Absent => Ordered(doc)

(***************************************************************************)
(* No upload that keeps all revisions and was answered with 201 is lost to *)
(* another upload or to putMeta.                                           *)
(***************************************************************************)
NoLostPut == \A o \in acked : \E v \in Versions(doc) : v[2] = o

(***************************************************************************)
(* The revisions of a file are in order, and none is lost.                 *)
(***************************************************************************)
RevsKept == TypeOK /\ RevsOrdered /\ NoLostPut

(***************************************************************************)
(* A read of a revision is answered with a blob that was stored as that    *)
(* revision.                                                               *)
(***************************************************************************)
ServedAsStored ==
    \A h \in Request :
       answer[h].oid # No => <<answer[h].rev, answer[h].oid>> \in stored

-------------------------------------------------------------------------------
(***************************************************************************)
(* What makes the properties inductive.  A round that is about to write    *)
(* has checked what it has read, and that is the document, or one that was *)
(* there before.                                                           *)
(***************************************************************************)
SeenRight(h) ==
    pc[h] = "write" =>
       /\ op[h] \in Op /\ op[h].kind \in {"put", "delete", "setdata"}
       /\ h \notin current => seen[h] \in gone \cup {Absent}
       /\ op[h].kind # "setdata" => ShouldStoreMeta(op[h].cond, seen[h])
       /\ op[h].kind # "put" => seen[h] # Absent

(***************************************************************************)
(* The fileMeta that storeMeta has captured is, after any number of        *)
(* rounds, what the closure makes of a new one in a single round: on the   *)
(* document it has read last, or when there is none, on one that has gone. *)
(***************************************************************************)
Captured(o, d) ==
    IF o.kind = "put" THEN NextMeta(Fresh(o.oid, o.exp), d, o.revs) ELSE Fresh(o.oid, o.exp)

CaptureRight(h) ==
    /\ pc[h] = "read" => op[h] \in Op
    /\ pc[h] = "read" \/ (pc[h] = "write" /\ seen[h] = Absent) =>
          \E d \in gone \cup {Absent} : fm[h] = Captured(op[h], d)
    /\ pc[h] = "write" /\ seen[h] # Absent => fm[h] = Captured(op[h], seen[h])

\* A request has no answer until it is done.
Unanswered(h) == pc[h] # "done" => answer[h] = Status(0)

\* What was there before is in order, too, and what is there was stored.
HistoryInv ==
    /\ \A d \in gone : Ordered(d)
    /\ Versions(doc) \subseteq stored

Inv ==
    /\ RevsKept /\ ServedAsStored /\ HistoryInv
    /\ \A h \in Request : SeenRight(h) /\ CaptureRight(h) /\ Unanswered(h)

===============================================================================
