----------------------------- MODULE FileVersions -----------------------------
(***************************************************************************)
(* What the document of a file is (fileMeta, main.go), and what one        *)
(* request may do to it, as if every request were done at once.  FileMeta  *)
(* has the requests as they are, and implements this.                      *)
(***************************************************************************)
EXTENDS Integers, Sequences

CONSTANTS
    Oid,         \* the blobs that files are made of
    Data,        \* values of Userdata
    NoData,
    Revs,        \* values of X-CBFS-KeepRevs
    Cond,        \* preconditions, pairs of If-Match and If-None-Match
    Star, No      \* the header is "*", or is not there

ASSUME RevsAssumption == Revs \subseteq Int

ASSUME CondAssumption ==
    Cond \subseteq [match: Oid \cup {Star, No}, none: Oid \cup {Star, No}]

ASSUME HeaderAssumption == Star \notin Oid /\ No \notin Oid /\ Star # No

(***************************************************************************)
(* prev are the older revisions, the oldest first; exp is whether the      *)
(* document has an expiration.  Headers, lengths and times go with the     *)
(* oid.                                                                    *)
(***************************************************************************)
PrevMeta == [oid: Oid, revno: Nat]
Meta == [oid: Oid, revno: Nat, prev: Seq(PrevMeta), data: Data \cup {NoData},
         exp: BOOLEAN]

Absent == [oid |-> No]

Fresh(o, e) ==
    [oid |-> o, revno |-> 0, prev |-> <<>>, data |-> NoData, exp |-> e]

VARIABLES
    doc,      \* the document, or Absent
    gone      \* history: what the document was before

docVars == <<doc, gone>>

-------------------------------------------------------------------------------
(***************************************************************************)
(* shouldStoreMeta, on the document d.                                     *)
(***************************************************************************)
ShouldStoreMeta(c, d) ==
    /\ c.match # No => d # Absent /\ c.match \in {Star, d.oid}
    /\ c.none # No /\ d # Absent => c.none \notin {Star, d.oid}

(***************************************************************************)
(* The closure of storeMeta: what it makes of fm when the document is d.   *)
(* revs is how many older revisions are kept, -1 for all.                  *)
(***************************************************************************)
\* Mutant: -1 is taken for a number.
TrimmedAll(s, revs) ==
    IF Len(s) > revs THEN SubSeq(s, Len(s) - revs + 1, Len(s)) ELSE s

Trimmed(s, revs) ==
    IF revs # -1 /\ Len(s) > revs THEN SubSeq(s, Len(s) - revs + 1, Len(s)) ELSE s

NextMeta(fm, d, revs) ==
    IF d = Absent
      THEN fm
      ELSE [fm EXCEPT !.data = d.data, !.revno = d.revno + 1,
              !.prev = IF revs = -1 \/ revs > 0
                         THEN Trimmed(Append(d.prev, [oid |-> d.oid,
                                                      revno |-> d.revno]), revs)
                         ELSE @]

-------------------------------------------------------------------------------
Becomes(d) ==
    /\ doc' = d
    /\ gone' = IF doc = Absent THEN gone ELSE gone \cup {doc}

(***************************************************************************)
(* A PUT makes the next revision.  Where there is none it makes the first, *)
(* or takes over from a document that has gone while it was running.       *)
(***************************************************************************)
VPut ==
    \E o \in Oid, e \in BOOLEAN, r \in Revs :
       \/ doc # Absent /\ Becomes(NextMeta(Fresh(o, e), doc, r))
       \/ /\ doc = Absent
          /\ \E d \in gone \cup {Absent} : Becomes(NextMeta(Fresh(o, e), d, r))

\* A DELETE, or the expiration.
VRemove == doc # Absent /\ Becomes(Absent)

\* A link begins anew, without the older revisions.
VLink == \E o \in Oid, e \in BOOLEAN : Becomes(Fresh(o, e))

\* A restore puts back what was there, only where there is nothing.
VRestore ==
    /\ doc = Absent
    /\ \E d \in gone, e \in BOOLEAN : Becomes([d EXCEPT !.exp = e])

\* putMeta changes the user data, and loses the expiration.
VSetData ==
    /\ doc # Absent
    /\ \E x \in Data : Becomes([doc EXCEPT !.data = x, !.exp = FALSE])

VInit == doc = Absent /\ gone = {}

VNext == VPut \/ VRemove \/ VLink \/ VRestore \/ VSetData

VSpec == VInit /\ [][VNext]_docVars

===============================================================================
