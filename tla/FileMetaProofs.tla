---------------------------- MODULE FileMetaProofs ----------------------------
(***************************************************************************)
(* Proofs about FileMeta, for any requests, blobs and preconditions: the   *)
(* lemmas on the closure of storeMeta first, then one per action.          *)
(***************************************************************************)
EXTENDS FileMeta, TLAPS

\* No document is a document.
LEMMA AbsentMeta == Absent \notin Meta
  BY Zenon, HeaderAssumption DEF Absent, Meta

\* What a request starts from.
LEMMA FreshMeta ==
    ASSUME NEW o \in Oid, NEW e \in BOOLEAN
    PROVE  Fresh(o, e) \in Meta /\ Ordered(Fresh(o, e))
  BY DEF Fresh, Ordered, Meta

\* The end of a sequence.
LEMMA EndOf ==
    ASSUME NEW s \in Seq(PrevMeta), NEW k \in Nat, k < Len(s)
    PROVE  LET t == SubSeq(s, k + 1, Len(s)) IN
           /\ t \in Seq(PrevMeta) /\ Len(t) + k = Len(s)
           /\ \A i \in 1..Len(t) : t[i] = s[i + k]
<1>1. Len(s) \in Nat
  OBVIOUS
<1>2. k + 1 \in 1..(Len(s) + 1) /\ Len(s) \in k..Len(s)
  BY <1>1
<1> DEFINE t == SubSeq(s, k + 1, Len(s))
<1>3. /\ t \in Seq(PrevMeta)
      /\ Len(t) = IF k + 1 <= Len(s) THEN Len(s) - (k + 1) + 1 ELSE 0
      /\ \A i \in 1..Len(t) : t[i] = s[k + 1 + i - 1]
  BY <1>1, <1>2
<1> HIDE DEF t
<1>4. Len(t) + k = Len(s)
  BY <1>1, <1>3
<1>5. \A i \in 1..Len(t) : t[i] = s[i + k]
  BY <1>1, <1>3, <1>4
<1> QED
  BY Zenon, <1>3, <1>4, <1>5 DEF t

\* What the list of older revisions is when it is cut: the end of it.
LEMMA TrimmedIs ==
    ASSUME NEW s \in Seq(PrevMeta), NEW r \in Int, r = -1 \/ r > 0
    PROVE  /\ Trimmed(s, r) \in Seq(PrevMeta)
           /\ \E k \in Nat : /\ Len(Trimmed(s, r)) + k = Len(s)
                             /\ \A i \in 1..Len(Trimmed(s, r)) : Trimmed(s, r)[i] = s[i + k]
           /\ r = -1 => Trimmed(s, r) = s
<1>0. Len(s) \in Nat
  OBVIOUS
<1>1. CASE r # -1 /\ Len(s) > r
  <2>1. PICK k \in Nat : k = Len(s) - r
    BY <1>0, <1>1
  <2>2. k < Len(s)
    BY <1>0, <1>1, <2>1
  <2>3. Trimmed(s, r) = SubSeq(s, k + 1, Len(s))
    BY Zenon, <1>1, <2>1 DEF Trimmed
  <2> QED
    BY <1>1, <2>2, <2>3, EndOf
<1>2. CASE ~(r # -1 /\ Len(s) > r)
  <2>1. Trimmed(s, r) = s
    BY Zenon, <1>2 DEF Trimmed
  <2> QED
    BY <1>0, <2>1
<1> QED
  BY Zenon, <1>1, <1>2

\* The revision that a document has becomes the last of the older ones.
LEMMA AppendIs ==
    ASSUME NEW d \in Meta
    PROVE  LET p == [oid |-> d.oid, revno |-> d.revno]
               s == Append(d.prev, p) IN
           /\ s \in Seq(PrevMeta) /\ Len(s) = Len(d.prev) + 1
           /\ \A i \in 1..Len(d.prev) : s[i] = d.prev[i]
           /\ s[Len(s)] = p /\ DOMAIN d.prev = 1..Len(d.prev) /\ DOMAIN s = 1..Len(s)
<1> DEFINE p == [oid |-> d.oid, revno |-> d.revno]
<1>1. d.prev \in Seq(PrevMeta) /\ p \in PrevMeta
  BY Zenon DEF PrevMeta, Meta
<1> QED
  BY <1>1

\* What the closure makes of fm is a document, for the same blob.
LEMMA NextMetaType ==
    ASSUME NEW f \in Meta, NEW d \in Meta \cup {Absent}, NEW r \in Int
    PROVE  /\ NextMeta(f, d, r) \in Meta
           /\ NextMeta(f, d, r).oid = f.oid /\ NextMeta(f, d, r).exp = f.exp
<1>1. CASE d = Absent
  BY Zenon, <1>1 DEF NextMeta
<1>2. CASE d # Absent
  <2> DEFINE s == Append(d.prev, [oid |-> d.oid, revno |-> d.revno])
  <2>1. d \in Meta
    BY Zenon, <1>2
  <2>2. s \in Seq(PrevMeta)
    BY Zenon, <2>1, AppendIs
  <2>3. r = -1 \/ r > 0 => Trimmed(s, r) \in Seq(PrevMeta)
    BY Zenon, <2>2, TrimmedIs
  <2>4. PICK q \in Seq(PrevMeta) : NextMeta(f, d, r) =
          [f EXCEPT !.data = d.data, !.revno = d.revno + 1, !.prev = q]
    <3>1. f.prev \in Seq(PrevMeta)
      BY Zenon DEF Meta
    <3>2. PICK q : q = IF r = -1 \/ r > 0 THEN Trimmed(s, r) ELSE f.prev
      BY Zenon
    <3>3. q \in Seq(PrevMeta)
      BY Zenon, <2>3, <3>1, <3>2
    <3>4. NextMeta(f, d, r) =
          [f EXCEPT !.data = d.data, !.revno = d.revno + 1, !.prev = q]
      BY Zenon, <1>2, <3>2 DEF NextMeta
    <3> QED
      BY Zenon, <3>3, <3>4
  <2>5. d.revno + 1 \in Nat /\ d.data \in Data \cup {NoData}
    BY <2>1 DEF Meta
  <2> QED
    BY Zenon, <2>4, <2>5 DEF Meta
<1> QED
  BY Zenon, <1>1, <1>2

\* What it makes of a new one, by the field.
LEMMA NextMetaIs ==
    ASSUME NEW o \in Oid, NEW e \in BOOLEAN, NEW d \in Meta, NEW r \in Int
    PROVE  LET s == Append(d.prev, [oid |-> d.oid, revno |-> d.revno])
               f == NextMeta(Fresh(o, e), d, r)
               q == IF r = -1 \/ r > 0 THEN Trimmed(s, r) ELSE <<>> IN
           /\ f = [oid |-> o, revno |-> d.revno + 1, data |-> d.data, exp |-> e, prev |-> q]
           /\ f.prev = q /\ f.revno = d.revno + 1
<1>1. d # Absent
  BY Zenon, AbsentMeta
<1>2. PICK s : s = Append(d.prev, [oid |-> d.oid, revno |-> d.revno])
  BY Zenon
<1>3. PICK q : q = IF r = -1 \/ r > 0 THEN Trimmed(s, r) ELSE <<>>
  BY Zenon
<1>4. NextMeta(Fresh(o, e), d, r) =
        [oid |-> o, revno |-> d.revno + 1, data |-> d.data, exp |-> e, prev |-> q]
  BY Zenon, <1>1, <1>2, <1>3 DEF NextMeta, Fresh
<1> QED
  BY <1>2, <1>3, <1>4

(***************************************************************************)
(* Rounds do not add up: the one that reads a document last decides, and   *)
(* one that reads none changes nothing.                                    *)
(***************************************************************************)
LEMMA NextMetaTwice ==
    ASSUME NEW o \in Oid, NEW e \in BOOLEAN, NEW r \in Int,
           NEW d \in Meta \cup {Absent}, NEW c \in Meta \cup {Absent}
    PROVE  NextMeta(NextMeta(Fresh(o, e), d, r), c, r) =
             NextMeta(Fresh(o, e), IF c = Absent THEN d ELSE c, r)
<1>1. CASE c = Absent \/ d = Absent
  BY Zenon, <1>1 DEF NextMeta
<1>2. CASE c # Absent /\ d # Absent
  <2>1. c \in Meta /\ d \in Meta
    BY Zenon, <1>2
  <2> DEFINE f == NextMeta(Fresh(o, e), d, r)
             s == Trimmed(Append(c.prev, [oid |-> c.oid, revno |-> c.revno]), r)
  <2>2. f = [oid |-> o, revno |-> d.revno + 1, data |-> d.data, exp |-> e, prev |-> f.prev]
        /\ (~(r = -1 \/ r > 0) => f.prev = <<>>)
    <3> DEFINE u == Trimmed(Append(d.prev, [oid |-> d.oid, revno |-> d.revno]), r)
    <3>2. f = [oid |-> o, revno |-> d.revno + 1, data |-> d.data, exp |-> e,
               prev |-> IF r = -1 \/ r > 0 THEN u ELSE <<>>]
      BY <2>1, NextMetaIs, Zenon
    <3> HIDE DEF f, u
    <3> QED
      BY Zenon, <3>2
  <2>3. NextMeta(f, c, r) = [oid |-> f.oid, revno |-> c.revno + 1, data |-> c.data, exp |-> f.exp,
                             prev |-> IF r = -1 \/ r > 0 THEN s ELSE f.prev]
    <3> HIDE DEF f, s
    <3> QED
      BY Zenon, <1>2, <2>2 DEF NextMeta, s
  <2>4. NextMeta(Fresh(o, e), c, r) = [oid |-> o, revno |-> c.revno + 1, data |-> c.data, exp |-> e,
                             prev |-> IF r = -1 \/ r > 0 THEN s ELSE <<>>]
    BY Zenon, <2>1, NextMetaIs
  <2> HIDE DEF f, s
  <2>5. NextMeta(f, c, r) = NextMeta(Fresh(o, e), c, r)
    BY <2>2, <2>3, <2>4
  <2> QED
    BY Zenon, <1>2, <2>5 DEF f
<1> QED
  BY Zenon, <1>1, <1>2

\* It keeps the older revisions in order.
LEMMA NextMetaOrdered ==
    ASSUME NEW o \in Oid, NEW e \in BOOLEAN, NEW r \in Int, NEW d \in Meta \cup {Absent},
           d \in Meta => Ordered(d)
    PROVE  Ordered(NextMeta(Fresh(o, e), d, r))
<1>1. CASE d = Absent
  BY Zenon, <1>1, FreshMeta DEF NextMeta
<1>2. CASE d \in Meta /\ ~(r = -1 \/ r > 0)
  <2>1. NextMeta(Fresh(o, e), d, r).prev = <<>>
    BY Zenon, <1>2, NextMetaIs
  <2> QED
    BY <2>1 DEF Ordered
<1>3. CASE d \in Meta /\ (r = -1 \/ r > 0)
  <2> DEFINE s == Append(d.prev, [oid |-> d.oid, revno |-> d.revno])
             t == Trimmed(s, r)
             n == Len(d.prev)
             f == NextMeta(Fresh(o, e), d, r)
  <2>1. f.prev = t /\ f.revno = d.revno + 1 /\ d.revno \in Nat
    BY <1>3, NextMetaIs DEF Meta
  <2>2. /\ s \in Seq(PrevMeta) /\ Len(s) = n + 1 /\ n \in Nat
        /\ \A i \in 1..n : s[i] = d.prev[i]
        /\ s[n + 1].revno = d.revno /\ DOMAIN d.prev = 1..n
        /\ \A i \in 1..n : d.prev[i].revno \in Nat
    <3>1. d.prev \in Seq(PrevMeta) /\ n \in Nat
      BY <1>3 DEF Meta
    <3>2. /\ s \in Seq(PrevMeta) /\ Len(s) = n + 1
          /\ \A i \in 1..n : s[i] = d.prev[i]
          /\ s[Len(s)] = [oid |-> d.oid, revno |-> d.revno] /\ DOMAIN d.prev = 1..n
      BY Zenon, <1>3, AppendIs
    <3>3. \A i \in 1..n : d.prev[i] \in PrevMeta
      BY <3>1
    <3> QED
      BY <3>1, <3>2, <3>3 DEF PrevMeta
  <2>3. t \in Seq(PrevMeta) /\ DOMAIN t = 1..Len(t) /\ Len(t) \in Nat
    <3>1. t \in Seq(PrevMeta)
      BY Zenon, <1>3, <2>2, TrimmedIs
    <3> HIDE DEF t
    <3> QED
      BY <3>1
  <2>4. PICK k \in Nat : Len(t) + k = n + 1 /\ \A i \in 1..Len(t) : t[i] = s[i + k]
    <3>1. \E k \in Nat : Len(t) + k = Len(s) /\ \A i \in 1..Len(t) : t[i] = s[i + k]
      BY Zenon, <1>3, <2>2, TrimmedIs
    <3> QED
      BY Zenon, <2>2, <3>1
  <2> HIDE DEF s, t, n, f
  <2>5. \A i, j \in 1..(n + 1) : i < j => s[i].revno < s[j].revno
    <3> SUFFICES ASSUME NEW i \in 1..(n + 1), NEW j \in 1..(n + 1), i < j
                 PROVE  s[i].revno < s[j].revno
      BY Zenon
    <3>1. i \in 1..n
      BY <2>2
    <3>2. CASE j = n + 1
      BY Zenon, <1>3, <2>2, <3>1, <3>2 DEF Ordered
    <3>3. CASE j \in 1..n
      BY Zenon, <1>3, <2>2, <3>1, <3>3 DEF Ordered
    <3> QED
      BY <2>2, <3>2, <3>3
  <2>6. \A i \in 1..(n + 1) : s[i].revno < d.revno + 1
    <3> SUFFICES ASSUME NEW i \in 1..(n + 1)  PROVE s[i].revno < d.revno + 1
      BY Zenon
    <3>1. CASE i = n + 1
      BY <2>1, <2>2, <3>1
    <3>2. CASE i \in 1..n
      <4>1. s[i] = d.prev[i] /\ d.prev[i].revno \in Nat /\ i \in DOMAIN d.prev
        BY Zenon, <2>2, <3>2
      <4>2. d.prev[i].revno < d.revno
        BY Zenon, <1>3, <4>1 DEF Ordered
      <4> QED
        BY <2>1, <4>1, <4>2
    <3> QED
      BY <2>2, <3>1, <3>2
  <2>7. \A i \in 1..Len(t) : i + k \in 1..(n + 1) /\ t[i] = s[i + k]
    BY <2>2, <2>3, <2>4
  <2>8. \A i, j \in 1..Len(t) : i < j => t[i].revno < t[j].revno
    <3> SUFFICES ASSUME NEW i \in 1..Len(t), NEW j \in 1..Len(t), i < j
                 PROVE  t[i].revno < t[j].revno
      BY Zenon
    <3>1. i + k \in 1..(n + 1) /\ j + k \in 1..(n + 1) /\ i + k < j + k
      BY <2>3, <2>7
    <3> QED
      BY Zenon, <2>5, <2>7, <3>1
  <2>9. \A i \in 1..Len(t) : t[i].revno < d.revno + 1
    BY Zenon, <2>6, <2>7
  <2>10. Ordered(f)
    BY Zenon, <2>1, <2>3, <2>8, <2>9 DEF Ordered
  <2> QED
    BY Zenon, <2>10 DEF f
<1> QED
  BY Zenon, <1>1, <1>2, <1>3

\* The revisions of a document have numbers and blobs.
LEMMA VersionsType == \A d \in Meta \cup {Absent} : Versions(d) \subseteq Nat \X Oid
<1> SUFFICES ASSUME NEW d \in Meta  PROVE Versions(d) \subseteq Nat \X Oid
  BY Zenon DEF Versions
<1>1. d.prev \in Seq(PrevMeta)
  BY Zenon DEF Meta
<1>2. \A i \in DOMAIN d.prev : d.prev[i] \in PrevMeta
  BY <1>1
<1> QED
  BY <1>2 DEF Versions, PrevMeta, Meta

\* A PUT that keeps all revisions loses none, and its own is the current one.
LEMMA NextMetaKeeps ==
    ASSUME NEW o \in Oid, NEW e \in BOOLEAN, NEW d \in Meta, NEW r \in Int, r = -1
    PROVE  Versions(d) \subseteq Versions(NextMeta(Fresh(o, e), d, r))
<1> DEFINE p == [oid |-> d.oid, revno |-> d.revno]
           s == Append(d.prev, p)
           f == NextMeta(Fresh(o, e), d, r)
<1>1. /\ s \in Seq(PrevMeta) /\ Len(s) = Len(d.prev) + 1 /\ s[Len(s)] = p
      /\ DOMAIN d.prev = 1..Len(d.prev) /\ DOMAIN s = 1..Len(s)
      /\ \A i \in 1..Len(d.prev) : s[i] = d.prev[i]
  BY Zenon, AppendIs
<1>2. d.prev \in Seq(PrevMeta) /\ Len(d.prev) \in Nat
  BY DEF Meta
<1>3. f.prev = s
  <2>1. f.prev = Trimmed(s, r)
    BY Zenon, NextMetaIs
  <2> QED
    BY Zenon, <1>1, <2>1, TrimmedIs
<1>4. f \in Meta /\ f # Absent /\ d # Absent
  <2>1. Fresh(o, e) \in Meta /\ d # Absent /\ d \in Meta \cup {Absent}
    BY Zenon, FreshMeta, AbsentMeta
  <2>2. f \in Meta
    BY Zenon, <2>1, NextMetaType
  <2> QED
    BY Zenon, <2>1, <2>2, AbsentMeta
<1> HIDE DEF f, s
<1>5. ASSUME NEW i \in DOMAIN s
      PROVE  <<s[i].revno, s[i].oid>> \in Versions(f)
  BY Zenon, <1>3, <1>4 DEF Versions
<1>6. <<d.revno, d.oid>> \in Versions(f)
  <2>1. Len(s) \in DOMAIN s /\ s[Len(s)].revno = d.revno /\ s[Len(s)].oid = d.oid
    BY <1>1, <1>2
  <2> QED
    BY Zenon, <1>5, <2>1
<1>7. ASSUME NEW i \in DOMAIN d.prev
      PROVE  <<d.prev[i].revno, d.prev[i].oid>> \in Versions(f)
  <2>1. i \in DOMAIN s /\ s[i] = d.prev[i]
    BY <1>1, <1>2
  <2> QED
    BY Zenon, <1>5, <2>1
<1>8. Versions(d) \subseteq Versions(f)
  BY Zenon, <1>4, <1>6, <1>7 DEF Versions
<1> QED
  BY Zenon, <1>8 DEF f

-------------------------------------------------------------------------------
\* What a request asks for has the fields that its kind uses.
LEMMA OpParts ==
    \A o \in Op : /\ o.oid \in Oid /\ o.exp \in BOOLEAN /\ o.revs \in Int
                  /\ o.data \in Data /\ o.cond \in Cond
  BY Zenon, RevsAssumption DEF Op

\* What storeMeta has captured is a document, in order, for the blob that was sent.
LEMMA CapturedMeta ==
    ASSUME NEW o \in Op, NEW d \in Meta \cup {Absent}, d \in Meta => Ordered(d)
    PROVE  /\ Captured(o, d) \in Meta /\ Ordered(Captured(o, d))
           /\ Captured(o, d).oid = o.oid
<1>1. o.oid \in Oid /\ o.exp \in BOOLEAN /\ o.revs \in Int
  BY Zenon, OpParts
<1>2. Fresh(o.oid, o.exp) \in Meta /\ Ordered(Fresh(o.oid, o.exp))
  BY Zenon, <1>1, FreshMeta
<1>3. Fresh(o.oid, o.exp).oid = o.oid
  BY Zenon DEF Fresh
<1>4. CASE o.kind = "put"
  <2>1. Captured(o, d) = NextMeta(Fresh(o.oid, o.exp), d, o.revs)
    BY Zenon, <1>4 DEF Captured
  <2>2. Captured(o, d) \in Meta /\ Captured(o, d).oid = o.oid
    <3>1. PICK f \in Meta, r \in Int : f = Fresh(o.oid, o.exp) /\ r = o.revs
      BY Zenon, <1>1, <1>2
    <3>2. NextMeta(f, d, r) \in Meta /\ NextMeta(f, d, r).oid = f.oid
      BY Zenon, NextMetaType
    <3> QED
      BY Zenon, <1>3, <2>1, <3>1, <3>2
  <2>3. Ordered(Captured(o, d))
    BY Zenon, <1>1, <2>1, NextMetaOrdered
  <2> QED
    BY Zenon, <2>2, <2>3
<1>5. CASE o.kind # "put"
  BY Zenon, <1>2, <1>3, <1>5 DEF Captured
<1> QED
  BY Zenon, <1>4, <1>5

\* An answer without a blob.
LEMMA StatusType ==
    \A s \in {0, 200, 201, 204, 300, 304, 404, 409, 410, 412, 500} :
       Status(s) \in Answer /\ Status(s).oid = No /\ Status(s).status = s
  BY DEF Status, Answer

\* The request i is as it was.
Same(i) ==
    /\ pc'[i] = pc[i] /\ op'[i] = op[i] /\ fm'[i] = fm[i]
    /\ seen'[i] = seen[i] /\ answer'[i] = answer[i]

LocalType ==
    /\ pc \in [Request -> {"new", "read", "write", "done"}]
    /\ op \in [Request -> Op \cup {NoOp}]
    /\ fm \in [Request -> Meta \cup {Absent}]
    /\ seen \in [Request -> Meta \cup {Absent}]
    /\ answer \in [Request -> Answer]

(***************************************************************************)
(* A write keeps the invariant when the document it makes is in order, the *)
(* requests go on as they were or are done, and no acknowledged upload is  *)
(* lost: what others have read is gone now.                                *)
(***************************************************************************)
LEMMA WriteKeeps ==
    ASSUME Inv, NEW d \in Meta \cup {Absent}, d \in Meta => Ordered(d), Writes(d),
           LocalType',
           \A i \in Request : Same(i) \/ (pc'[i] = "done" /\ answer'[i].oid = No),
           acked' \subseteq Oid, NoLostPut'
    PROVE  Inv'
<1>1. /\ doc' = d /\ current' = {} /\ stored' = stored \cup Versions(d)
      /\ gone \subseteq gone' /\ (doc # Absent => doc \in gone')
      /\ gone' \subseteq gone \cup {doc} /\ Absent \notin gone'
      /\ doc \in Meta \cup {Absent} /\ gone \subseteq Meta
  BY Zenon, AbsentMeta DEF Inv, RevsKept, TypeOK, Writes, Becomes
<1>2. TypeOK'
  <2>1. stored' \subseteq Nat \X Oid
    BY Zenon, <1>1, VersionsType DEF Inv, RevsKept, TypeOK
  <2>2. gone' \subseteq Meta
    BY Zenon, <1>1
  <2> QED
    BY Zenon, <1>1, <2>1, <2>2 DEF TypeOK, LocalType
<1>3. RevsOrdered' /\ HistoryInv'
  <2>1. \A c \in gone' : Ordered(c)
    BY Zenon, <1>1 DEF Inv, HistoryInv, RevsKept, RevsOrdered
  <2>2. d # Absent => Ordered(d)
    BY Zenon
  <2> QED
    BY Zenon, <1>1, <2>1, <2>2 DEF HistoryInv, RevsOrdered
<1>4. ServedAsStored'
  BY Zenon, <1>1 DEF Inv, ServedAsStored, Same
<1>5. ASSUME NEW i \in Request
      PROVE  SeenRight(i)' /\ CaptureRight(i)' /\ Unanswered(i)'
  <2>1. CASE pc'[i] = "done"
    BY Zenon, <2>1 DEF SeenRight, CaptureRight, Unanswered
  <2>2. CASE Same(i)
    <3>1. SeenRight(i) /\ CaptureRight(i) /\ Unanswered(i)
      BY Zenon DEF Inv
    <3>2. i \in current => seen[i] = doc
      BY Zenon DEF Inv, RevsKept, TypeOK
    <3>3. SeenRight(i)'
      BY Zenon, <1>1, <2>2, <3>1, <3>2 DEF SeenRight, Same
    <3>4. CaptureRight(i)'
      BY Zenon, <1>1, <2>2, <3>1 DEF CaptureRight, Same
    <3> QED
      BY Zenon, <2>2, <3>1, <3>3, <3>4 DEF Unanswered, Same
  <2> QED
    BY Zenon, <2>1, <2>2
<1> QED
  BY Zenon, <1>2, <1>3, <1>4, <1>5 DEF Inv, RevsKept

(***************************************************************************)
(* A step of h that does not write keeps the invariant when it does so for *)
(* h.                                                                      *)
(***************************************************************************)
LEMMA LocalKeeps ==
    ASSUME Inv, NEW h \in Request, Reads, LocalType',
           \A i \in Request \ {h} : Same(i),
           \A i \in Request \ {h} : i \in current' <=> i \in current,
           current' \subseteq Request,
           h \in current' => pc'[h] = "write" /\ seen'[h] = doc,
           answer'[h].oid # No => <<answer'[h].rev, answer'[h].oid>> \in stored,
           SeenRight(h)', CaptureRight(h)', Unanswered(h)'
    PROVE  Inv'
<1>1. UNCHANGED <<doc, gone, acked, stored>>
  BY Zenon DEF Reads
<1>2. TypeOK'
  BY Zenon, <1>1 DEF Inv, RevsKept, TypeOK, LocalType, Same
<1>3. RevsOrdered' /\ HistoryInv' /\ NoLostPut'
  BY Zenon, <1>1 DEF Inv, HistoryInv, RevsKept, RevsOrdered, NoLostPut
<1>4. ServedAsStored'
  BY Zenon, <1>1 DEF Inv, ServedAsStored, Same
<1>5. ASSUME NEW i \in Request
      PROVE  SeenRight(i)' /\ CaptureRight(i)' /\ Unanswered(i)'
  <2>1. CASE i = h
    BY Zenon, <2>1
  <2>2. CASE i # h
    <3>1. SeenRight(i) /\ CaptureRight(i) /\ Unanswered(i) /\ Same(i)
          /\ (i \in current' <=> i \in current)
      BY Zenon, <2>2 DEF Inv
    <3>2. SeenRight(i)'
      BY Zenon, <1>1, <3>1 DEF SeenRight, Same
    <3>3. CaptureRight(i)'
      BY Zenon, <1>1, <3>1 DEF CaptureRight, Same
    <3> QED
      BY Zenon, <3>1, <3>2, <3>3 DEF Unanswered, Same
  <2> QED
    BY Zenon, <2>1, <2>2
<1> QED
  BY Zenon, <1>2, <1>3, <1>4, <1>5 DEF Inv, RevsKept

\* A request that is done leaves the others as they are.
LEMMA DoneType ==
    ASSUME Inv, NEW h \in Request, NEW a \in Answer, Done(h, a)
    PROVE  /\ LocalType' /\ (\A i \in Request \ {h} : Same(i))
           /\ pc'[h] = "done" /\ answer'[h] = a
  BY Zenon DEF Inv, RevsKept, TypeOK, LocalType, Done, Goto, Same

\* An answer to a request that has changed nothing.
LEMMA DoneKeeps ==
    ASSUME Inv, NEW h \in Request, NEW a \in Answer, Done(h, a), Reads,
           current' = current \ {h},
           a.oid # No => <<a.rev, a.oid>> \in stored
    PROVE  Inv'
<1>1. /\ LocalType' /\ (\A i \in Request \ {h} : Same(i))
      /\ pc'[h] = "done" /\ answer'[h] = a
  BY Zenon, DoneType
<1>2. current' \subseteq Request
  BY Zenon DEF Inv, RevsKept, TypeOK
<1>3. SeenRight(h)' /\ CaptureRight(h)' /\ Unanswered(h)'
  BY Zenon, <1>1 DEF SeenRight, CaptureRight, Unanswered
<1> QED
  BY Zenon, <1>1, <1>2, <1>3, LocalKeeps

-------------------------------------------------------------------------------
\* Initially there is nothing.
LEMMA InitInv == Init => Inv
<1> SUFFICES ASSUME Init  PROVE Inv
  BY Zenon
<1>1. TypeOK
  BY StatusType DEF Init, VInit, TypeOK
<1>2. Versions(doc) = {}
  BY Zenon DEF Init, VInit, Versions
<1>3. RevsOrdered /\ NoLostPut /\ HistoryInv
  BY Zenon, <1>2 DEF Init, VInit, RevsOrdered, NoLostPut, HistoryInv
<1>4. ServedAsStored
  BY StatusType DEF Init, ServedAsStored
<1>5. \A h \in Request : SeenRight(h) /\ CaptureRight(h) /\ Unanswered(h)
  BY Zenon DEF Init, SeenRight, CaptureRight, Unanswered
<1> QED
  BY Zenon, <1>1, <1>3, <1>4, <1>5 DEF Inv, RevsKept

\* A request comes in.
LEMMA BeginKeeps == ASSUME Inv, NEW h \in Request, Begin(h)  PROVE Inv'
<1>1. PICK o \in Op : /\ op' = [op EXCEPT ![h] = o]
                      /\ fm' = [fm EXCEPT ![h] = Fresh(o.oid, o.exp)]
  BY Zenon, AskAssumption DEF Begin
<1>2. Fresh(o.oid, o.exp) \in Meta
  BY Zenon, FreshMeta, OpParts
<1>3. /\ LocalType' /\ \A i \in Request \ {h} : Same(i)
      /\ pc'[h] = "read" /\ op'[h] = o /\ fm'[h] = Fresh(o.oid, o.exp)
      /\ UNCHANGED <<seen, current, answer>>
  BY Zenon, <1>1, <1>2 DEF Inv, RevsKept, TypeOK, LocalType, Begin, Goto, Same
<1>4. pc[h] = "new" /\ h \notin current /\ current \subseteq Request
      /\ Unanswered(h) /\ Reads
  BY Zenon DEF Inv, RevsKept, TypeOK, Begin
<1>5. fm'[h] = Captured(op'[h], Absent)
  BY Zenon, <1>3 DEF Captured, NextMeta
<1>6. SeenRight(h)' /\ CaptureRight(h)' /\ Unanswered(h)'
  BY Zenon, <1>3, <1>4, <1>5 DEF SeenRight, CaptureRight, Unanswered
<1>7. answer'[h].oid = No
  BY SMTT(30), <1>3, <1>4, StatusType DEF Unanswered
<1> QED
  BY Zenon, <1>3, <1>4, <1>6, <1>7, LocalKeeps

(***************************************************************************)
(* A round that goes on to write has read the document as it is.           *)
(***************************************************************************)
LEMMA ReadKeeps ==
    ASSUME Inv, NEW h \in Request, pc[h] = "read",
           op[h].kind \in {"put", "delete", "setdata"}, NEW f \in Meta,
           fm' = [fm EXCEPT ![h] = f],
           seen' = [seen EXCEPT ![h] = doc],
           current' = current \cup {h}, Goto(h, "write"),
           UNCHANGED <<op, answer>>, Reads,
           op[h].kind # "setdata" => ShouldStoreMeta(op[h].cond, doc),
           op[h].kind # "put" => doc # Absent,
           doc = Absent => f = fm[h],
           doc # Absent => f = Captured(op[h], doc)
    PROVE  Inv'
<1>1. /\ LocalType' /\ \A i \in Request \ {h} : Same(i)
      /\ pc'[h] = "write" /\ op'[h] = op[h] /\ fm'[h] = f /\ seen'[h] = doc
      /\ answer'[h] = answer[h] /\ h \in current' /\ current' \subseteq Request
      /\ UNCHANGED <<doc, gone>>
  BY Zenon DEF Inv, RevsKept, TypeOK, LocalType, Goto, Same, Reads
<1>2. Unanswered(h) /\ CaptureRight(h)
  BY Zenon DEF Inv
<1>3. SeenRight(h)'
  BY Zenon, <1>1, <1>2 DEF SeenRight, CaptureRight
<1>4. CaptureRight(h)'
  <2>1. CASE doc = Absent
    <3>1. PICK d \in gone \cup {Absent} : fm[h] = Captured(op[h], d)
      BY Zenon, <1>2 DEF CaptureRight
    <3>2. fm'[h] = Captured(op'[h], d) /\ d \in gone' \cup {Absent}
      BY Zenon, <1>1, <2>1, <3>1
    <3> QED
      BY Zenon, <1>1, <2>1, <3>2 DEF CaptureRight
  <2>2. CASE doc # Absent
    BY Zenon, <1>1, <2>2 DEF CaptureRight
  <2> QED
    BY Zenon, <2>1, <2>2
<1>5. Unanswered(h)' /\ answer'[h].oid = No
  BY <1>1, <1>2, StatusType DEF Unanswered
<1> QED
  BY Zenon, <1>1, <1>3, <1>4, <1>5, LocalKeeps

\* An error of a request that is still reading.
LEMMA ErrorKeeps ==
    ASSUME Inv, NEW h \in Request,
           NEW s \in {0, 200, 201, 204, 300, 304, 404, 409, 410, 412, 500},
           Done(h, Status(s)), Reads, current' = current \ {h}
    PROVE  Inv'
<1>1. Status(s) \in Answer /\ Status(s).oid = No
  BY StatusType
<1> QED
  BY Zenon, <1>1, DoneKeeps

LEMMA ReadingNotCurrent ==
    ASSUME Inv, NEW h \in Request, pc[h] # "write"
    PROVE  h \notin current /\ current = current \ {h}
  BY Zenon DEF Inv, RevsKept, TypeOK

\* A request other than an upload has what it started with.
LEMMA LinkFresh ==
    ASSUME Inv, NEW h \in Request, pc[h] = "read", op[h].kind # "put"
    PROVE  /\ op[h] \in Op /\ fm[h] = Fresh(op[h].oid, op[h].exp)
           /\ fm[h] \in Meta /\ Ordered(fm[h])
<1>1. CaptureRight(h)
  BY Zenon DEF Inv
<1>2. op[h] \in Op /\ fm[h] = Fresh(op[h].oid, op[h].exp)
  BY Zenon, <1>1 DEF CaptureRight, Captured
<1>3. op[h].oid \in Oid /\ op[h].exp \in BOOLEAN
  BY Zenon, <1>2, OpParts
<1> QED
  BY Zenon, <1>2, <1>3, FreshMeta

\* The read of an upload: the closure of storeMeta.
LEMMA PutReadKeeps == ASSUME Inv, NEW h \in Request, PutRead(h)  PROVE Inv'
<1>1. pc[h] = "read" /\ op[h].kind = "put" /\ Reads
  BY Zenon DEF PutRead
<1>2. current = current \ {h}
  BY Zenon, <1>1, ReadingNotCurrent
<1>3. CASE ~ShouldStoreMeta(op[h].cond, doc)
  <2>1. Done(h, Status(412)) /\ current' = current \ {h}
    BY Zenon, <1>2, <1>3 DEF PutRead
  <2> QED
    BY <1>1, <2>1, ErrorKeeps
<1>4. CASE ShouldStoreMeta(op[h].cond, doc)
  <2> DEFINE o == op[h]
  <2>1. o \in Op /\ doc \in Meta \cup {Absent} /\ gone \subseteq Meta
    BY Zenon, <1>1 DEF Inv, RevsKept, TypeOK, CaptureRight
  <2>2. PICK d \in gone \cup {Absent} : fm[h] = Captured(o, d)
    <3>1. CaptureRight(h)
      BY Zenon DEF Inv
    <3> QED
      BY Zenon, <1>1, <3>1 DEF CaptureRight
  <2>3. d \in Meta \cup {Absent} /\ (doc \in Meta => Ordered(doc))
    BY Zenon, <2>1, AbsentMeta DEF Inv, RevsKept, RevsOrdered
  <2>4. fm[h] = NextMeta(Fresh(o.oid, o.exp), d, o.revs)
    BY Zenon, <1>1, <2>2 DEF Captured
  <2>5. o.oid \in Oid /\ o.exp \in BOOLEAN /\ o.revs \in Int
    BY Zenon, <2>1, OpParts
  <2>6. NextMeta(fm[h], doc, o.revs) =
          NextMeta(Fresh(o.oid, o.exp), IF doc = Absent THEN d ELSE doc, o.revs)
    BY <2>1, <2>4, <2>5, NextMetaTwice
  <2>7. PICK f : f = NextMeta(fm[h], doc, o.revs)
    BY Zenon
  <2>8. f = Captured(o, IF doc = Absent THEN d ELSE doc)
    BY Zenon, <1>1, <2>6, <2>7 DEF Captured
  <2>9. f \in Meta /\ (doc = Absent => f = fm[h]) /\ (doc # Absent => f = Captured(o, doc))
    <3>1. CASE doc = Absent
      <4>1. \A c \in gone : Ordered(c)
        BY Zenon DEF Inv, HistoryInv
      <4>2. f = Captured(o, d) /\ (d \in Meta => Ordered(d))
        BY Zenon, <2>8, <3>1, <4>1, AbsentMeta
      <4> QED
        BY Zenon, <2>1, <2>2, <3>1, <4>2, CapturedMeta
    <3>2. CASE doc # Absent
      <4>1. f = Captured(o, doc)
        BY Zenon, <2>8, <3>2
      <4> QED
        BY Zenon, <2>1, <2>3, <3>2, <4>1, CapturedMeta
    <3> QED
      BY Zenon, <3>1, <3>2
  <2>10. /\ fm' = [fm EXCEPT ![h] = f] /\ seen' = [seen EXCEPT ![h] = doc]
         /\ current' = current \cup {h} /\ Goto(h, "write") /\ UNCHANGED <<op, answer>>
    BY Zenon, <1>4, <2>7 DEF PutRead
  <2> QED
    BY Zenon, <1>1, <1>4, <2>9, <2>10, ReadKeeps
<1> QED
  BY Zenon, <1>3, <1>4

\* The read of a delete and of putMeta.
LEMMA DeleteReadKeeps == ASSUME Inv, NEW h \in Request, DeleteRead(h)  PROVE Inv'
<1>1. pc[h] = "read" /\ op[h].kind = "delete" /\ Reads
  BY Zenon DEF DeleteRead
<1>2. current = current \ {h}
  BY Zenon, <1>1, ReadingNotCurrent
<1>3. ASSUME NEW s \in {204, 404, 412}, Done(h, Status(s)), UNCHANGED current
      PROVE  Inv'
  BY <1>1, <1>2, <1>3, ErrorKeeps
<1>4. CASE ShouldStoreMeta(op[h].cond, doc) /\ doc # Absent
  <2>1. fm[h] \in Meta /\ fm[h] = Captured(op[h], doc)
    BY Zenon, <1>1, LinkFresh DEF Captured
  <2>2. fm' = [fm EXCEPT ![h] = fm[h]] /\ seen' = [seen EXCEPT ![h] = doc]
        /\ current' = current \cup {h} /\ Goto(h, "write") /\ UNCHANGED <<op, answer>>
    BY Zenon, <1>4 DEF DeleteRead, Inv, RevsKept, TypeOK
  <2> QED
    BY Zenon, <1>1, <1>4, <2>1, <2>2, ReadKeeps
<1> QED
  BY <1>3, <1>4 DEF DeleteRead

LEMMA SetDataReadKeeps == ASSUME Inv, NEW h \in Request, SetDataRead(h)  PROVE Inv'
<1>1. pc[h] = "read" /\ op[h].kind = "setdata" /\ Reads
  BY Zenon DEF SetDataRead
<1>2. current = current \ {h}
  BY Zenon, <1>1, ReadingNotCurrent
<1>3. CASE doc = Absent
  <2>1. Done(h, Status(404)) /\ current' = current \ {h}
    BY Zenon, <1>2, <1>3 DEF SetDataRead
  <2> QED
    BY <1>1, <2>1, ErrorKeeps
<1>4. CASE doc # Absent
  <2>1. fm[h] \in Meta /\ fm[h] = Captured(op[h], doc)
    BY Zenon, <1>1, LinkFresh DEF Captured
  <2>2. fm' = [fm EXCEPT ![h] = fm[h]] /\ seen' = [seen EXCEPT ![h] = doc]
        /\ current' = current \cup {h} /\ Goto(h, "write") /\ UNCHANGED <<op, answer>>
    BY Zenon, <1>4 DEF SetDataRead, Inv, RevsKept, TypeOK
  <2> QED
    BY Zenon, <1>1, <1>4, <2>1, <2>2, ReadKeeps
<1> QED
  BY Zenon, <1>3, <1>4

(***************************************************************************)
(* A write that ends its request.                                          *)
(***************************************************************************)
LEMMA WriteDoneKeeps ==
    ASSUME Inv, NEW h \in Request, NEW d \in Meta \cup {Absent}, d \in Meta => Ordered(d),
           NEW s \in {0, 200, 201, 204, 300, 304, 404, 409, 410, 412, 500},
           Writes(d), Done(h, Status(s)), acked' \subseteq Oid, NoLostPut'
    PROVE  Inv'
<1>1. Status(s) \in Answer /\ Status(s).oid = No
  BY StatusType
<1>2. /\ LocalType' /\ (\A i \in Request \ {h} : Same(i))
      /\ pc'[h] = "done" /\ answer'[h] = Status(s)
  BY <1>1, DoneType
<1>3. \A i \in Request : Same(i) \/ (pc'[i] = "done" /\ answer'[i].oid = No)
  BY SMTT(30), <1>1, <1>2
<1> QED
  BY <1>2, <1>3, WriteKeeps

\* The CAS is not good any more, and the loop starts over.
LEMMA RetryKeeps ==
    ASSUME Inv, NEW h \in Request, pc[h] = "write", h \notin current, PutRetries(h)
    PROVE  Inv'
<1>1. /\ LocalType' /\ \A i \in Request \ {h} : Same(i)
      /\ pc'[h] = "read" /\ UNCHANGED <<op, fm, seen, current, answer>> /\ Reads
      /\ current \subseteq Request /\ UNCHANGED <<doc, gone>>
  BY Zenon DEF Inv, RevsKept, TypeOK, LocalType, PutRetries, Goto, Same, Reads
<1>2. SeenRight(h) /\ CaptureRight(h) /\ Unanswered(h)
  BY Zenon DEF Inv
<1>3. SeenRight(h)' /\ Unanswered(h)'
  BY Zenon, <1>1, <1>2 DEF SeenRight, Unanswered
<1>4. answer'[h].oid = No
  BY <1>1, <1>2, StatusType DEF Unanswered
<1>5. CaptureRight(h)'
  <2>1. op[h] \in Op /\ seen[h] \in gone \cup {Absent}
    BY Zenon, <1>2 DEF SeenRight
  <2>2. PICK d \in gone \cup {Absent} : fm[h] = Captured(op[h], d)
    BY Zenon, <1>2, <2>1 DEF CaptureRight
  <2>3. fm'[h] = Captured(op'[h], d) /\ d \in gone' \cup {Absent}
    BY Zenon, <1>1, <2>2
  <2> QED
    BY Zenon, <1>1, <2>1, <2>3 DEF CaptureRight
<1> QED
  BY Zenon, <1>1, <1>3, <1>4, <1>5, LocalKeeps

\* What an upload is about to write, and what of.
LEMMA PutCaptured ==
    ASSUME Inv, NEW h \in Request, pc[h] = "write", op[h].kind = "put", h \in current
    PROVE  /\ op[h] \in Op /\ doc \in Meta \cup {Absent} /\ seen[h] = doc
           /\ fm[h] \in Meta /\ Ordered(fm[h]) /\ fm[h].oid = op[h].oid
           /\ doc # Absent => fm[h] = Captured(op[h], doc)
           /\ doc = Absent => \E d \in gone \cup {Absent} : fm[h] = Captured(op[h], d)
<1>1. SeenRight(h) /\ CaptureRight(h)
  BY Zenon DEF Inv
<1>2. op[h] \in Op /\ doc \in Meta \cup {Absent} /\ seen[h] = doc /\ gone \subseteq Meta
  BY Zenon, <1>1 DEF Inv, RevsKept, TypeOK, SeenRight
<1>3. \A c \in gone : Ordered(c)
  BY Zenon DEF Inv, HistoryInv
<1>4. CASE doc # Absent
  <2>1. fm[h] = Captured(op[h], doc) /\ doc \in Meta /\ Ordered(doc)
    BY Zenon, <1>1, <1>2, <1>4 DEF CaptureRight, Inv, RevsKept, RevsOrdered
  <2> QED
    BY Zenon, <1>2, <1>4, <2>1, CapturedMeta
<1>5. CASE doc = Absent
  <2>1. PICK d \in gone \cup {Absent} : fm[h] = Captured(op[h], d)
    BY Zenon, <1>1, <1>2, <1>5 DEF CaptureRight
  <2>2. d \in Meta \cup {Absent} /\ (d \in Meta => Ordered(d))
    BY Zenon, <1>2, <1>3, AbsentMeta
  <2> QED
    BY Zenon, <1>2, <1>5, <2>1, <2>2, CapturedMeta
<1> QED
  BY Zenon, <1>4, <1>5

\* A document has its own revision.
LEMMA OwnVersion == \A d \in Meta : <<d.revno, d.oid>> \in Versions(d)
  BY Zenon, AbsentMeta DEF Versions

\* The write of an upload.
LEMMA PutStoresKeeps ==
    ASSUME Inv, NEW h \in Request, pc[h] = "write", op[h].kind = "put", h \in current,
           PutStores(h)
    PROVE  Inv'
<1>1. /\ op[h] \in Op /\ doc \in Meta \cup {Absent} /\ seen[h] = doc
      /\ fm[h] \in Meta /\ Ordered(fm[h]) /\ fm[h].oid = op[h].oid
      /\ doc # Absent => fm[h] = Captured(op[h], doc)
  BY Zenon, PutCaptured
<1>2. PICK s \in {201, 500} : Done(h, Status(s))
  BY DEF PutStores
<1>3. Writes(fm[h]) /\ doc' = fm[h]
  BY Zenon DEF PutStores, Writes, Becomes
<1>4. /\ acked' \subseteq acked \cup {op[h].oid}
      /\ (op[h].revs # -1 \/ doc = Absent) => acked' \subseteq {op[h].oid}
  BY <1>1 DEF PutStores
<1>5. acked' \subseteq Oid
  BY <1>1, <1>4, OpParts DEF Inv, RevsKept, TypeOK
<1>6. \E v \in Versions(fm[h]) : v[2] = op[h].oid
  BY Zenon, <1>1, OwnVersion
<1>7. ASSUME op[h].revs = -1, doc # Absent  PROVE Versions(doc) \subseteq Versions(fm[h])
  <2>1. fm[h] = NextMeta(Fresh(op[h].oid, op[h].exp), doc, op[h].revs)
    BY Zenon, <1>1, <1>7 DEF Captured
  <2>2. op[h].oid \in Oid /\ op[h].exp \in BOOLEAN /\ op[h].revs \in Int /\ doc \in Meta
    BY Zenon, <1>1, <1>7, OpParts
  <2> QED
    BY <1>7, <2>1, <2>2, NextMetaKeeps
<1>8. \A o \in acked : \E v \in Versions(doc) : v[2] = o
  BY Zenon DEF Inv, RevsKept, NoLostPut
<1>9. \A o \in acked' : \E v \in Versions(fm[h]) : v[2] = o
  BY <1>4, <1>6, <1>7, <1>8
<1>10. NoLostPut'
  BY <1>3, <1>9 DEF NoLostPut
<1> QED
  BY <1>1, <1>2, <1>3, <1>5, <1>10, WriteDoneKeeps

\* Nothing has been acknowledged that could be lost.
LEMMA NoneAcked == ASSUME acked' = {}  PROVE NoLostPut' /\ acked' \subseteq Oid
  BY Zenon DEF NoLostPut

\* The CAS of a request that is about to write is good.
LEMMA CurrentSeen ==
    ASSUME Inv, NEW h \in Request, h \in current
    PROVE  seen[h] = doc /\ doc \in Meta \cup {Absent} /\ SeenRight(h) /\ pc[h] = "write"
  BY Zenon DEF Inv, RevsKept, TypeOK

LEMMA PutWriteKeeps == ASSUME Inv, NEW h \in Request, PutWrite(h)  PROVE Inv'
<1>1. pc[h] = "write" /\ op[h].kind = "put"
  BY Zenon DEF PutWrite
<1>2. CASE h \in current /\ PutStores(h)
  BY Zenon, <1>1, <1>2, PutStoresKeeps
<1>3. CASE h \notin current /\ PutRetries(h)
  BY Zenon, <1>1, <1>3, RetryKeeps
<1> QED
  BY Zenon, <1>2, <1>3 DEF PutWrite

LEMMA DeleteWriteKeeps == ASSUME Inv, NEW h \in Request, DeleteWrite(h)  PROVE Inv'
<1>1. pc[h] = "write"
  BY Zenon DEF DeleteWrite
<1>2. CASE h \in current
  <2>1. Writes(Absent) /\ acked' = {} /\ \E s \in {204, 404} : Done(h, Status(s))
    BY Zenon, <1>2 DEF DeleteWrite
  <2>2. PICK s \in {204, 404} : Done(h, Status(s))
    BY Zenon, <2>1
  <2>3. Absent \in Meta \cup {Absent} /\ Absent \notin Meta
    BY Zenon, AbsentMeta
  <2> QED
    BY <2>1, <2>2, <2>3, NoneAcked, WriteDoneKeeps
<1>3. CASE h \notin current
  BY Zenon, <1>1, <1>3, RetryKeeps DEF DeleteWrite
<1> QED
  BY Zenon, <1>2, <1>3

\* User data and expiration do not touch the revisions.
LEMMA SameRevisions ==
    ASSUME NEW d \in Meta, NEW c \in Meta,
           c.oid = d.oid, c.revno = d.revno, c.prev = d.prev
    PROVE  Versions(c) = Versions(d) /\ (Ordered(d) => Ordered(c))
<1>1. c # Absent /\ d # Absent
  BY Zenon, AbsentMeta
<1> QED
  BY Zenon, <1>1 DEF Versions, Ordered

LEMMA SetDataWriteKeeps == ASSUME Inv, NEW h \in Request, SetDataWrite(h)  PROVE Inv'
<1>1. CASE h \notin current
  <2>1. Done(h, Status(500)) /\ Reads /\ current' = current \ {h}
    BY Zenon, <1>1 DEF SetDataWrite
  <2> QED
    BY <2>1, ErrorKeeps
<1>2. CASE h \in current
  <2>1. /\ op[h] \in Op /\ seen[h] = doc /\ doc \in Meta
    <3>1. /\ seen[h] = doc /\ doc \in Meta \cup {Absent} /\ SeenRight(h)
          /\ pc[h] = "write" /\ op[h].kind = "setdata"
      BY Zenon, <1>2, CurrentSeen DEF SetDataWrite
    <3> QED
      BY Zenon, <3>1 DEF SeenRight
  <2>2. PICK d : d = [doc EXCEPT !.data = op[h].data, !.exp = FALSE]
    BY Zenon
  <2>3. Writes(d) /\ UNCHANGED acked /\ \E s \in {201, 500} : Done(h, Status(s))
    BY <1>2, <2>1, <2>2 DEF SetDataWrite, SetsData
  <2>4. PICK s \in {201, 500} : Done(h, Status(s))
    BY Zenon, <2>3
  <2>5. op[h].data \in Data \cup {NoData} /\ FALSE \in BOOLEAN
    BY <2>1, OpParts
  <2>6. Ordered(doc)
    BY Zenon, <2>1, AbsentMeta DEF Inv, RevsKept, RevsOrdered
  <2>7. d \in Meta /\ Versions(d) = Versions(doc) /\ Ordered(d)
    <3>1. d \in Meta /\ d.oid = doc.oid /\ d.revno = doc.revno /\ d.prev = doc.prev
      BY Zenon, <2>1, <2>2, <2>5 DEF Meta
    <3> QED
      BY <2>1, <2>6, <3>1, SameRevisions
  <2>8. acked' \subseteq Oid /\ NoLostPut'
    BY <2>3, <2>7 DEF Inv, RevsKept, TypeOK, NoLostPut, Writes, Becomes
  <2> QED
    BY <2>3, <2>4, <2>7, <2>8, WriteDoneKeeps
<1> QED
  BY Zenon, <1>1, <1>2

LEMMA LinkKeeps == ASSUME Inv, NEW h \in Request, Link(h)  PROVE Inv'
<1>1. fm[h] \in Meta /\ Ordered(fm[h])
  BY LinkFresh DEF Link
<1>2. PICK s \in {201, 500} : Done(h, Status(s))
  BY Zenon DEF Link
<1>3. Writes(fm[h]) /\ NoLostPut' /\ acked' \subseteq Oid
  BY NoneAcked DEF Link
<1> QED
  BY <1>1, <1>2, <1>3, WriteDoneKeeps

LEMMA RestoreKeeps == ASSUME Inv, NEW h \in Request, Restore(h)  PROVE Inv'
<1>1. pc[h] = "read" /\ current = current \ {h}
  BY Zenon, ReadingNotCurrent DEF Restore
<1>2. PICK d \in gone :
        \/ /\ doc = Absent /\ Writes([d EXCEPT !.exp = op[h].exp]) /\ acked' = {}
           /\ \E s \in {201, 500} : Done(h, Status(s))
        \/ /\ \E s \in {201, 409} : Done(h, Status(s))
           /\ Reads /\ UNCHANGED current
  BY DEF Restore
<1>3. ASSUME NEW s \in {201, 409}, Done(h, Status(s)), Reads, UNCHANGED current
      PROVE  Inv'
  BY <1>1, <1>3, ErrorKeeps
<1>4. ASSUME NEW s \in {201, 500}, Done(h, Status(s)), acked' = {},
             Writes([d EXCEPT !.exp = op[h].exp])
      PROVE  Inv'
  <2>1. op[h].exp \in BOOLEAN /\ d \in Meta /\ Ordered(d) /\ d.data \in Data \cup {NoData}
    <3>1. CaptureRight(h) /\ d \in Meta /\ Ordered(d)
      BY Zenon DEF Inv, RevsKept, TypeOK, HistoryInv
    <3>2. op[h] \in Op
      BY Zenon, <1>1, <3>1 DEF CaptureRight
    <3> QED
      BY <3>1, <3>2, OpParts DEF Meta
  <2>2. PICK c : c = [d EXCEPT !.exp = op[h].exp]
    BY Zenon
  <2>3. c \in Meta /\ c.oid = d.oid /\ c.revno = d.revno /\ c.prev = d.prev
    BY Zenon, <2>1, <2>2 DEF Meta
  <2>4. Ordered(c)
    BY Zenon, <2>1, <2>3, SameRevisions
  <2> QED
    BY <1>4, <2>2, <2>3, <2>4, NoneAcked, WriteDoneKeeps
<1> QED
  BY <1>2, <1>3, <1>4

\* What a read finds is a revision of the document.
LEMMA FoundVersion ==
    ASSUME NEW d \in Meta, NEW rev, NEW v \in Found(d, rev)
    PROVE  /\ v[1] \in Nat /\ v[2] \in Oid /\ v = <<v[1], v[2]>>
           /\ v \in Versions(d)
<1>1. d # Absent
  BY Zenon, AbsentMeta
<1>2. v \in Versions(d)
  BY Zenon, <1>1 DEF Found, Versions
<1> QED
  BY <1>2, VersionsType

LEMMA ServedIs ==
    ASSUME NEW s \in {200, 300, 500}, NEW n \in Nat, NEW o \in Oid
    PROVE  /\ Served(s, <<n, o>>) \in Answer
           /\ Served(s, <<n, o>>).oid # No =>
                 Served(s, <<n, o>>).rev = n /\ Served(s, <<n, o>>).oid = o
<1>1. CASE s = 500
  BY <1>1, StatusType DEF Served
<1>2. CASE s # 500
  BY <1>2 DEF Served, Answer
<1> QED
  BY Zenon, <1>1, <1>2

LEMMA GetKeeps == ASSUME Inv, NEW h \in Request, Get(h)  PROVE Inv'
<1>1. pc[h] = "read" /\ current' = current \ {h} /\ Reads
  BY ReadingNotCurrent DEF Get
<1>2. ASSUME NEW s \in {304, 404, 410}, Done(h, Status(s))  PROVE Inv'
  BY <1>1, <1>2, ErrorKeeps
<1>3. ASSUME doc # Absent, NEW v \in Found(doc, op[h].rev), NEW s \in {200, 300, 500},
             Done(h, Served(s, v))
      PROVE  Inv'
  <2>1. doc \in Meta
    BY Zenon, <1>3 DEF Inv, RevsKept, TypeOK
  <2>2. v[1] \in Nat /\ v[2] \in Oid /\ v = <<v[1], v[2]>> /\ v \in Versions(doc)
    BY <2>1, FoundVersion
  <2>3. PICK n \in Nat, o \in Oid : v = <<n, o>>
    BY <2>2
  <2>4. <<n, o>> \in stored
    BY <2>2, <2>3 DEF Inv, HistoryInv
  <2>5. PICK a : a = Served(s, <<n, o>>)
    BY Zenon
  <2>6. a \in Answer /\ (a.oid # No => <<a.rev, a.oid>> \in stored)
    BY <2>4, <2>5, ServedIs
  <2>7. Done(h, a)
    BY Zenon, <1>3, <2>3, <2>5
  <2> QED
    BY Zenon, <1>1, <2>6, <2>7, DoneKeeps
<1> QED
  BY <1>2, <1>3 DEF Get

LEMMA ExpireKeeps == ASSUME Inv, Expire  PROVE Inv'
<1>1. Writes(Absent) /\ NoLostPut' /\ acked' \subseteq Oid
  BY Zenon, NoneAcked DEF Expire
<1>2. LocalType' /\ \A i \in Request : Same(i)
  BY Zenon DEF Expire, Inv, RevsKept, TypeOK, LocalType, Same
<1>3. Absent \in Meta \cup {Absent} /\ Absent \notin Meta
  BY Zenon, AbsentMeta
<1> QED
  BY Zenon, <1>1, <1>2, <1>3, WriteKeeps

\* Every step keeps the invariant.
LEMMA NextInv == Inv /\ [Next]_vars => Inv'
<1> SUFFICES ASSUME Inv, [Next]_vars  PROVE Inv'
  BY Zenon
<1>1. ASSUME NEW h \in Request, Step(h)  PROVE Inv'
  <2>1. CASE Begin(h)
    BY Zenon, <2>1, BeginKeeps
  <2>2. CASE PutRead(h)
    BY Zenon, <2>2, PutReadKeeps
  <2>3. CASE PutWrite(h)
    BY Zenon, <2>3, PutWriteKeeps
  <2>4. CASE DeleteRead(h)
    BY Zenon, <2>4, DeleteReadKeeps
  <2>5. CASE DeleteWrite(h)
    BY Zenon, <2>5, DeleteWriteKeeps
  <2>6. CASE SetDataRead(h)
    BY Zenon, <2>6, SetDataReadKeeps
  <2>7. CASE SetDataWrite(h)
    BY Zenon, <2>7, SetDataWriteKeeps
  <2>8. CASE Link(h)
    BY Zenon, <2>8, LinkKeeps
  <2>9. CASE Restore(h)
    BY Zenon, <2>9, RestoreKeeps
  <2>10. CASE Get(h)
    BY Zenon, <2>10, GetKeeps
  <2>11. CASE Fail(h)
    BY <2>11, ErrorKeeps DEF Fail
  <2> QED
    BY Zenon, <1>1, <2>1, <2>2, <2>3, <2>4, <2>5, <2>6, <2>7, <2>8, <2>9, <2>10,
       <2>11 DEF Step
<1>2. CASE Expire
  BY Zenon, <1>2, ExpireKeeps
<1>3. CASE UNCHANGED vars
  BY Zenon, <1>3 DEF vars, Inv, RevsKept, TypeOK, RevsOrdered, NoLostPut, ServedAsStored,
     HistoryInv,
              SeenRight, CaptureRight, Unanswered
<1> QED
  BY Zenon, <1>1, <1>2, <1>3 DEF Next

(***************************************************************************)
(* The inductive invariant of the requests on a file.                      *)
(***************************************************************************)
THEOREM Invariance == Spec => []Inv
  BY InitInv, NextInv, PTL DEF Spec

(***************************************************************************)
(* Types, the order of the revisions, and no lost upload: however many     *)
(* requests run at once, an upload that keeps all revisions and was        *)
(* answered with 201 is still among the revisions of the file.             *)
(***************************************************************************)
THEOREM RevisionsKept == Spec => []RevsKept
<1>1. Inv => RevsKept
  BY Zenon DEF Inv
<1> QED
  BY <1>1, Invariance, PTL

\* doGetUserDoc answers with a blob that was stored as the revision asked for.
THEOREM ReadsServedAsStored == Spec => []ServedAsStored
<1>1. Inv => ServedAsStored
  BY Zenon DEF Inv
<1> QED
  BY <1>1, Invariance, PTL

-------------------------------------------------------------------------------
\* shouldStoreMeta decides what the headers say.
LEMMA StoreFulfilled ==
    ASSUME NEW c \in Cond, NEW d \in Meta \cup {Absent}, ShouldStoreMeta(c, d)
    PROVE  Fulfilled(c, d)
<1>1. c.match \in Oid \cup {Star, No} /\ c.none \in Oid \cup {Star, No}
  BY Zenon, CondAssumption
<1> QED
  BY Zenon, <1>1, HeaderAssumption DEF ShouldStoreMeta, Fulfilled

\* A request that is about to write is answered with success only by its own write.
LEMMA SuccessWrites ==
    ASSUME Inv, NEW h \in Request, pc[h] = "write", op[h].kind \in {"put", "delete"},
           answer'[h].status \in {201, 204}, [Next]_vars
    PROVE  h \in current
<1>0. answer \in [Request -> Answer] /\ answer[h].status = 0
  BY StatusType DEF Inv, RevsKept, TypeOK, Unanswered
<1>1. answer'[h] # answer[h]
  BY <1>0
<1>2. PICK i \in Request : Step(i)
  BY Zenon, <1>1 DEF Next, Expire, vars
<1>3. i = h
  <2> SUFFICES ASSUME i # h  PROVE answer'[h] = answer[h]
    BY Zenon, <1>1
  <2>1. ASSUME NEW a, Done(i, a)  PROVE answer'[h] = answer[h]
    BY Zenon, <1>0, <2>1 DEF Done
  <2>2. CASE Begin(i) \/ PutRead(i) \/ PutWrite(i)
    BY Zenon, <2>1, <2>2 DEF Begin, PutRead, PutWrite, PutStores, PutRetries
  <2>3. CASE DeleteRead(i) \/ DeleteWrite(i)
    BY <2>1, <2>3 DEF DeleteRead, DeleteWrite, PutRetries
  <2>4. CASE SetDataRead(i) \/ SetDataWrite(i)
    BY <2>1, <2>4 DEF SetDataRead, SetDataWrite, SetsData
  <2>5. CASE Link(i) \/ Restore(i)
    BY Zenon, <2>1, <2>5 DEF Link, Restore
  <2>6. CASE Get(i) \/ Fail(i)
    BY <2>1, <2>6 DEF Get, Fail
  <2> QED
    BY Zenon, <1>2, <2>2, <2>3, <2>4, <2>5, <2>6 DEF Step
<1>4. ~Fail(h)
  BY <1>0, StatusType DEF Fail, Done
<1>5. PutWrite(h) \/ DeleteWrite(h)
  BY Zenon, <1>2, <1>3, <1>4 DEF Step, Begin, PutRead, DeleteRead, SetDataRead,
     SetDataWrite, Link,
          Restore, Get
<1> QED
  BY Zenon, <1>1, <1>5 DEF PutWrite, DeleteWrite, PutRetries

(***************************************************************************)
(* An upload or a delete that is answered with success has replaced a      *)
(* document that its If-Match and If-None-Match are true of.               *)
(***************************************************************************)
THEOREM PreconditionsAtWrite == Spec => Conditional
<1>1. ASSUME Inv, [Next]_vars
      PROVE  \A h \in Request :
                /\ pc[h] = "write" /\ op[h].kind \in {"put", "delete"}
                /\ answer'[h].status \in {201, 204}
                => Fulfilled(op[h].cond, doc)
  <2> SUFFICES ASSUME NEW h \in Request, pc[h] = "write", op[h].kind \in {"put", "delete"},
                      answer'[h].status \in {201, 204}
               PROVE  Fulfilled(op[h].cond, doc)
    BY Zenon
  <2>1. h \in current
    BY Zenon, <1>1, SuccessWrites
  <2>2. seen[h] = doc /\ doc \in Meta \cup {Absent} /\ SeenRight(h)
    BY Zenon, <1>1, <2>1, CurrentSeen
  <2>3. op[h] \in Op /\ ShouldStoreMeta(op[h].cond, doc)
    BY Zenon, <2>2 DEF SeenRight
  <2> QED
    BY <2>2, <2>3, OpParts, StoreFulfilled
<1> QED
  BY <1>1, Invariance, PTL DEF Spec, Conditional

-------------------------------------------------------------------------------
\* What a write of a request does to the document.
LEMMA PutImplements ==
    ASSUME Inv, NEW h \in Request, PutWrite(h)  PROVE VNext \/ UNCHANGED docVars
<1>1. pc[h] = "write" /\ op[h].kind = "put"
  BY Zenon DEF PutWrite
<1>2. CASE h \in current
  <2>1. /\ op[h] \in Op
        /\ doc # Absent => fm[h] = Captured(op[h], doc)
        /\ doc = Absent => \E d \in gone \cup {Absent} : fm[h] = Captured(op[h], d)
    BY Zenon, <1>1, <1>2, PutCaptured
  <2>2. PICK o \in Oid, e \in BOOLEAN, r \in Revs :
             o = op[h].oid /\ e = op[h].exp /\ r = op[h].revs
    BY Zenon, <2>1 DEF Op
  <2>3. \A d : Captured(op[h], d) = NextMeta(Fresh(o, e), d, r)
    BY Zenon, <1>1, <2>2 DEF Captured
  <2>4. Becomes(fm[h])
    BY Zenon, <1>2 DEF PutWrite, PutStores, Writes
  <2>5. VPut
    <3>1. CASE doc # Absent
      <4>1. Becomes(NextMeta(Fresh(o, e), doc, r))
        BY Zenon, <2>1, <2>3, <2>4, <3>1
      <4> QED
        BY Zenon, <3>1, <4>1 DEF VPut
    <3>2. CASE doc = Absent
      <4>1. PICK d \in gone \cup {Absent} : fm[h] = NextMeta(Fresh(o, e), d, r)
        BY Zenon, <2>1, <2>3, <3>2
      <4>2. Becomes(NextMeta(Fresh(o, e), d, r))
        BY Zenon, <2>4, <4>1
      <4> QED
        BY Zenon, <3>2, <4>2 DEF VPut
    <3> QED
      BY Zenon, <3>1, <3>2
  <2> QED
    BY Zenon, <2>5 DEF VNext
<1>3. CASE h \notin current
  BY Zenon, <1>3 DEF PutWrite, PutRetries, Reads, docVars
<1> QED
  BY Zenon, <1>2, <1>3

LEMMA DeleteImplements ==
    ASSUME Inv, NEW h \in Request, DeleteWrite(h)  PROVE VNext \/ UNCHANGED docVars
<1>1. CASE h \in current
  <2>1. seen[h] = doc /\ SeenRight(h)
    BY Zenon, <1>1, CurrentSeen
  <2>2. doc # Absent
    BY Zenon, <2>1 DEF DeleteWrite, SeenRight
  <2> QED
    BY Zenon, <1>1, <2>2 DEF DeleteWrite, Writes, VRemove, VNext
<1>2. CASE h \notin current
  BY Zenon, <1>2 DEF DeleteWrite, PutRetries, Reads, docVars
<1> QED
  BY Zenon, <1>1, <1>2

LEMMA SetDataImplements ==
    ASSUME Inv, NEW h \in Request, SetDataWrite(h)  PROVE VNext \/ UNCHANGED docVars
<1>1. CASE h \in current
  <2>1. seen[h] = doc /\ SeenRight(h)
    BY Zenon, <1>1, CurrentSeen
  <2>2. doc # Absent /\ op[h] \in Op
    BY Zenon, <2>1 DEF SetDataWrite, SeenRight
  <2>3. PICK x \in Data : x = op[h].data
    BY Zenon, <2>2, OpParts
  <2>4. Becomes([doc EXCEPT !.data = x, !.exp = FALSE])
    BY <1>1, <2>1, <2>3 DEF SetDataWrite, SetsData, Writes
  <2> QED
    BY Zenon, <2>2, <2>4 DEF VSetData, VNext
<1>2. CASE h \notin current
  BY Zenon, <1>2 DEF SetDataWrite, Reads, docVars
<1> QED
  BY Zenon, <1>1, <1>2

LEMMA LinkImplements ==
    ASSUME Inv, NEW h \in Request, Link(h)  PROVE VNext
<1>1. op[h] \in Op /\ fm[h] = Fresh(op[h].oid, op[h].exp)
  BY LinkFresh DEF Link
<1>2. PICK o \in Oid, e \in BOOLEAN : o = op[h].oid /\ e = op[h].exp
  BY Zenon, <1>1, OpParts
<1>3. Becomes(Fresh(o, e))
  BY <1>1, <1>2 DEF Link, Writes
<1> QED
  BY Zenon, <1>3 DEF VLink, VNext

LEMMA RestoreImplements ==
    ASSUME Inv, NEW h \in Request, Restore(h)  PROVE VNext \/ UNCHANGED docVars
<1>1. op[h] \in Op
  BY Zenon, LinkFresh DEF Restore
<1>2. PICK e \in BOOLEAN : e = op[h].exp
  BY Zenon, <1>1, OpParts
<1>3. \/ doc = Absent /\ \E d \in gone : Becomes([d EXCEPT !.exp = e])
      \/ UNCHANGED docVars
  BY SMTT(30), <1>2 DEF Restore, Writes, Reads, docVars
<1> QED
  BY Zenon, <1>3 DEF VRestore, VNext

(***************************************************************************)
(* The requests implement FileVersions: every step of a request is one     *)
(* whole operation on the document as it is then, or does not change it.   *)
(***************************************************************************)
THEOREM Implements == Spec => Versioned
<1>1. Init => VInit
  BY Zenon DEF Init
<1>2. ASSUME Inv, [Next]_vars  PROVE [VNext]_docVars
  <2>1. ASSUME NEW h \in Request, Step(h)  PROVE VNext \/ UNCHANGED docVars
    <3>1. CASE PutWrite(h)
      BY Zenon, <1>2, <3>1, PutImplements
    <3>2. CASE DeleteWrite(h)
      BY Zenon, <1>2, <3>2, DeleteImplements
    <3>3. CASE SetDataWrite(h)
      BY Zenon, <1>2, <3>3, SetDataImplements
    <3>4. CASE Link(h)
      BY Zenon, <1>2, <3>4, LinkImplements
    <3>5. CASE Restore(h)
      BY Zenon, <1>2, <3>5, RestoreImplements
    <3> QED
      BY Zenon, <2>1, <3>1, <3>2, <3>3, <3>4, <3>5
      DEF Step, Begin, PutRead, DeleteRead, SetDataRead, Get, Fail, Reads, docVars
  <2>2. CASE Expire
    BY Zenon, <2>2 DEF Expire, Writes, VRemove, VNext
  <2>3. CASE UNCHANGED vars
    BY Zenon, <2>3 DEF vars, docVars
  <2> QED
    BY Zenon, <1>2, <2>1, <2>2, <2>3 DEF Next
<1> QED
  BY <1>1, <1>2, Invariance, PTL DEF Spec, Versioned, VSpec

===============================================================================
