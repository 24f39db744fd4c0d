------------------------------ MODULE NodeProofs ------------------------------
(***************************************************************************)
(* Proofs about an upload and about the registry of the nodes, for any     *)
(* size of a body and any nodes, documents and faults.                     *)
(***************************************************************************)
EXTENDS UploadPart, RegistryPart, Sequences, TLAPS

-------------------------------------------------------------------------------
LEMMA SizeType == Size \in Nat \ {0} /\ Nothing \notin Nat
  BY Zenon, UploadAssumption DEF T!SizeAssumption

LEMMA UploadInit == T!Init => T!Inv
  BY SMTT(30), SizeType DEF T!Init, T!Inv, T!TypeOK, T!AckedWhole, T!CutOnlyUnhashed,
     T!Flow, T!Sent,
         T!Kept, T!BgCap, T!Hashed

(***************************************************************************)
(* A step that sends nothing and takes nothing from the channel.           *)
(***************************************************************************)
LEMMA TeeKeeps ==
    ASSUME T!Inv, T!TeeRead \/ T!TeeWrite \/ T!TeeTimeout \/ T!TeeSend
    PROVE  T!Inv'
<1> USE SizeType DEF T!handler, T!second, T!Inv, T!TypeOK, T!AckedWhole, T!CutOnlyUnhashed,
        T!Flow, T!Sent, T!Kept, T!BgCap, T!Hashed
<1>1. CASE T!TeeRead
  BY <1>1 DEF T!TeeRead
<1>2. CASE T!TeeWrite
  BY <1>2 DEF T!TeeWrite
<1>3. CASE T!TeeTimeout
  BY <1>3 DEF T!TeeTimeout
<1>4. CASE T!TeeSend
  BY <1>4 DEF T!TeeSend
<1> HIDE DEF T!Inv
<1> QED
  BY Zenon, <1>1, <1>2, <1>3, <1>4

\* The temporary file stays or goes.
LEMMA TmpType ==
    ASSUME T!Inv, \/ T!Copy \/ T!CopyFails \/ T!Finish \/ T!Record \/ T!StoreMeta
                  \/ T!Crash \/ T!CleanTmpFiles \/ T!PostRawBlob
    PROVE  tmp' \in BOOLEAN
<1> USE DEF T!Returns, T!handler
<1>0. tmp \in BOOLEAN
  BY Zenon DEF T!Inv, T!TypeOK
<1>1. CASE T!Copy
  BY Zenon, <1>0, <1>1 DEF T!Copy
<1>2. CASE T!CopyFails \/ T!Finish
  BY Zenon, <1>0, <1>2 DEF T!CopyFails, T!Finish
<1>3. CASE T!Record
  BY Zenon, <1>0, <1>3 DEF T!Record
<1>4. CASE T!StoreMeta
  BY Zenon, <1>0, <1>4 DEF T!StoreMeta
<1>5. CASE T!Crash
  BY Zenon, <1>0, <1>5 DEF T!Crash
<1>6. CASE T!CleanTmpFiles \/ T!PostRawBlob
  BY Zenon, <1>0, <1>6 DEF T!CleanTmpFiles, T!PostRawBlob
<1> QED
  BY Zenon, <1>1, <1>2, <1>3, <1>4, <1>5, <1>6

LEMMA HandlerKeeps ==
    ASSUME T!Inv, \/ T!Copy \/ T!CopyFails \/ T!Finish \/ T!Record \/ T!StoreMeta
                  \/ T!Crash \/ T!CleanTmpFiles \/ T!PostRawBlob
    PROVE  T!Inv'
<1> USE SizeType DEF T!handler, T!second, T!Returns, T!Inv, T!TypeOK, T!AckedWhole,
        T!CutOnlyUnhashed, T!Flow, T!Sent, T!Kept, T!BgCap, T!Hashed
<1>1. tmp' \in BOOLEAN
  BY Zenon, TmpType
<1>2. CASE T!Copy
  <2>1. /\ pc = "copy" /\ UNCHANGED <<alt, hashin, pipe, tee, owned, remote, rgot, bg, bgch>>
        /\ \/ alt /\ pc' = "finish" /\ UNCHANGED <<read, got, answer>>
           \/ /\ ~alt /\ read < Size /\ read' = read + 1 /\ got' = got + 1
              /\ UNCHANGED <<pc, answer>>
           \/ ~alt /\ read = Size /\ pc' = "finish" /\ UNCHANGED <<read, got, answer>>
           \/ pc' = "done" /\ answer' = 500 /\ UNCHANGED <<read, got>>
    BY Zenon, <1>2 DEF T!Copy
  <2> QED
    BY SMTT(30), <1>1, <2>1
<1>3. CASE T!CopyFails
  <2>1. /\ pc = "copy" /\ pc' = "done" /\ answer' = 500
        /\ UNCHANGED <<alt, hashin, read, pipe, tee, got, owned, remote, rgot, bg, bgch>>
    BY Zenon, <1>3 DEF T!CopyFails
  <2> QED
    BY <1>1, <2>1
<1>4. CASE T!Finish
  <2>1. /\ pc = "finish"
        /\ \/ T!Hashed /\ pc' = "record" /\ UNCHANGED answer
           \/ pc' = "done" /\ answer' = 500
        /\ UNCHANGED <<alt, hashin, read, pipe, tee, got, owned, remote, rgot, bg, bgch>>
    BY Zenon, <1>4 DEF T!Finish
  <2> QED
    BY SMTT(30), <1>1, <2>1
<1>5. CASE T!Record
  <2>1. /\ pc = "record"
        /\ \/ owned' = got /\ pc' = "collect" /\ UNCHANGED answer
           \/ pc' = "done" /\ answer' = 500 /\ UNCHANGED owned
        /\ UNCHANGED <<alt, hashin, read, pipe, tee, got, remote, rgot, bg, bgch>>
    BY Zenon, <1>5 DEF T!Record
  <2> QED
    BY SMTT(30), <1>1, <2>1
<1>6. CASE T!StoreMeta
  <2>1. /\ pc = "meta" /\ pc' = "done" /\ answer' \in {201, 412, 500}
        /\ UNCHANGED <<alt, hashin, read, pipe, tee, got, owned, remote, rgot, bg, bgch>>
    BY <1>6 DEF T!StoreMeta
  <2> QED
    BY SMTT(30), <1>1, <2>1
<1>7. CASE T!Crash
  BY SMTT(30), <1>7 DEF T!Crash
<1>8. CASE T!CleanTmpFiles
  <2>1. UNCHANGED <<alt, hashin, read, pipe, tee, pc, got, owned, answer, remote, rgot, bg, bgch>>
    BY Zenon, <1>8 DEF T!CleanTmpFiles
  <2> QED
    BY SMTT(30), <1>1, <2>1
<1>9. CASE T!PostRawBlob
  BY <1>9 DEF T!PostRawBlob
<1> QED
  BY Zenon, <1>2, <1>3, <1>4, <1>5, <1>6, <1>7, <1>8, <1>9

\* What Append and Tail give.
LEMMA AppendIs ==
    ASSUME NEW S, NEW s \in Seq(S), NEW x \in S
    PROVE  /\ Append(s, x) \in Seq(S) /\ Len(Append(s, x)) = Len(s) + 1
           /\ \A i \in 1..Len(s) : Append(s, x)[i] = s[i]
           /\ Append(s, x)[Len(s) + 1] = x
  OBVIOUS

LEMMA TailOf ==
    ASSUME NEW S, NEW s \in Seq(S), s # <<>>
    PROVE  /\ Tail(s) \in Seq(S) /\ Len(Tail(s)) = Len(s) - 1 /\ Len(s) > 0
           /\ \A i \in 1..(Len(s) - 1) : Tail(s)[i] = s[i + 1]
  OBVIOUS

\* What is sent is a storInfo, and comes after what was sent before.
LEMMA SendsIs ==
    ASSUME T!Inv, NEW e \in BOOLEAN, NEW hs \in (0..Size) \cup {Nothing}, T!Sends(e, hs),
           Len(bgch) < 2
    PROVE  /\ bgch' \in Seq(T!StorInfo) /\ Len(bgch') <= 2
           /\ \A i \in DOMAIN bgch' : bgch'[i].hs = hs \/ (i \in DOMAIN bgch /\ bgch'[i] = bgch[i])
<1>1. bgch \in Seq(T!StorInfo) /\ bgch' = Append(bgch, [err |-> e, hs |-> hs])
  BY Zenon DEF T!Inv, T!TypeOK, T!Sends
<1>2. [err |-> e, hs |-> hs] \in T!StorInfo
  BY Zenon DEF T!StorInfo
<1> QED
  <2>1. PICK x : x = [err |-> e, hs |-> hs]
    BY Zenon
  <2>2. PICK S : S = T!StorInfo
    BY Zenon
  <2>3. x \in S /\ bgch \in Seq(S) /\ bgch' = Append(bgch, x) /\ x.hs = hs
    BY Zenon, <1>1, <1>2, <2>1, <2>2
  <2>4. /\ bgch' \in Seq(S) /\ Len(bgch') = Len(bgch) + 1 /\ bgch'[Len(bgch) + 1] = x
        /\ \A i \in 1..Len(bgch) : bgch'[i] = bgch[i]
    BY <2>3, AppendIs
  <2> QED
    BY <2>2, <2>3, <2>4

\* The storInfo that is taken is the first one.
LEMMA TailIs ==
    ASSUME T!Inv, bgch # <<>>, bgch' = Tail(bgch)
    PROVE  /\ bgch' \in Seq(T!StorInfo) /\ Len(bgch') <= 2 /\ 1 \in DOMAIN bgch
           /\ \A i \in DOMAIN bgch' : i + 1 \in DOMAIN bgch /\ bgch'[i] = bgch[i + 1]
<1>1. bgch \in Seq(T!StorInfo) /\ Len(bgch) <= 2
  BY Zenon DEF T!Inv, T!TypeOK, T!BgCap
<1> QED
  BY <1>1, TailOf

\* Nothing is sent with a hash unless the second copy is stored.
LEMMA AnsweredIs ==
    ASSUME T!DoAnswered
    PROVE  /\ bg = "do" /\ remote \in {"stored", "refused"}
           /\ \E e \in BOOLEAN, hs \in {rgot, Nothing} :
                 T!Sends(e, hs) /\ (hs # Nothing => remote = "stored")
           /\ bg' \in {"done", "again"} /\ pipe' \in {pipe, "closed"}
           /\ UNCHANGED <<alt, hashin, read, tee, pc, got, tmp, owned, answer, remote, rgot>>
  BY Zenon DEF T!DoAnswered, T!handler

LEMMA ChannelKeeps ==
    ASSUME T!Inv, T!DoAnswered \/ T!DoFailed \/ T!SendAgain
    PROVE  T!Inv'
<1>0. /\ Nothing \in (0..Size) \cup {Nothing} /\ rgot \in (0..Size) \cup {Nothing}
      /\ bg = "do" => Len(bgch) < 2
      /\ remote = "stored" => rgot = Size /\ rgot # Nothing
  <2>1. Len(<<>>) = 0
    BY Zenon
  <2>2. bg = "do" => bgch = <<>>
    BY Zenon DEF T!Inv, T!Sent
  <2>3. rgot \in (0..Size) \cup {Nothing} /\ (remote = "stored" => rgot = Size /\ rgot # Nothing)
    BY SMTT(30), SizeType DEF T!Inv, T!TypeOK, T!Flow, T!Sent, T!BgCap, T!Kept
  <2> QED
    BY <2>1, <2>2, <2>3
<1>1. CASE T!DoAnswered
  <2>1. PICK e \in BOOLEAN, hs \in {rgot, Nothing} :
             T!Sends(e, hs) /\ (hs # Nothing => remote = "stored")
    BY Zenon, <1>1, AnsweredIs
  <2>2. hs \in (0..Size) \cup {Nothing} /\ Len(bgch) < 2
    BY Zenon, <1>0, <1>1, AnsweredIs
  <2>3. /\ bgch' \in Seq(T!StorInfo) /\ Len(bgch') <= 2
        /\ \A i \in DOMAIN bgch' : bgch'[i].hs = hs \/ (i \in DOMAIN bgch /\ bgch'[i] = bgch[i])
    BY Zenon, <2>1, <2>2, SendsIs
  <2> QED
    <3>1. /\ bg = "do" /\ remote \in {"stored", "refused"}
          /\ bg' \in {"done", "again"} /\ pipe' \in {pipe, "closed"}
          /\ UNCHANGED <<alt, hashin, read, tee, pc, got, tmp, owned, answer, remote, rgot>>
      BY Zenon, <1>1, AnsweredIs
    <3> USE SizeType DEF T!Inv, T!TypeOK, T!AckedWhole, T!CutOnlyUnhashed, T!Flow, T!Sent, T!Kept,
            T!BgCap, T!Hashed
    <3> QED
      BY SMTT(30), <1>0, <1>1, <2>1, <2>3, <3>1 DEF T!DoAnswered
<1>2. CASE T!DoFailed
  <2>1. T!Sends(TRUE, Nothing) /\ bg = "do"
    BY Zenon, <1>2 DEF T!DoFailed
  <2>2. /\ bgch' \in Seq(T!StorInfo) /\ Len(bgch') <= 2
        /\ \A i \in DOMAIN bgch' :
              bgch'[i].hs = Nothing \/ (i \in DOMAIN bgch /\ bgch'[i] = bgch[i])
    BY Zenon, <1>0, <2>1, SendsIs
  <2> USE SizeType DEF T!handler, T!Inv, T!TypeOK, T!AckedWhole, T!CutOnlyUnhashed, T!Flow, T!Sent,
          T!Kept, T!BgCap, T!Hashed
  <2> QED
    BY SMTT(30), <1>2, <2>2 DEF T!DoFailed
<1>3. CASE T!SendAgain
  <2>1. T!Sends(FALSE, Nothing) /\ Len(bgch) < 2
    BY Zenon, <1>3 DEF T!SendAgain, T!BgCap
  <2>2. /\ bgch' \in Seq(T!StorInfo) /\ Len(bgch') <= 2
        /\ \A i \in DOMAIN bgch' :
              bgch'[i].hs = Nothing \/ (i \in DOMAIN bgch /\ bgch'[i] = bgch[i])
    BY Zenon, <1>0, <2>1, SendsIs
  <2> USE SizeType DEF T!handler, T!Inv, T!TypeOK, T!AckedWhole, T!CutOnlyUnhashed, T!Flow, T!Sent,
          T!Kept, T!BgCap, T!Hashed
  <2> QED
    BY SMTT(30), <1>3, <2>2 DEF T!SendAgain
<1> QED
  BY Zenon, <1>1, <1>2, <1>3

(***************************************************************************)
(* The outcome of the second copy is the hash of the file only if it has   *)
(* everything.                                                             *)
(***************************************************************************)
LEMMA CollectKeeps == ASSUME T!Inv, T!Collect  PROVE T!Inv'
<1> USE SizeType DEF T!Inv, T!TypeOK, T!AckedWhole, T!CutOnlyUnhashed, T!Flow, T!Sent, T!Kept,
        T!BgCap, T!Hashed
<1>1. CASE bgch' = bgch
  BY <1>1, TailIs DEF T!Collect, T!CollectIf, T!Returns
<1>2. CASE bgch # <<>> /\ bgch' = Tail(bgch)
  <2>1. /\ bgch' \in Seq(T!StorInfo) /\ Len(bgch') <= 2 /\ 1 \in DOMAIN bgch
        /\ \A i \in DOMAIN bgch' : i + 1 \in DOMAIN bgch /\ bgch'[i] = bgch[i + 1]
    BY Zenon, <1>2, TailIs
  <2>2. bgch[1].hs = got => remote = "stored" /\ got = Size
    BY SMTT(30), <2>1
  <2>3. /\ pc = "collect"
        /\ \/ pc' = "meta" /\ answer' = answer /\ bgch[1].hs = got
           \/ pc' = "done" /\ answer' = 500
        /\ UNCHANGED <<alt, hashin, read, pipe, tee, got, owned, remote, rgot, bg>>
    BY <1>2 DEF T!Collect, T!CollectIf, T!Returns
  <2>0. tmp' \in BOOLEAN
    BY Zenon DEF T!Collect, T!CollectIf, T!Returns
  <2>4. T!TypeOK' /\ T!AckedWhole' /\ T!CutOnlyUnhashed' /\ T!Kept'
    BY SMTT(30), <2>0, <2>1, <2>2, <2>3
  <2>5. T!Flow'
    BY SMTT(30), <2>3
  <2>6. T!Sent'
    BY SMTT(30), <1>2, <2>1, <2>3
  <2> QED
    BY Zenon, <2>4, <2>5, <2>6
<1> QED
  BY <1>1, <1>2 DEF T!Collect, T!CollectIf

\* Every step of an upload keeps its invariant.
LEMMA UploadNext == T!Inv /\ [T!Next]_tvars => T!Inv'
<1> SUFFICES ASSUME T!Inv, [T!Next]_tvars  PROVE T!Inv'
  BY Zenon
<1>1. CASE UNCHANGED tvars
  BY <1>1 DEF tvars, T!Inv, T!TypeOK, T!AckedWhole, T!CutOnlyUnhashed, T!Flow, T!Sent,
     T!Kept,
        T!Hashed
<1> QED
  BY Zenon, <1>1, TeeKeeps, HandlerKeeps, ChannelKeeps, CollectKeeps DEF T!Next

(***************************************************************************)
(* An upload that is answered with 201 is whole, here and on the other     *)
(* node, and a body that was cut off becomes a blob only with a second     *)
(* copy and no X-CBFS-Hash.                                                *)
(***************************************************************************)
THEOREM UploadsRight == T!Spec => []UploadRight
<1>1. T!Init => T!Inv
  BY Zenon, UploadInit
<1>2. T!Inv /\ [T!Next]_(T!vars) => T!Inv'
  BY Zenon, UploadNext DEF tvars, T!vars
<1>3. T!Inv => UploadRight
  BY Zenon DEF T!Inv, UploadRight
<1> QED
  BY <1>1, <1>2, <1>3, PTL DEF T!Spec

-------------------------------------------------------------------------------
(***************************************************************************)
(* NodeRegistry.                                                           *)
(***************************************************************************)
LEMMA RegistryTypes ==
    /\ Keys \in Nat \ {0} /\ MaxRows \in Nat /\ MaxFaults \in Nat
    /\ Frail \subseteq Node /\ \A r \in SUBSET Node : r # Lost
  BY RegistryAssumption DEF R!KeysAssumption

LEMMA RegistryInit == R!Init => R!Inv
<1> SUFFICES ASSUME R!Init  PROVE R!Inv
  BY Zenon
<1> USE RegistryTypes DEF R!Init, R!Idle
<1>1. R!TypeOK
  BY DEF R!TypeOK, R!Ages, R!Key, R!AtRecord
<1>2. R!UpdateComplete /\ R!OrphansOnlyThere /\ R!PassInv
  BY DEF R!UpdateComplete, R!OrphansOnlyThere, R!PassInv
<1>3. R!RecordInv
  BY DEF R!RecordInv, R!AtRecord
<1> QED
  BY Zenon, <1>1, <1>2, <1>3 DEF R!Inv

(***************************************************************************)
(* The two kinds of a state of updateNodeSizes.                            *)
(***************************************************************************)
LEMMA UpdIs ==
    ASSUME R!TypeOK
    PROVE  \/ upd \in [pc : {0}, view : SUBSET Node, good : BOOLEAN] /\ upd.pc = 0
           \/ /\ upd \in [by : Node, pc : R!Key, view : SUBSET Node, todo : SUBSET Node,
                          node : Node, failed : BOOLEAN]
              /\ upd.pc \in 1..Keys /\ upd.pc # 0
  BY RegistryTypes DEF R!TypeOK, R!Key

LEMMA CleanIs ==
    ASSUME R!TypeOK, NEW c \in Cleaner, clean[c].pc # 0
    PROVE  clean[c] \in [node : Node, by : Node, pc : 1..R!AtRecord]
  BY DEF R!TypeOK, R!Idle

(***************************************************************************)
(* What a step that leaves the pass alone has to show: that it takes a     *)
(* node out of a document only with a note in "removed".                   *)
(***************************************************************************)
LEMMA PassKept ==
    ASSUME R!Inv, upd' = upd,
           \A k \in R!Key, n \in Node : R!Entered(k, n) => R!Entered(k, n)'
    PROVE  R!UpdateComplete' /\ R!PassInv'
<1>1. upd.view \subseteq Node /\ (upd.pc # 0 => upd.node \in Node /\ upd.pc \in 1..Keys)
  BY Zenon, UpdIs DEF R!Inv
<1>2. R!UpdateComplete'
  BY Zenon, <1>1 DEF R!Inv, R!UpdateComplete
<1>3. R!PassInv'
  BY <1>1, RegistryTypes DEF R!Inv, R!PassInv, R!Key
<1> QED
  BY Zenon, <1>2, <1>3

LEMMA EnteredSame ==
    ASSUME UNCHANGED <<reg, removed>>
    PROVE  \A k \in R!Key, n \in Node : R!Entered(k, n) => R!Entered(k, n)'
  BY Zenon DEF R!Entered

LEMMA OthersKept ==
    ASSUME R!Inv, UNCHANGED <<upd, reg, removed>>, R!TypeOK', R!OrphansOnlyThere', R!RecordInv'
    PROVE  R!Inv'
<1>1. R!UpdateComplete' /\ R!PassInv'
  BY Zenon, PassKept, EnteredSame
<1> QED
  BY Zenon, <1>1 DEF R!Inv

LEMMA NodesKeep ==
    ASSUME R!Inv, NEW n \in Node,
           R!Start(n) \/ R!Stop(n) \/ R!Beat(n) \/ R!Age(n) \/ R!Own(n)
    PROVE  R!Inv'
<1> USE RegistryTypes
<1>1. CASE R!Start(n)
  <2>1. R!TypeOK'
    BY Zenon, <1>1 DEF R!Inv, R!TypeOK, R!Start
  <2>2. R!OrphansOnlyThere' /\ R!RecordInv'
    BY Zenon, <1>1 DEF R!Inv, R!OrphansOnlyThere, R!RecordInv, R!Start
  <2>3. UNCHANGED <<upd, reg, removed>>
    BY Zenon, <1>1 DEF R!Start
  <2> QED
    BY Zenon, <2>1, <2>2, <2>3, OthersKept
<1>2. CASE R!Stop(n)
  <2>1. clean' \in [Cleaner -> {R!Idle} \cup [node : Node, by : Node, pc : 1..R!AtRecord]]
    BY Zenon, <1>2 DEF R!Inv, R!TypeOK, R!Stop
  <2>2. /\ \/ upd' = upd
           \/ upd' = [pc |-> 0, view |-> {}, good |-> FALSE]
    BY Zenon, <1>2 DEF R!Stop
  <2>3. R!TypeOK'
    BY Zenon, <1>2, <2>1, <2>2 DEF R!Inv, R!TypeOK, R!Stop
  <2>4. R!OrphansOnlyThere' /\ R!RecordInv'
    BY SMTT(30), <1>2 DEF R!Inv, R!OrphansOnlyThere, R!RecordInv, R!Stop, R!Idle,
       R!AtRecord
  <2>5. R!UpdateComplete' /\ R!PassInv'
    BY Zenon, <1>2, <2>2 DEF R!Inv, R!UpdateComplete, R!PassInv, R!Entered, R!Stop
  <2> QED
    BY Zenon, <2>3, <2>4, <2>5 DEF R!Inv
<1>3. CASE R!Beat(n)
  <2>1. R!TypeOK'
    BY Zenon, <1>3 DEF R!Inv, R!TypeOK, R!Beat, R!Ages
  <2>2. R!OrphansOnlyThere' /\ R!RecordInv'
    BY Zenon, <1>3 DEF R!Inv, R!TypeOK, R!OrphansOnlyThere, R!RecordInv, R!Beat
  <2>3. UNCHANGED <<upd, reg, removed>>
    BY Zenon, <1>3 DEF R!Beat
  <2> QED
    BY Zenon, <2>1, <2>2, <2>3, OthersKept
<1>4. CASE R!Age(n)
  <2>1. R!TypeOK'
    BY Zenon, <1>4 DEF R!Inv, R!TypeOK, R!Age, R!Ages
  <2>2. R!OrphansOnlyThere' /\ R!RecordInv'
    BY Zenon, <1>4 DEF R!Inv, R!TypeOK, R!OrphansOnlyThere, R!RecordInv, R!Age
  <2>3. UNCHANGED <<upd, reg, removed>>
    BY Zenon, <1>4 DEF R!Age
  <2> QED
    BY Zenon, <2>1, <2>2, <2>3, OthersKept
<1>5. CASE R!Own(n)
  <2>1. late \subseteq late' /\ late' \subseteq Node
    <3>1. late' = late \/ late' = late \cup {n}
      BY Zenon, <1>5 DEF R!Own
    <3>2. late \subseteq Node
      BY Zenon DEF R!Inv, R!TypeOK
    <3> QED
      BY Zenon, <3>1, <3>2
  <2>2. /\ rows' \in [Node -> 0..MaxRows] /\ short' \in [Node -> 0..MaxRows]
        /\ \A x \in Node : short'[x] <= rows'[x]
    <3>1. /\ rows' \in [Node -> 0..MaxRows]
          /\ \A x \in Node : x # n => rows'[x] = rows[x]
      BY <1>5 DEF R!Own, R!Inv, R!TypeOK
    <3>2. PICK z \in 0..rows'[n] : short' = [short EXCEPT ![n] = z]
      BY Zenon, <1>5 DEF R!Own
    <3> QED
      BY <3>1, <3>2 DEF R!Inv, R!TypeOK
  <2>3. R!TypeOK'
    <3>1. UNCHANGED <<up, hb, index, reg, clean, upd, faults, removed>>
      BY Zenon, <1>5 DEF R!Own
    <3> QED
      BY Zenon, <2>1, <2>2, <3>1 DEF R!Inv, R!TypeOK
  <2>4. R!OrphansOnlyThere'
    <3> SUFFICES ASSUME NEW x \in Node, rows'[x] > 0, hb[x] = "none"  PROVE x \in late'
      BY Zenon, <1>5 DEF R!OrphansOnlyThere, R!Own
    <3>1. CASE rows[x] > 0
      BY Zenon, <2>1, <3>1 DEF R!Inv, R!OrphansOnlyThere
    <3>2. CASE ~(rows[x] > 0)
      <4>1. x = n /\ rows' # rows
        BY <1>5, <3>2 DEF R!Own, R!Inv, R!TypeOK
      <4>2. ~(rows[n] > 0)
        BY Zenon, <3>2, <4>1
      <4> QED
        BY Zenon, <1>5, <4>1, <4>2 DEF R!Own
    <3> QED
      BY Zenon, <3>1, <3>2
  <2>5. R!RecordInv'
    <3> SUFFICES ASSUME NEW c \in Cleaner, clean'[c].pc = R!AtRecord
                 PROVE  rows'[clean'[c].node] = 0 \/ clean'[c].node \in late'
      BY Zenon DEF R!RecordInv, R!AtRecord
    <3>1. clean' = clean /\ clean[c].pc = R!AtRecord
      BY Zenon, <1>5 DEF R!Own
    <3>2. clean[c].node \in Node
      BY SMTT(30), <3>1, CleanIs DEF R!Inv, R!AtRecord
    <3>3. rows[clean[c].node] = 0 \/ clean[c].node \in late
      BY Zenon, <3>1 DEF R!Inv, R!RecordInv
    <3> QED
      BY SMTT(30), <1>5, <2>1, <3>1, <3>2, <3>3 DEF R!Inv, R!TypeOK, R!Own
  <2>6. UNCHANGED <<upd, reg, removed>>
    BY Zenon, <1>5 DEF R!Own
  <2> QED
    BY Zenon, <2>3, <2>4, <2>5, <2>6, OthersKept
<1> QED
  BY Zenon, <1>1, <1>2, <1>3, <1>4, <1>5

LEMMA LoseKeyKeeps == ASSUME R!Inv, NEW k \in R!Key, R!LoseKey(k)  PROVE R!Inv'
<1> USE RegistryTypes
<1>1. R!TypeOK'
  BY SMTT(30) DEF R!Inv, R!TypeOK, R!LoseKey, R!Fault
<1>2. R!OrphansOnlyThere' /\ R!RecordInv'
  BY Zenon DEF R!Inv, R!OrphansOnlyThere, R!RecordInv, R!LoseKey
<1>3. \A j \in R!Key, n \in Node : R!Entered(j, n) => R!Entered(j, n)'
  BY Zenon DEF R!Inv, R!TypeOK, R!Entered, R!LoseKey
<1>4. R!UpdateComplete' /\ R!PassInv'
  BY Zenon, <1>3, PassKept DEF R!LoseKey
<1> QED
  BY Zenon, <1>1, <1>2, <1>4 DEF R!Inv

\* A pass of updateNodeSizes that has ended, and one that is at a node.
PassRests == [pc : {0}, view : SUBSET Node, good : BOOLEAN]

PassGoesOn ==
    [by : Node, pc : R!Key, view : SUBSET Node, todo : SUBSET Node, node : Node,
     failed : BOOLEAN]

\* The next state of a pass after a node.
Passed(u, view, todo, failed) ==
    \/ /\ u \in PassRests /\ u.pc = 0
       /\ u.good => todo = {} /\ u.view = view /\ ~failed
    \/ u \in PassGoesOn /\ u.pc = 1 /\ u.view = view /\ u.todo = todo /\ ~failed

LEMMA RowsIs ==
    ASSUME NEW m \in Node, NEW view \in SUBSET Node, NEW todo \in SUBSET Node,
           NEW failed \in BOOLEAN
    PROVE  Passed(R!Rows(m, view, todo, failed), view, todo, failed)
<1> USE DEF Passed, PassRests, PassGoesOn
<1>1. CASE todo = {} \/ failed
  BY Zenon, <1>1 DEF R!Rows
<1>2. CASE todo # {} /\ ~failed
  <2>1. PICK n : n = CHOOSE x \in todo : TRUE
    BY Zenon
  <2>2. n \in todo
    BY Zenon, <1>2, <2>1
  <2>3. PICK u : u = [by |-> m, pc |-> 1, view |-> view, todo |-> todo, node |-> n,
                      failed |-> FALSE]
    BY Zenon
  <2>4. R!Rows(m, view, todo, failed) = u
    BY Zenon, <1>2, <2>1, <2>3 DEF R!Rows
  <2>5. u \in PassGoesOn /\ u.pc = 1 /\ u.view = view /\ u.todo = todo
    BY SMTT(30), <2>2, <2>3, RegistryTypes DEF R!Key
  <2> QED
    BY Zenon, <1>2, <2>4, <2>5
<1> QED
  BY Zenon, <1>1, <1>2

LEMMA UpdateNodeSizesKeeps == ASSUME R!Inv, NEW m \in Node, R!UpdateNodeSizes(m)  PROVE R!Inv'
<1>1. PICK view \in {index, R!NodeSize} : upd' = R!Rows(m, view, view, FALSE)
  BY Zenon DEF R!UpdateNodeSizes
<1>2. view \in SUBSET Node /\ R!NodeSize \subseteq Node
  BY Zenon, <1>1 DEF R!NodeSize, R!Inv, R!TypeOK
<1>3. Passed(upd', view, view, FALSE)
  BY Zenon, <1>1, <1>2, RowsIs
<1>4. R!TypeOK'
  BY Zenon, <1>2, <1>3 DEF R!Inv, R!TypeOK, R!UpdateNodeSizes, Passed, PassRests,
     PassGoesOn
<1>5. R!OrphansOnlyThere' /\ R!RecordInv'
  BY Zenon DEF R!Inv, R!OrphansOnlyThere, R!RecordInv, R!UpdateNodeSizes
<1>6. R!UpdateComplete'
  BY <1>3 DEF R!UpdateComplete, Passed
<1>7. R!PassInv'
  BY <1>3 DEF R!PassInv, Passed
<1> QED
  BY Zenon, <1>4, <1>5, <1>6, <1>7 DEF R!Inv

LEMMA SetInNodeRegistryKeeps == ASSUME R!Inv, R!SetInNodeRegistry  PROVE R!Inv'
<1> USE RegistryTypes
<1>0. PICK k, n : k = upd.pc /\ n = upd.node
  BY Zenon
<1>1. /\ upd \in [by : Node, pc : R!Key, view : SUBSET Node, todo : SUBSET Node,
                  node : Node, failed : BOOLEAN]
      /\ k \in 1..Keys /\ k # 0 /\ n \in Node
  BY Zenon, <1>0, UpdIs DEF R!Inv, R!SetInNodeRegistry
<1>2. PICK ok \in BOOLEAN :
         LET failed == upd.failed \/ ~ok IN
         /\ IF ok THEN UNCHANGED faults ELSE R!Fault
         /\ reg' = IF ok THEN [reg EXCEPT ![k] = R!WithNode(@, n)] ELSE reg
         /\ removed' = IF ok THEN removed \ {<<k, n>>} ELSE removed
         /\ upd' = IF k < Keys THEN [upd EXCEPT !.pc = k + 1, !.failed = failed]
                   ELSE R!Rows(upd.by, upd.view, upd.todo \ {n}, failed)
  BY Zenon, <1>0 DEF R!SetInNodeRegistry
<1>3. /\ reg' \in [R!Key -> {Lost} \cup SUBSET Node] /\ removed' \subseteq R!Key \X Node
      /\ faults' \in 0..MaxFaults
  BY <1>1, <1>2 DEF R!Inv, R!TypeOK, R!WithNode, R!Fault, R!Key
<1>4. /\ \A j \in R!Key, x \in Node : R!Entered(j, x) => R!Entered(j, x)'
      /\ ok => R!Entered(k, n)'
  <2>1. CASE ~ok
    BY Zenon, <1>2, <2>1 DEF R!Entered
  <2>2. CASE ok
    <3>1. R!WithNode(reg[k], n) \in SUBSET Node /\ n \in R!WithNode(reg[k], n)
          /\ (reg[k] # Lost => reg[k] \subseteq R!WithNode(reg[k], n))
      BY Zenon, <1>1 DEF R!WithNode, R!Inv, R!TypeOK, R!Key
    <3>2. reg'[k] = R!WithNode(reg[k], n) /\ \A j \in R!Key : j # k => reg'[j] = reg[j]
      BY Zenon, <1>1, <1>2, <2>2 DEF R!Inv, R!TypeOK, R!Key
    <3>3. \A j, x : <<j, x>> \in removed => <<j, x>> \in removed' \/ (j = k /\ x = n)
      BY Zenon, <1>2, <2>2
    <3>4. reg'[k] # Lost /\ R!Entered(k, n)'
      <4>1. reg'[k] # Lost /\ n \in reg'[k]
        BY Zenon, <3>1, <3>2
      <4> QED
        BY Zenon, <4>1 DEF R!Entered
    <3>5. ASSUME NEW j \in R!Key, NEW x \in Node, R!Entered(j, x)  PROVE R!Entered(j, x)'
      <4>1. CASE j # k
        <5>1. reg'[j] = reg[j] /\ (<<j, x>> \in removed => <<j, x>> \in removed')
          BY Zenon, <3>2, <3>3, <4>1
        <5> QED
          BY Zenon, <3>5, <5>1 DEF R!Entered
      <4>2. CASE j = k /\ x = n
        BY Zenon, <3>4, <4>2
      <4>3. CASE j = k /\ x # n
        BY Zenon, <3>1, <3>2, <3>3, <3>4, <3>5, <4>3 DEF R!Entered
      <4> QED
        BY Zenon, <4>1, <4>2, <4>3
    <3> QED
      BY Zenon, <3>4, <3>5
  <2> QED
    BY Zenon, <2>1, <2>2
<1>5. R!OrphansOnlyThere' /\ R!RecordInv'
  BY Zenon DEF R!Inv, R!OrphansOnlyThere, R!RecordInv, R!SetInNodeRegistry
<1>6. ~upd.failed => /\ \A x \in upd.view \ upd.todo, j \in R!Key : R!Entered(j, x)
                     /\ \A j \in 1..(k - 1) : R!Entered(j, n)
  BY Zenon, <1>0, <1>1 DEF R!Inv, R!PassInv
<1>7. CASE k < Keys
  <2>1. /\ upd' = [upd EXCEPT !.pc = k + 1, !.failed = upd.failed \/ ~ok]
        /\ k + 1 \in 1..Keys /\ k + 1 # 0
    BY <1>1, <1>2, <1>7
  <2>2. /\ upd' \in [by : Node, pc : R!Key, view : SUBSET Node, todo : SUBSET Node,
                     node : Node, failed : BOOLEAN]
        /\ upd'.pc = k + 1 /\ upd'.view = upd.view /\ upd'.todo = upd.todo /\ upd'.node = n
        /\ (~upd'.failed => ~upd.failed /\ ok)
    BY Zenon, <1>0, <1>1, <2>1 DEF R!Key
  <2>3. R!TypeOK'
    BY Zenon, <1>3, <2>2 DEF R!Inv, R!TypeOK, R!SetInNodeRegistry
  <2>4. R!UpdateComplete'
    BY Zenon, <2>1, <2>2 DEF R!UpdateComplete
  <2>5. R!PassInv'
    <3>1. ASSUME ~upd'.failed, NEW j \in 1..k  PROVE R!Entered(j, n)'
      <4>1. CASE j = k
        BY Zenon, <1>4, <2>2, <3>1, <4>1
      <4>2. CASE j # k
        <5>1. j \in 1..(k - 1) /\ j \in R!Key
          BY SMTT(30), <1>1, <4>2 DEF R!Key
        <5> QED
          BY Zenon, <1>1, <1>4, <1>6, <2>2, <3>1, <5>1
      <4> QED
        BY Zenon, <4>1, <4>2
    <3>2. ASSUME ~upd'.failed, NEW x \in upd.view \ upd.todo, NEW j \in R!Key
          PROVE  R!Entered(j, x)'
      BY Zenon, <1>1, <1>4, <1>6, <2>2, <3>2
    <3> QED
      BY <1>1, <2>2, <3>1, <3>2 DEF R!PassInv
  <2> QED
    BY Zenon, <1>5, <2>3, <2>4, <2>5 DEF R!Inv
<1>8. CASE k = Keys
  <2>1. upd' = R!Rows(upd.by, upd.view, upd.todo \ {n}, upd.failed \/ ~ok)
    BY <1>2, <1>8
  <2>2. PICK f \in BOOLEAN : f = (upd.failed \/ ~ok)
    BY Zenon
  <2>3. Passed(upd', upd.view, upd.todo \ {n}, f)
    <3>1. /\ upd.by \in Node /\ upd.view \in SUBSET Node /\ upd.todo \ {n} \in SUBSET Node
          /\ upd' = R!Rows(upd.by, upd.view, upd.todo \ {n}, f)
      BY Zenon, <1>1, <2>1, <2>2
    <3> QED
      BY <3>1, RowsIs
  <2>4. R!TypeOK'
    BY Zenon, <1>3, <2>3 DEF R!Inv, R!TypeOK, R!SetInNodeRegistry, Passed, PassRests,
       PassGoesOn
  <2>5. ASSUME ~f, NEW x \in upd.view \ (upd.todo \ {n}), NEW j \in R!Key
        PROVE  R!Entered(j, x)'
    <3>1. x \in Node /\ ok /\ ~upd.failed
      BY Zenon, <1>1, <2>2, <2>5
    <3>2. CASE x # n
      BY Zenon, <1>4, <1>6, <3>1, <3>2, <2>5
    <3>3. CASE x = n /\ j = k
      BY Zenon, <1>4, <3>1, <3>3
    <3>4. CASE x = n /\ j # k
      <4>1. j \in 1..(k - 1)
        BY SMTT(30), <1>1, <1>8, <3>4 DEF R!Key
      <4> QED
        BY Zenon, <1>4, <1>6, <3>1, <3>4, <4>1
    <3> QED
      BY Zenon, <3>2, <3>3, <3>4
  <2>6. R!UpdateComplete'
    BY <2>3, <2>5 DEF R!UpdateComplete, Passed
  <2>7. R!PassInv'
    BY SMTT(30), <2>3, <2>5 DEF R!PassInv, Passed
  <2> QED
    BY Zenon, <1>5, <2>4, <2>6, <2>7 DEF R!Inv
<1> QED
  BY <1>1, <1>7, <1>8

LEMMA CheckStaleNodesKeeps ==
    ASSUME R!Inv, NEW m \in Node, NEW n \in Node, NEW c \in Cleaner, R!CheckStaleNodes(m, n, c)
    PROVE  R!Inv'
<1> USE RegistryTypes DEF R!CheckStaleNodes, R!CheckIf
<1>1. [node |-> n, by |-> m, pc |-> R!AtView] \in [node : Node, by : Node, pc : 1..R!AtRecord]
  BY SMTT(30) DEF R!AtView, R!AtRecord
<1>2. R!TypeOK'
  BY Zenon, <1>1 DEF R!Inv, R!TypeOK
<1>3. R!OrphansOnlyThere'
  BY Zenon DEF R!Inv, R!OrphansOnlyThere
<1>4. R!RecordInv'
  BY DEF R!Inv, R!TypeOK, R!RecordInv, R!AtView, R!AtRecord
<1> QED
  BY Zenon, <1>2, <1>3, <1>4, PassKept, EnteredSame DEF R!Inv

LEMMA CleanupNodeKeeps == ASSUME R!Inv, NEW c \in Cleaner, R!CleanupNode(c)  PROVE R!Inv'
<1> USE RegistryTypes
<1> DEFINE n == clean[c].node
<1>1. clean[c] \in [node : Node, by : Node, pc : 1..R!AtRecord] /\ n \in Node
  BY CleanIs DEF R!Inv, R!CleanupNode, R!CleanupIf, R!AtView
<1>2. \/ clean' = [clean EXCEPT ![c] = R!Idle]
      \/ clean' = [clean EXCEPT ![c].pc = R!AtRecord] /\ rows[n] = 0 /\ rows' = rows
  BY Zenon DEF R!CleanupNode, R!CleanupIf
<1>3. rows' = rows \/ \E r \in R!Left(n) : rows' = [rows EXCEPT ![n] = r]
  BY Zenon DEF R!CleanupNode, R!CleanupIf
<1>4. /\ rows' \in [Node -> 0..MaxRows]
      /\ \A x \in Node : rows'[x] <= rows[x] /\ short[x] <= rows'[x]
  <2>1. /\ rows \in [Node -> 0..MaxRows] /\ short \in [Node -> 0..MaxRows]
        /\ \A x \in Node : short[x] <= rows[x]
    BY Zenon DEF R!Inv, R!TypeOK
  <2>2. \A r \in R!Left(n) : r \in 0..MaxRows /\ r <= rows[n] /\ short[n] <= r
    BY <1>1, <2>1 DEF R!Left
  <2> QED
    BY <1>1, <1>3, <2>1, <2>2
<1>5. clean' \in [Cleaner -> {R!Idle} \cup [node : Node, by : Node, pc : 1..R!AtRecord]]
  BY SMTT(30), <1>1, <1>2 DEF R!Inv, R!TypeOK, R!AtRecord
<1>6. R!TypeOK'
  <2>1. UNCHANGED <<up, hb, short, index, reg, upd, removed, late>>
    BY Zenon DEF R!CleanupNode, R!CleanupIf
  <2>2. faults' = faults \/ R!Fault
    BY Zenon DEF R!CleanupNode, R!CleanupIf
  <2>3. faults' \in 0..MaxFaults
    BY <2>2 DEF R!Inv, R!TypeOK, R!Fault
  <2> QED
    BY Zenon, <1>4, <1>5, <2>1, <2>3 DEF R!Inv, R!TypeOK
<1>7. R!OrphansOnlyThere'
  BY SMTT(30), <1>4 DEF R!Inv, R!TypeOK, R!OrphansOnlyThere, R!CleanupNode, R!CleanupIf
<1>8. R!RecordInv'
  <2> SUFFICES ASSUME NEW d \in Cleaner, clean'[d].pc = R!AtRecord
               PROVE  rows'[clean'[d].node] = 0 \/ clean'[d].node \in late'
    BY Zenon DEF R!RecordInv, R!AtRecord
  <2>1. late' = late /\ R!AtRecord # 0
    BY DEF R!CleanupNode, R!CleanupIf, R!AtRecord
  <2>2. CASE d = c
    BY SMTT(30), <1>1, <1>2, <2>1, <2>2 DEF R!Inv, R!TypeOK, R!Idle
  <2>3. CASE d # c
    <3>1. clean'[d] = clean[d]
      BY Zenon, <1>2, <2>3 DEF R!Inv, R!TypeOK
    <3>2. clean[d].node \in Node
      BY Zenon, <2>1, <3>1, CleanIs DEF R!Inv
    <3> QED
      BY SMTT(30), <1>4, <2>1, <3>1, <3>2 DEF R!Inv, R!TypeOK, R!RecordInv
  <2> QED
    BY Zenon, <2>2, <2>3
<1> QED
  BY Zenon, <1>6, <1>7, <1>8, PassKept, EnteredSame DEF R!Inv, R!CleanupNode, R!CleanupIf

LEMMA DeleteRecordKeeps == ASSUME R!Inv, NEW c \in Cleaner, R!DeleteRecord(c)  PROVE R!Inv'
<1> USE RegistryTypes
<1> DEFINE n == clean[c].node
<1>1. clean[c] \in [node : Node, by : Node, pc : 1..R!AtRecord] /\ n \in Node
  BY CleanIs DEF R!Inv, R!DeleteRecord, R!AtRecord
<1>2. clean' \in [Cleaner -> {R!Idle} \cup [node : Node, by : Node, pc : 1..R!AtRecord]]
  BY <1>1 DEF R!Inv, R!TypeOK, R!DeleteRecord, R!AtRecord
<1>3. R!TypeOK'
  BY <1>1, <1>2 DEF R!Inv, R!TypeOK, R!DeleteRecord, R!Fault, R!Ages
<1>4. R!OrphansOnlyThere'
  BY <1>1 DEF R!Inv, R!TypeOK, R!OrphansOnlyThere, R!RecordInv, R!DeleteRecord
<1>5. R!RecordInv'
  BY Zenon, <1>1 DEF R!Inv, R!TypeOK, R!RecordInv, R!DeleteRecord, R!AtRecord
<1>6. UNCHANGED <<upd, reg, removed>>
  BY Zenon DEF R!DeleteRecord
<1> QED
  BY Zenon, <1>3, <1>4, <1>5, <1>6, OthersKept

LEMMA RemoveKeeps == ASSUME R!Inv, NEW c \in Cleaner, R!RemoveFromNodeRegistry(c)  PROVE R!Inv'
<1> USE RegistryTypes
<1> DEFINE k == clean[c].pc
           n == clean[c].node
<1>1. clean[c] \in [node : Node, by : Node, pc : 1..R!AtRecord] /\ n \in Node /\ k \in R!Key
  BY CleanIs DEF R!Inv, R!RemoveFromNodeRegistry, R!Key
<1>2. clean' = [clean EXCEPT ![c] = IF k < Keys THEN [clean[c] EXCEPT !.pc = k + 1] ELSE R!Idle]
  BY Zenon DEF R!RemoveFromNodeRegistry, R!Inv, R!TypeOK
<1>3. \/ /\ reg[k] # Lost /\ reg' = [reg EXCEPT ![k] = reg[k] \ {n}]
         /\ removed' = removed \cup {<<k, n>>} /\ faults' = faults
      \/ UNCHANGED <<reg, removed>> /\ (faults' = faults \/ R!Fault)
  BY Zenon DEF R!RemoveFromNodeRegistry
<1>4. clean' \in [Cleaner -> {R!Idle} \cup [node : Node, by : Node, pc : 1..R!AtRecord]]
      /\ \A d \in Cleaner : clean'[d].pc = R!AtRecord => clean'[d] = clean[d]
  <2>1. CASE k < Keys
    <3>1. PICK e : e = [clean[c] EXCEPT !.pc = k + 1]
      BY Zenon
    <3>2. e \in [node : Node, by : Node, pc : 1..R!AtRecord] /\ e.pc = k + 1 /\ k + 1 # R!AtRecord
      BY <1>1, <2>1, <3>1 DEF R!AtRecord, R!Key
    <3>3. clean' = [clean EXCEPT ![c] = e]
      BY Zenon, <1>2, <2>1, <3>1
    <3> QED
      BY Zenon, <3>2, <3>3 DEF R!Inv, R!TypeOK
  <2>2. CASE ~(k < Keys)
    BY SMTT(30), <1>1, <1>2, <2>2 DEF R!Inv, R!TypeOK, R!AtRecord, R!Key, R!Idle
  <2> QED
    BY Zenon, <2>1, <2>2
<1>5. reg' \in [R!Key -> {Lost} \cup SUBSET Node] /\ removed' \subseteq R!Key \X Node
      /\ faults' \in 0..MaxFaults
  <2>1. /\ reg \in [R!Key -> {Lost} \cup SUBSET Node] /\ removed \subseteq R!Key \X Node
        /\ faults \in 0..MaxFaults
    BY Zenon DEF R!Inv, R!TypeOK
  <2>2. reg' \in [R!Key -> {Lost} \cup SUBSET Node]
    BY Zenon, <1>1, <1>3, <2>1
  <2>3. removed' \subseteq R!Key \X Node
    BY <1>1, <1>3, <2>1
  <2>4. faults' \in 0..MaxFaults
    BY <1>3, <2>1 DEF R!Fault
  <2> QED
    BY Zenon, <2>2, <2>3, <2>4
<1>6. R!TypeOK'
  BY Zenon, <1>4, <1>5 DEF R!Inv, R!TypeOK, R!RemoveFromNodeRegistry
<1>7. R!OrphansOnlyThere' /\ R!RecordInv'
  <2>1. UNCHANGED <<hb, rows, late>>
    BY Zenon DEF R!RemoveFromNodeRegistry
  <2>2. R!OrphansOnlyThere'
    BY Zenon, <2>1 DEF R!Inv, R!OrphansOnlyThere
  <2>3. ASSUME NEW d \in Cleaner, clean'[d].pc = R!AtRecord
        PROVE  rows'[clean'[d].node] = 0 \/ clean'[d].node \in late'
    BY Zenon, <1>4, <2>1, <2>3 DEF R!Inv, R!RecordInv
  <2> QED
    BY Zenon, <2>2, <2>3 DEF R!RecordInv, R!AtRecord
<1>8. \A j \in R!Key, x \in Node : R!Entered(j, x) => R!Entered(j, x)'
  <2>1. CASE UNCHANGED <<reg, removed>>
    BY Zenon, <2>1, EnteredSame
  <2>2. CASE /\ reg[k] # Lost /\ reg' = [reg EXCEPT ![k] = reg[k] \ {n}]
             /\ removed' = removed \cup {<<k, n>>}
    <3>1. reg'[k] = reg[k] \ {n} /\ reg'[k] # Lost /\ \A j \in R!Key : j # k => reg'[j] = reg[j]
      BY Zenon, <1>1, <2>2 DEF R!Inv, R!TypeOK
    <3> QED
      BY Zenon, <2>2, <3>1 DEF R!Entered
  <2> QED
    BY Zenon, <1>3, <2>1, <2>2
<1> QED
  BY Zenon, <1>6, <1>7, <1>8, PassKept DEF R!Inv, R!RemoveFromNodeRegistry

\* Every step of the registry keeps its invariant.
LEMMA RegistryNext == R!Inv /\ [R!Next]_rvars => R!Inv'
<1> SUFFICES ASSUME R!Inv, [R!Next]_rvars  PROVE R!Inv'
  BY Zenon
<1>1. CASE UNCHANGED rvars
  <2>1. R!TypeOK' /\ R!OrphansOnlyThere' /\ R!RecordInv'
    BY Zenon, <1>1 DEF rvars, R!Inv, R!TypeOK, R!OrphansOnlyThere, R!RecordInv
  <2>2. UNCHANGED <<upd, reg, removed>>
    BY Zenon, <1>1 DEF rvars
  <2> QED
    BY Zenon, <2>1, <2>2, OthersKept
<1>2. CASE R!Next
  BY Zenon, <1>2, NodesKeep, LoseKeyKeeps, UpdateNodeSizesKeeps, SetInNodeRegistryKeeps,
     CheckStaleNodesKeeps, CleanupNodeKeeps, DeleteRecordKeeps, RemoveKeeps
     DEF R!Next, R!Cleans
<1> QED
  BY Zenon, <1>1, <1>2

(***************************************************************************)
(* A pass of updateNodeSizes that ends well has every node of its view in  *)
(* every registry document, and registrations that no cleanup sees are     *)
(* left only by blobs registered before the node's first heartbeat or      *)
(* while a cleanup was about to delete its record.                         *)
(***************************************************************************)
THEOREM RegistryKept == R!Spec => []RegistryRight
<1>1. R!Init => R!Inv
  BY Zenon, RegistryInit
<1>2. R!Inv /\ [R!Next]_(R!vars) => R!Inv'
  BY Zenon, RegistryNext DEF rvars, R!vars
<1>3. R!Inv => RegistryRight
  BY Zenon DEF R!Inv, RegistryRight
<1> QED
  BY <1>1, <1>2, <1>3, PTL DEF R!Spec

===============================================================================
