----------------------------- MODULE ClientProofs -----------------------------
(***************************************************************************)
(* Proofs about an application that reads a file and about the download of *)
(* a directory, for any nodes, lengths and buffers, and for any names,     *)
(* blobs and earlier downloads.                                            *)
(***************************************************************************)
EXTENDS ReadPart, TLAPS

-------------------------------------------------------------------------------
(***************************************************************************)
(* FileHandle.  What is between two positions, as a sequence.              *)
(***************************************************************************)
LEMMA HandleTypes == MaxLength \in Nat /\ Buf \subseteq Nat /\ HandleFaults \in Nat
  BY Zenon, ReadAssumption DEF H!HandleAssumption

\* A sequence is its length and its members.
LEMMA SeqIs ==
    ASSUME NEW S, NEW s \in Seq(S), NEW t \in Seq(S), Len(s) = Len(t),
           \A i \in 1..Len(s) : s[i] = t[i]
    PROVE  s = t
  OBVIOUS

LEMMA BytesIs ==
    ASSUME NEW x \in Nat, NEW y \in Nat, x <= y
    PROVE  /\ H!Bytes(x, y) \in Seq(Nat) /\ Len(H!Bytes(x, y)) = y - x
           /\ \A i \in 1..(y - x) : H!Bytes(x, y)[i] = x + i - 1
<1>1. PICK n \in Nat : n = y - x /\ n = IF x < y THEN y - x ELSE 0
  OBVIOUS
<1>2. H!Bytes(x, y) = [i \in 1..n |-> x + i - 1]
  BY Zenon, <1>1 DEF H!Bytes
<1> QED
  BY <1>1, <1>2

LEMMA BytesFrom ==
    ASSUME NEW x \in Nat, NEW k \in Nat
    PROVE  /\ H!Bytes(x, x + k) \in Seq(Nat) /\ Len(H!Bytes(x, x + k)) = k
           /\ \A i \in 1..k : H!Bytes(x, x + k)[i] = x + i - 1
<1>1. PICK y \in Nat : y = x + k /\ x <= y /\ y - x = k
  OBVIOUS
<1> QED
  BY <1>1, BytesIs

LEMMA BytesEmpty == ASSUME NEW x \in Nat  PROVE H!Bytes(x, x) = <<>>
<1>1. H!Bytes(x, x) \in Seq(Nat) /\ Len(H!Bytes(x, x)) = 0
  BY BytesIs
<1> QED
  BY <1>1

LEMMA CatLen ==
    ASSUME NEW s \in Seq(Nat), NEW t \in Seq(Nat)
    PROVE  s \o t \in Seq(Nat) /\ Len(s \o t) = Len(s) + Len(t)
  OBVIOUS

\* What follows is put behind.
LEMMA BytesCat ==
    ASSUME NEW x \in Nat, NEW y \in Nat, NEW z \in Nat, x <= y, y <= z
    PROVE  H!Bytes(x, y) \o H!Bytes(y, z) = H!Bytes(x, z)
<1>1. PICK s : s = H!Bytes(x, y)
  BY Zenon
<1>2. PICK t : t = H!Bytes(y, z)
  BY Zenon
<1>3. PICK u : u = H!Bytes(x, z)
  BY Zenon
<1>4. s \in Seq(Nat) /\ Len(s) = y - x /\ \A i \in 1..(y - x) : s[i] = x + i - 1
  BY Zenon, <1>1, BytesIs
<1>5. t \in Seq(Nat) /\ Len(t) = z - y /\ \A i \in 1..(z - y) : t[i] = y + i - 1
  BY Zenon, <1>2, BytesIs
<1>6. x <= z
  OBVIOUS
<1>7. u \in Seq(Nat) /\ Len(u) = z - x /\ \A i \in 1..(z - x) : u[i] = x + i - 1
  BY Zenon, <1>3, <1>6, BytesIs
<1>8. PICK w : w = s \o t
  BY Zenon
<1>9. w \in Seq(Nat) /\ Len(w) = z - x
  <2>1. s \in Seq(Nat) /\ t \in Seq(Nat) /\ Len(s) = y - x /\ Len(t) = z - y
    BY Zenon, <1>4, <1>5
  <2>2. s \o t \in Seq(Nat) /\ Len(s \o t) = Len(s) + Len(t)
    BY Zenon, <2>1, CatLen
  <2>3. (y - x) + (z - y) = z - x
    OBVIOUS
  <2> QED
    BY Zenon, <1>8, <2>1, <2>2, <2>3
<1>10. ASSUME NEW i \in 1..(z - x) PROVE w[i] = u[i]
  <2>1. u[i] = x + i - 1
    BY Zenon, <1>7
  <2>2. CASE i <= y - x
    <3>1. w[i] = s[i] /\ i \in 1..(y - x)
      BY <1>4, <1>5, <1>8, <2>2
    <3> QED
      BY Zenon, <1>4, <2>1, <3>1
  <2>3. CASE i > y - x
    <3>1. PICK j \in 1..(z - y) : j = i - (y - x)
      BY <2>3
    <3>2. w[i] = t[j]
      BY <1>4, <1>5, <1>8, <2>3, <3>1
    <3>3. t[j] = y + j - 1
      BY Zenon, <1>5
    <3> QED
      BY <2>1, <3>1, <3>2, <3>3
  <2> QED
    BY <2>2, <2>3
<1>11. w = u
  BY Zenon, <1>7, <1>9, <1>10, SeqIs
<1> QED
  BY Zenon, <1>1, <1>2, <1>3, <1>8, <1>11

\* A body that is cut.
LEMMA BytesSub ==
    ASSUME NEW x \in Nat, NEW y \in Nat, x <= y, NEW k \in 0..(y - x)
    PROVE  SubSeq(H!Bytes(x, y), 1, k) = H!Bytes(x, x + k)
<1>1. PICK s : s = H!Bytes(x, y)
  BY Zenon
<1>2. PICK t : t = H!Bytes(x, x + k)
  BY Zenon
<1>3. s \in Seq(Nat) /\ Len(s) = y - x /\ \A i \in 1..(y - x) : s[i] = x + i - 1
  BY Zenon, <1>1, BytesIs
<1>4. k \in Nat
  OBVIOUS
<1>5. t \in Seq(Nat) /\ Len(t) = k /\ \A i \in 1..k : t[i] = x + i - 1
  BY Zenon, <1>2, <1>4, BytesFrom
<1>6. PICK w : w = SubSeq(s, 1, k)
  BY Zenon
<1>7. w \in Seq(Nat) /\ Len(w) = k /\ \A i \in 1..k : w[i] = s[i] /\ i \in 1..(y - x)
  BY <1>3, <1>4, <1>6
<1>8. \A i \in 1..k : w[i] = t[i]
  BY Zenon, <1>3, <1>5, <1>7
<1>9. w = t
  BY Zenon, <1>5, <1>7, <1>8, SeqIs
<1> QED
  BY Zenon, <1>1, <1>2, <1>6, <1>9

(***************************************************************************)
(* What a call gives: k bytes from its position on, which is that of the   *)
(* handle unless the call is ReadAt.                                       *)
(***************************************************************************)
Gives(call, at, w, err, k) ==
    /\ H!Ended(call, at, w, H!Bytes(at, at + k), err)
    /\ call = "ReadAt" \/ (call \in {"Read", "WriteTo"} /\ at = off /\ off + k <= length)

LEMMA GivesExact ==
    ASSUME H!Inv, NEW call, NEW at \in Nat, NEW w, NEW err \in H!Errs, NEW k \in Nat,
           Gives(call, at, w, err, k), start' = start
    PROVE  /\ H!ReadsExact' /\ off' \in 0..length
           /\ last' = H!Result(call, at, w, H!Bytes(at, at + k), err)
<1>1. PICK d : d = H!Bytes(at, at + k)
  BY Zenon
<1>2. Len(d) = k
  BY Zenon, <1>1, BytesFrom
<1>3. /\ off \in Nat /\ start \in Nat /\ length \in Nat /\ off \in 0..length
      /\ got = H!Bytes(start, off)
  BY HandleTypes DEF H!Inv, H!TypeOK, H!ReadsExact
<1>4. start <= off
  BY Zenon DEF H!Inv, H!NodesInv
<1>5. last' = H!Result(call, at, w, d, err)
  BY Zenon, <1>1 DEF Gives, H!Ended, H!EndedAt
<1>6. last'.data = d /\ last'.at = at
  BY Zenon, <1>5 DEF H!Result
<1>7. CASE call = "ReadAt"
  <2>1. off' = off /\ got' = got
    BY Zenon, <1>7 DEF Gives, H!Ended, H!EndedAt
  <2> QED
    BY Zenon, <1>1, <1>2, <1>3, <1>5, <1>6, <2>1 DEF H!ReadsExact
<1>8. CASE call # "ReadAt"
  <2>1. at = off /\ off + k <= length /\ off' = off + k /\ got' = got \o d
    BY Zenon, <1>1, <1>2, <1>8 DEF Gives, H!Ended, H!EndedAt
  <2>2. got' = H!Bytes(start, off + k)
    <3>1. PICK z \in Nat : z = off + k /\ start <= off /\ off <= z
      BY <1>3, <1>4
    <3>2. H!Bytes(start, off) \o H!Bytes(off, z) = H!Bytes(start, z)
      BY Zenon, <1>3, <3>1, BytesCat
    <3> QED
      BY Zenon, <1>1, <1>3, <1>4, <2>1, <3>1, <3>2
  <2>3. last'.call # "ReadAt"
    BY Zenon, <1>5, <1>8 DEF H!Result
  <2> QED
    BY <1>1, <1>3, <1>5, <2>1, <2>2, <2>3 DEF H!ReadsExact
<1> QED
  BY Zenon, <1>7, <1>8

(***************************************************************************)
(* A call that has ended, in any of its ways.                              *)
(***************************************************************************)
Refusable(call, at, w) ==
    \/ has # nodes
    \/ call = "WriteTo" /\ at > 0
    \/ call # "WriteTo" /\ (w = 0 \/ at >= length)
    \/ whole = 206 /\ at = 0 /\ w >= length

Asked == calls' = calls /\ length' = length /\ nodes' = nodes /\ whole' = whole
         /\ has' = has /\ cluster' = cluster /\ start' = start /\ early' = early

ListRight ==
    /\ listed' \subseteq Node /\ cached' \in BOOLEAN /\ unlisted' \in BOOLEAN
    /\ cached' /\ ~unlisted' /\ ~early => cluster \subseteq listed'
    /\ unlisted' \/ early => cached'

LEMMA ListedRight == H!Inv /\ H!NodesListed => ListRight
  BY DEF H!Inv, H!TypeOK, H!NodesInv, H!NodesListed, H!Known, ListRight

LEMMA CallKept ==
    ASSUME H!Inv, Asked, ListRight, hfaults' \in 0..HandleFaults,
           NEW call, NEW at \in Nat, NEW w, NEW err \in H!Errs, NEW k \in Nat,
           Gives(call, at, w, err, k),
           err = "panic" => \/ nodes = {} \/ unlisted' \/ nodes \cap cluster = {}
                            \/ early /\ nodes \cap listed' = {},
           err = "status" => Refusable(call, at, w)
    PROVE  H!Inv'
<1>1. /\ H!ReadsExact' /\ off' \in 0..length
      /\ last' = H!Result(call, at, w, H!Bytes(at, at + k), err)
  BY Zenon, GivesExact DEF Asked
<1>2. /\ last'.err = err /\ last'.call = call /\ last'.at = at /\ last'.want = w
  BY Zenon, <1>1 DEF H!Result
<1>3. H!TypeOK'
  <2>1. /\ calls' \in Uses /\ length' \in 0..MaxLength /\ nodes' \subseteq Node
        /\ whole' \in {200, 206} /\ start' \in 0..length' /\ has' \subseteq cluster'
        /\ cluster' \subseteq Node /\ early' \in BOOLEAN
    BY Zenon DEF H!Inv, H!TypeOK, Asked
  <2>2. listed' \subseteq Node /\ cached' \in BOOLEAN /\ unlisted' \in BOOLEAN
    BY Zenon DEF ListRight
  <2>3. off' \in 0..length'
    BY Zenon, <1>1 DEF Asked
  <2> QED
    BY Zenon, <1>2, <2>1, <2>2, <2>3 DEF H!TypeOK
<1>4. H!PanicsOnlyThere'
  BY Zenon, <1>2 DEF H!PanicsOnlyThere, H!Dead, Asked
<1>5. H!RefusedOnlyThere'
  BY Zenon, <1>2 DEF H!RefusedOnlyThere, Refusable, Asked
<1>6. H!NodesInv'
  <2>1. start' <= off'
    <3>1. CASE call = "ReadAt"
      <4>1. off' = off
        BY Zenon, <3>1 DEF Gives, H!Ended, H!EndedAt
      <4> QED
        BY Zenon, <4>1 DEF H!Inv, H!NodesInv, Asked
    <3>2. CASE call # "ReadAt"
      <4>1. PICK d : d = H!Bytes(at, at + k)
        BY Zenon
      <4>2. Len(d) = k
        BY Zenon, <4>1, BytesFrom
      <4>3. off' = off + k
        BY Zenon, <3>2, <4>1, <4>2 DEF Gives, H!Ended, H!EndedAt
      <4>4. off \in Nat /\ start \in Nat
        BY HandleTypes DEF H!Inv, H!TypeOK
      <4> QED
        BY <4>3, <4>4 DEF H!Inv, H!NodesInv, Asked
    <3> QED
      BY Zenon, <3>1, <3>2
  <2>2. has' \subseteq nodes'
    BY Zenon DEF H!Inv, H!NodesInv, Asked
  <2> QED
    BY Zenon, <2>1, <2>2 DEF H!NodesInv, ListRight, Asked
<1> QED
  BY Zenon, <1>1, <1>3, <1>4, <1>5, <1>6 DEF H!Inv

\* The list cannot be had, or it has none of the handle's nodes.
LEMMA UnlistedKept ==
    ASSUME H!Inv, Asked, NEW call, NEW at \in Nat,
           call = "ReadAt" \/ (call \in {"Read", "WriteTo"} /\ at = off),
           H!NodesFail(call, at) \/ (H!NodesListed /\ H!NoNode(call, at))
    PROVE  H!Inv'
<1>1. PICK z \in Nat : z = 0
  BY Zenon
<1>2. H!Bytes(at, at + z) = <<>>
  BY <1>1, BytesEmpty
<1>3. off \in Nat /\ length \in Nat /\ off + z <= length /\ hfaults \in 0..HandleFaults
  BY <1>1, HandleTypes DEF H!Inv, H!TypeOK
<1>4. CASE H!NodesFail(call, at)
  <2>1. Gives(call, at, 0, "call", z)
    BY Zenon, <1>2, <1>3, <1>4 DEF H!NodesFail, Gives
  <2>2. hfaults' \in 0..HandleFaults
    BY <1>3, <1>4, HandleTypes DEF H!NodesFail
  <2>3. ListRight
    BY Zenon, <1>4 DEF H!NodesFail, ListRight
  <2>4. "call" \in H!Errs /\ "call" # "panic" /\ "call" # "status"
    BY Zenon DEF H!Errs
  <2> QED
    BY Zenon, <1>1, <2>1, <2>2, <2>3, <2>4, CallKept
<1>5. CASE H!NodesListed /\ H!NoNode(call, at)
  <2>1. Gives(call, at, 0, "panic", z)
    BY Zenon, <1>2, <1>3, <1>5 DEF H!NoNode, Gives
  <2>2. hfaults' \in 0..HandleFaults
    BY Zenon, <1>3, <1>5 DEF H!NoNode
  <2>3. ListRight
    BY Zenon, <1>5, ListedRight
  <2>4. \/ nodes = {} \/ unlisted' \/ nodes \cap cluster = {}
        \/ early /\ nodes \cap listed' = {}
    BY Zenon, <1>5 DEF H!NodesListed, H!NoNode, H!Known, H!Inv, H!NodesInv
  <2>5. "panic" \in H!Errs /\ "panic" # "status"
    BY Zenon DEF H!Errs
  <2> QED
    BY Zenon, <1>1, <2>1, <2>2, <2>3, <2>4, <2>5, CallKept
<1> QED
  BY Zenon, <1>4, <1>5

\* One of the nodes is asked for a range.
LEMMA RangeKept ==
    ASSUME H!Inv, Asked, H!NodesListed, NEW call, NEW at \in Nat, NEW w \in Nat, NEW n \in nodes,
           call = "ReadAt" \/ (call = "Read" /\ at = off),
           H!AskRange(n, call, at, w)
    PROVE  H!Inv'
<1>1. /\ length \in Nat /\ off \in Nat /\ off <= length /\ hfaults \in 0..HandleFaults
      /\ whole \in {200, 206}
  BY HandleTypes DEF H!Inv, H!TypeOK
<1>2. PICK end \in Nat : end = IF at + w >= length THEN length ELSE at + w
  BY <1>1
<1>3. PICK z \in Nat : z = 0
  BY Zenon
<1>4. H!Bytes(at, at + z) = <<>>
  BY <1>3, BytesEmpty
<1>5. ListRight
  BY Zenon, ListedRight
<1>6. call = "ReadAt" \/ (call \in {"Read", "WriteTo"} /\ at = off /\ off + z <= length)
  BY <1>1, <1>3
<1>7. CASE /\ hfaults < HandleFaults /\ hfaults' = hfaults + 1
           /\ H!Ended(call, at, w, <<>>, "call")
  <2>1. Gives(call, at, w, "call", z)
    BY Zenon, <1>4, <1>6, <1>7 DEF Gives
  <2>2. hfaults' \in 0..HandleFaults
    BY <1>1, <1>7, HandleTypes
  <2>3. "call" \in H!Errs /\ "call" # "panic" /\ "call" # "status"
    BY Zenon DEF H!Errs
  <2> QED
    BY Zenon, <1>3, <1>5, <2>1, <2>2, <2>3, CallKept
<1>8. CASE /\ H!Status(n, TRUE, at, end) # H!Exp(at, end)
           /\ H!Ended(call, at, w, <<>>, "status") /\ hfaults' = hfaults
  <2>1. Gives(call, at, w, "status", z)
    BY Zenon, <1>4, <1>6, <1>8 DEF Gives
  <2>2. Refusable(call, at, w)
    <3>1. SUFFICES ASSUME has = nodes, w # 0, at < length  PROVE Refusable(call, at, w)
      BY <1>1 DEF Refusable
    <3>2. n \in has /\ at < end
      BY <1>1, <1>2, <3>1
    <3>3. at = 0 /\ end = length /\ whole = 206
      BY <1>1, <1>8, <3>2 DEF H!Status, H!Exp
    <3> QED
      BY <1>1, <1>2, <3>3 DEF Refusable
  <2>3. "status" \in H!Errs /\ "panic" # "status"
    BY Zenon DEF H!Errs
  <2> QED
    BY Zenon, <1>1, <1>3, <1>5, <1>8, <2>1, <2>2, <2>3, CallKept
<1>9. CASE /\ H!Status(n, TRUE, at, end) = H!Exp(at, end)
           /\ H!FullOf(call, at, w, H!Bytes(at, end))
  <2>1. at < end
    BY <1>1, <1>9 DEF H!Status, H!Exp
  <2>2. PICK k \in Nat : k = end - at
    BY <2>1
  <2>3. PICK d : d = H!Bytes(at, end)
    BY Zenon
  <2>4. d = H!Bytes(at, at + k) /\ Len(d) = k
    <3>1. end = at + k /\ at \in Nat /\ k \in Nat
      BY <2>1, <2>2
    <3>2. Len(H!Bytes(at, at + k)) = k
      BY Zenon, <3>1, BytesFrom
    <3> QED
      BY Zenon, <2>3, <3>1, <3>2
  <2>5. PICK err : err = IF Len(d) < w THEN "EOF" ELSE "none"
    BY Zenon
  <2>6. err \in H!Errs /\ err # "panic" /\ err # "status"
    BY Zenon, <2>5 DEF H!Errs
  <2>7. CASE H!Ended(call, at, w, d, err) /\ hfaults' = hfaults
    <3>1. call = "ReadAt" \/ (call \in {"Read", "WriteTo"} /\ at = off /\ off + k <= length)
      BY <1>1, <1>2, <2>2
    <3>2. Gives(call, at, w, err, k)
      BY Zenon, <2>4, <2>7, <3>1 DEF Gives
    <3> QED
      BY Zenon, <1>1, <1>5, <2>6, <2>7, <3>2, CallKept
  <2>8. CASE \E j \in 0..(Len(d) - 1) :
               /\ hfaults < HandleFaults /\ hfaults' = hfaults + 1
               /\ H!Ended(call, at, w, SubSeq(d, 1, j), "EOF")
    <3>1. PICK j \in 0..(Len(d) - 1) :
             /\ hfaults < HandleFaults /\ hfaults' = hfaults + 1
             /\ H!Ended(call, at, w, SubSeq(d, 1, j), "EOF")
      BY Zenon, <2>8
    <3>2. j \in Nat /\ j < k /\ j \in 0..(end - at) /\ at <= end
      BY <2>1, <2>2, <2>4, <3>1
    <3>3. SubSeq(d, 1, j) = H!Bytes(at, at + j)
      BY Zenon, <2>3, <3>2, BytesSub
    <3>4. call = "ReadAt" \/ (call \in {"Read", "WriteTo"} /\ at = off /\ off + j <= length)
      BY <1>1, <1>2, <2>2, <3>2
    <3>5. Gives(call, at, w, "EOF", j)
      BY Zenon, <3>1, <3>3, <3>4 DEF Gives
    <3>6. hfaults' \in 0..HandleFaults
      BY <1>1, <3>1, HandleTypes
    <3>7. "EOF" \in H!Errs /\ "EOF" # "panic" /\ "EOF" # "status"
      BY Zenon DEF H!Errs
    <3> QED
      BY Zenon, <1>5, <3>2, <3>5, <3>6, <3>7, CallKept
  <2> QED
    BY Zenon, <1>9, <2>3, <2>5, <2>7, <2>8 DEF H!FullOf
<1> QED
  BY Zenon, <1>2, <1>7, <1>8, <1>9 DEF H!AskRange

\* One of the nodes is asked for what remains.
LEMMA AllKept ==
    ASSUME H!Inv, Asked, H!NodesListed, NEW n \in nodes, H!AskAll(n)
    PROVE  H!Inv'
<1>1. /\ length \in Nat /\ off \in Nat /\ off <= length /\ hfaults \in 0..HandleFaults
  BY HandleTypes DEF H!Inv, H!TypeOK
<1>2. PICK status : status = H!Status(n, off > 0, off, length)
  BY Zenon
<1>3. PICK z \in Nat : z = 0
  BY Zenon
<1>4. H!Bytes(off, off + z) = <<>>
  BY <1>1, <1>3, BytesEmpty
<1>5. ListRight
  BY Zenon, ListedRight
<1>6. off + z <= length
  BY <1>1, <1>3
<1>7. CASE /\ hfaults < HandleFaults /\ hfaults' = hfaults + 1
           /\ H!Ended("WriteTo", off, 0, <<>>, "call")
  <2>1. Gives("WriteTo", off, 0, "call", z)
    BY Zenon, <1>4, <1>6, <1>7 DEF Gives
  <2>2. hfaults' \in 0..HandleFaults
    BY <1>1, <1>7, HandleTypes
  <2>3. "call" \in H!Errs /\ "call" # "panic" /\ "call" # "status"
    BY Zenon DEF H!Errs
  <2> QED
    BY Zenon, <1>1, <1>3, <1>5, <2>1, <2>2, <2>3, CallKept
<1>8. CASE status # 200 /\ H!Ended("WriteTo", off, 0, <<>>, "status") /\ hfaults' = hfaults
  <2>1. Gives("WriteTo", off, 0, "status", z)
    BY Zenon, <1>4, <1>6, <1>8 DEF Gives
  <2>2. has # nodes \/ off > 0
    BY Zenon, <1>2, <1>8 DEF H!Status
  <2>3. Refusable("WriteTo", off, 0)
    BY Zenon, <2>2 DEF Refusable
  <2>4. "status" \in H!Errs /\ "panic" # "status"
    BY Zenon DEF H!Errs
  <2> QED
    BY Zenon, <1>1, <1>3, <1>5, <1>8, <2>1, <2>3, <2>4, CallKept
<1>9. CASE H!Ended("WriteTo", off, 0, H!Bytes(off, length), "none") /\ hfaults' = hfaults
  <2>1. PICK k \in Nat : k = length - off
    BY <1>1
  <2>2. length = off + k /\ off + k <= length
    BY <1>1, <2>1
  <2>3. Gives("WriteTo", off, 0, "none", k)
    BY Zenon, <1>9, <2>2 DEF Gives
  <2>4. "none" \in H!Errs /\ "none" # "panic" /\ "none" # "status"
    BY Zenon DEF H!Errs
  <2> QED
    BY Zenon, <1>1, <1>5, <1>9, <2>1, <2>3, <2>4, CallKept
<1>10. CASE \E k \in 0..(length - off - 1) :
              /\ hfaults < HandleFaults /\ hfaults' = hfaults + 1
              /\ H!Ended("WriteTo", off, 0, H!Bytes(off, off + k), "cut")
  <2>1. PICK k \in 0..(length - off - 1) :
           /\ hfaults < HandleFaults /\ hfaults' = hfaults + 1
           /\ H!Ended("WriteTo", off, 0, H!Bytes(off, off + k), "cut")
    BY Zenon, <1>10
  <2>2. k \in Nat /\ off + k <= length
    BY <1>1, <2>1
  <2>3. Gives("WriteTo", off, 0, "cut", k)
    BY Zenon, <2>1, <2>2 DEF Gives
  <2>4. hfaults' \in 0..HandleFaults
    BY <1>1, <2>1, HandleTypes
  <2>5. "cut" \in H!Errs /\ "cut" # "panic" /\ "cut" # "status"
    BY Zenon DEF H!Errs
  <2> QED
    BY Zenon, <1>1, <1>5, <2>2, <2>3, <2>4, <2>5, CallKept
<1> QED
  BY Zenon, <1>2, <1>7, <1>8, <1>9, <1>10 DEF H!AskAll

LEMMA ReadFromKept ==
    ASSUME H!Inv, NEW call, NEW at \in Nat, NEW w \in Nat,
           call = "ReadAt" \/ (call = "Read" /\ at = off),
           H!ReadFrom(call, at, w)
    PROVE  H!Inv'
<1>1. Asked
  BY Zenon DEF H!ReadFrom, Asked
<1>2. CASE H!NodesFail(call, at) \/ (H!NodesListed /\ H!NoNode(call, at))
  BY Zenon, <1>1, <1>2, UnlistedKept
<1>3. CASE H!NodesListed /\ \E n \in nodes \cap listed' : H!AskRange(n, call, at, w)
  <2>1. PICK n \in nodes : H!AskRange(n, call, at, w)
    BY Zenon, <1>3
  <2> QED
    BY Zenon, <1>1, <1>3, <2>1, RangeKept
<1> QED
  BY Zenon, <1>2, <1>3 DEF H!ReadFrom

LEMMA ReadKept ==
    ASSUME H!Inv, NEW w \in Nat, H!Read(w)
    PROVE  H!Inv'
<1>1. /\ length \in Nat /\ off \in Nat /\ off <= length /\ hfaults \in 0..HandleFaults
  BY HandleTypes DEF H!Inv, H!TypeOK
<1>2. CASE H!ReadFrom("Read", off, w)
  BY Zenon, <1>1, <1>2, ReadFromKept
<1>3. CASE /\ H!Ended("Read", off, w, <<>>, "EOF")
           /\ UNCHANGED <<calls, length, nodes, whole, listed, cached, has, cluster, start,
                          hfaults, unlisted, early>>
  <2>1. PICK z \in Nat : z = 0
    BY Zenon
  <2>2. H!Bytes(off, off + z) = <<>> /\ off + z <= length
    BY <1>1, <2>1, BytesEmpty
  <2>3. Gives("Read", off, w, "EOF", z)
    BY Zenon, <1>3, <2>2 DEF Gives
  <2>4. Asked
    BY Zenon, <1>3 DEF Asked
  <2>5. ListRight
    BY Zenon, <1>3 DEF H!Inv, H!TypeOK, H!NodesInv, ListRight
  <2>6. "EOF" \in H!Errs /\ "EOF" # "panic" /\ "EOF" # "status"
    BY Zenon DEF H!Errs
  <2>7. hfaults' \in 0..HandleFaults
    BY Zenon, <1>1, <1>3
  <2> QED
    BY Zenon, <1>1, <2>1, <2>3, <2>4, <2>5, <2>6, <2>7, CallKept
<1> QED
  BY Zenon, <1>2, <1>3 DEF H!Read

LEMMA WriteToKept ==
    ASSUME H!Inv, H!WriteTo
    PROVE  H!Inv'
<1>1. Asked
  BY Zenon DEF H!WriteTo, Asked
<1>2. off \in Nat
  BY HandleTypes DEF H!Inv, H!TypeOK
<1>3. CASE H!NodesFail("WriteTo", off) \/ (H!NodesListed /\ H!NoNode("WriteTo", off))
  BY Zenon, <1>1, <1>2, <1>3, UnlistedKept
<1>4. CASE H!NodesListed /\ \E n \in nodes \cap listed' : H!AskAll(n)
  <2>1. PICK n \in nodes : H!AskAll(n)
    BY Zenon, <1>4
  <2> QED
    BY Zenon, <1>1, <1>4, <2>1, AllKept
<1> QED
  BY Zenon, <1>3, <1>4 DEF H!WriteTo

LEMMA SeekKept ==
    ASSUME H!Inv, NEW abs \in Nat, H!Seek(abs)
    PROVE  H!Inv'
<1>1. PICK r : last' = H!Result("Seek", abs, 0, <<>>, r) /\ r \in {"range", "none"}
  BY Zenon DEF H!Seek, H!SeekWithin
<1>2. last'.call = "Seek" /\ last'.err = r
  BY Zenon, <1>1 DEF H!Result
<1>3. /\ calls' = calls /\ length' = length /\ nodes' = nodes /\ whole' = whole
      /\ listed' = listed /\ cached' = cached /\ has' = has /\ cluster' = cluster
      /\ hfaults' = hfaults /\ unlisted' = unlisted /\ early' = early
  BY Zenon DEF H!Seek, H!SeekWithin
<1>4. off' \in 0..length /\ start' \in 0..length /\ start' <= off' /\ got' = H!Bytes(start', off')
  <2>1. CASE abs >= length
    <3>1. off' = off /\ start' = start /\ got' = got
      BY Zenon, <2>1 DEF H!Seek, H!SeekWithin
    <3> QED
      BY Zenon, <3>1 DEF H!Inv, H!TypeOK, H!ReadsExact, H!NodesInv
  <2>2. CASE ~(abs >= length)
    <3>1. off' = abs /\ start' = abs /\ got' = <<>>
      BY Zenon, <2>2 DEF H!Seek, H!SeekWithin
    <3>2. length \in Nat
      BY HandleTypes DEF H!Inv, H!TypeOK
    <3> QED
      BY <2>2, <3>1, <3>2, BytesEmpty
  <2> QED
    BY Zenon, <2>1, <2>2
<1>5. r \in H!Errs /\ r # "panic" /\ r # "status"
  BY Zenon, <1>1 DEF H!Errs
<1>6. H!TypeOK'
  BY Zenon, <1>2, <1>3, <1>4, <1>5 DEF H!Inv, H!TypeOK
<1>7. H!ReadsExact'
  BY Zenon, <1>2, <1>4 DEF H!ReadsExact
<1>8. H!PanicsOnlyThere' /\ H!RefusedOnlyThere'
  BY Zenon, <1>2, <1>5 DEF H!PanicsOnlyThere, H!RefusedOnlyThere, H!Dead
<1>9. H!NodesInv'
  BY Zenon, <1>3, <1>4 DEF H!Inv, H!NodesInv
<1> QED
  BY Zenon, <1>6, <1>7, <1>8, <1>9 DEF H!Inv

LEMMA LoseKept ==
    ASSUME H!Inv, NEW n \in Node, H!Lose(n)
    PROVE  H!Inv'
<1>1. /\ calls' = calls /\ length' = length /\ nodes' = nodes /\ whole' = whole
      /\ listed' = listed /\ cached' = cached /\ off' = off /\ start' = start
      /\ got' = got /\ last' = last /\ unlisted' = unlisted /\ early' = early
  BY Zenon DEF H!Lose
<1>2. has' \subseteq cluster' /\ cluster' \subseteq cluster /\ has' \subseteq has /\ has' # nodes
  BY Zenon DEF H!Lose, H!Inv, H!TypeOK, H!NodesInv
<1>3. hfaults' \in 0..HandleFaults
  BY HandleTypes DEF H!Lose, H!Inv, H!TypeOK
<1>4. H!TypeOK'
  BY Zenon, <1>1, <1>2, <1>3 DEF H!Inv, H!TypeOK
<1>5. H!ReadsExact'
  BY Zenon, <1>1 DEF H!Inv, H!ReadsExact
<1>6. H!PanicsOnlyThere' /\ H!RefusedOnlyThere'
  BY Zenon, <1>1, <1>2 DEF H!PanicsOnlyThere, H!RefusedOnlyThere, H!Dead, H!Lose
<1>7. H!NodesInv'
  BY Zenon, <1>1, <1>2 DEF H!Inv, H!NodesInv
<1> QED
  BY Zenon, <1>4, <1>5, <1>6, <1>7 DEF H!Inv

LEMMA HandleInit == H!Init => H!Inv
<1> SUFFICES ASSUME H!Init  PROVE H!Inv
  BY Zenon
<1>1. last.call = "open" /\ last.err = "none"
  BY Zenon DEF H!Init, H!Result
<1>2. H!TypeOK
  <2>1. /\ off \in 0..length /\ start \in 0..length /\ hfaults \in 0..HandleFaults
        /\ length \in 0..MaxLength /\ last.err \in H!Errs
    BY <1>1, HandleTypes DEF H!Init, H!Errs
  <2> QED
    BY Zenon, <2>1 DEF H!Init, H!TypeOK, H!ListBefore
<1>3. H!ReadsExact
  BY Zenon, <1>1, BytesEmpty DEF H!Init, H!ReadsExact
<1>4. H!PanicsOnlyThere /\ H!RefusedOnlyThere
  BY Zenon, <1>1 DEF H!PanicsOnlyThere, H!RefusedOnlyThere, H!Dead
<1>5. start <= off
  BY DEF H!Init
<1>6. H!NodesInv
  BY Zenon, <1>5 DEF H!Init, H!NodesInv, H!ListBefore
<1> QED
  BY Zenon, <1>2, <1>3, <1>4, <1>6 DEF H!Inv

LEMMA HandleInduction == H!Inv /\ [H!Next]_hvars => H!Inv'
<1> SUFFICES ASSUME H!Inv, [H!Next]_hvars  PROVE H!Inv'
  BY Zenon
<1>1. CASE UNCHANGED hvars
  <2>1. H!TypeOK' /\ H!ReadsExact'
    BY Zenon, <1>1 DEF hvars, H!Inv, H!TypeOK, H!ReadsExact
  <2>2. H!PanicsOnlyThere'
    BY Zenon, <1>1 DEF hvars, H!Inv, H!PanicsOnlyThere, H!Dead
  <2>3. H!RefusedOnlyThere' /\ H!NodesInv'
    BY Zenon, <1>1 DEF hvars, H!Inv, H!RefusedOnlyThere, H!NodesInv
  <2> QED
    BY Zenon, <2>1, <2>2, <2>3 DEF H!Inv
<1>2. CASE \E n \in Node : H!Lose(n)
  BY Zenon, <1>2, LoseKept
<1>3. CASE \E w \in Buf : H!Read(w)
  BY Zenon, <1>3, ReadKept, HandleTypes
<1>4. CASE \E w \in Buf : \E at \in 0..(length + 1) : H!ReadAt(at, w)
  <2>1. PICK w \in Nat, at \in Nat : H!ReadAt(at, w)
    <3>1. length \in Nat
      BY HandleTypes DEF H!Inv, H!TypeOK
    <3> QED
      BY <1>4, <3>1, HandleTypes
  <2> QED
    BY Zenon, <2>1, ReadFromKept DEF H!ReadAt
<1>5. CASE H!WriteTo
  BY Zenon, <1>5, WriteToKept
<1>6. CASE \E abs \in 0..(length + 1) : H!Seek(abs)
  <2>1. PICK abs \in Nat : H!Seek(abs)
    <3>1. length \in Nat
      BY HandleTypes DEF H!Inv, H!TypeOK
    <3> QED
      BY <1>6, <3>1
  <2> QED
    BY Zenon, <2>1, SeekKept
<1> QED
  BY Zenon, <1>1, <1>2, <1>3, <1>4, <1>5, <1>6 DEF H!Next

(***************************************************************************)
(* Whatever nodes a file's blob has and loses, whatever the length of the  *)
(* file and of the buffers, and whatever calls fail: Read and WriteTo give *)
(* the bytes that follow, each once; a call panics only without a node     *)
(* that it knows of; and only the answers that RefusedOnlyThere names are  *)
(* refused.                                                                *)
(***************************************************************************)
THEOREM HandleReads == H!Spec => []HandleRight
<1>1. H!Init => H!Inv
  BY Zenon, HandleInit
<1>2. H!Inv /\ [H!Next]_(H!vars) => H!Inv'
  BY Zenon, HandleInduction DEF hvars, H!vars
<1>3. H!Inv => HandleRight
  BY Zenon DEF H!Inv, HandleRight
<1> QED
  BY <1>1, <1>2, <1>3, PTL DEF H!Spec

-------------------------------------------------------------------------------
(***************************************************************************)
(* Download.  The options, the listing and what was there before stay; the *)
(* names are those of the invariant's definitions.                         *)
(***************************************************************************)
LEMMA DownloadTypes ==
    /\ MaxInode \in Nat /\ Priors \subseteq [File -> 0..MaxInode]
    /\ Tries \in Nat \ {0} /\ DownloadFaults \in Nat /\ None \notin Oid
  BY Zenon, ReadAssumption DEF D!DownloadAssumption

LEMMA InodeZero == 0 \notin D!Inode
  BY DEF D!Inode

Given == link' = link /\ want' = want /\ known' = known /\ base' = base /\ prior' = prior

LEMMA GivenKept ==
    ASSUME Given
    PROVE  /\ \A o : D!Dests(o)' = D!Dests(o) /\ D!Made(o)' = D!Made(o)
           /\ \A f : (D!Shared(f)' <=> D!Shared(f)) /\ D!Origin(f)' = D!Origin(f)
           /\ D!Fed' = D!Fed
<1>1. \A o : D!Dests(o)' = D!Dests(o)
  BY Zenon DEF Given, D!Dests
<1> QED
  BY Zenon, <1>1 DEF Given, D!Made, D!Shared, D!Origin, D!Fed

\* The files that are written for a blob are listed with it, and are origins.
LEMMA MadeIs ==
    ASSUME D!InodeInv, NEW o \in Oid, NEW f \in D!Made(o)
    PROVE  f \in File /\ want[f] = o /\ D!Origin(f) = f /\ f \in D!Dests(o)
<1>1. f \in D!Dests(o) /\ (link => f = base[o])
  BY Zenon DEF D!Made
<1>2. f \in File /\ want[f] = o
  BY Zenon, <1>1 DEF D!Dests
<1> QED
  BY Zenon, <1>1, <1>2 DEF D!Origin

\* Of a listed blob the first file is written.
LEMMA BaseMade ==
    ASSUME D!TypeOK, D!InodeInv, NEW o \in Oid, NEW f \in D!Dests(o)
    PROVE  base[o] \in D!Made(o)
<1>1. f \in File /\ want[f] = o
  BY Zenon DEF D!Dests
<1>2. base[o] \in File
  BY Zenon DEF D!TypeOK
<1>3. want[base[o]] = o
  BY Zenon, <1>1 DEF D!InodeInv
<1> QED
  BY Zenon, <1>2, <1>3 DEF D!Made, D!Dests

\* Two origins with one inode had it before.
LEMMA OneInode ==
    ASSUME D!InodeInv, NEW f \in File, NEW g \in File, f # g,
           D!Origin(f) = f, D!Origin(g) = g, inode[f] # 0, inode[f] = inode[g]
    PROVE  D!Shared(f) /\ D!Shared(g) /\ inode[f] = prior[f]
<1>1. prior[f] # 0 /\ prior[f] = prior[g]
  BY Zenon DEF D!InodeInv
<1>2. inode[f] = prior[f]
  BY Zenon, <1>1 DEF D!InodeInv
<1> QED
  BY Zenon, <1>1, <1>2 DEF D!Shared

(***************************************************************************)
(* Contents change only where a writer has the file open: whoever else has *)
(* it had it before.                                                       *)
(***************************************************************************)
LEMMA ContentKept ==
    ASSUME D!InodeInv, NEW o \in Oid, NEW f \in File, D!Origin(f) = f, inode[f] # 0,
           want[f] # o, NEW g \in D!Made(o), inode[g] = inode[f]
    PROVE  D!Shared(f)
<1>1. g \in File /\ want[g] = o /\ D!Origin(g) = g
  BY Zenon, MadeIs
<1> QED
  BY Zenon, <1>1, OneInode

\* A step of one blob's download leaves what is known of the names alone.
LEMMA NamesKept ==
    ASSUME D!InodeInv, Given, inode' = inode
    PROVE  D!InodeInv'
<1> USE GivenKept
<1>1. \A f : D!Origin(f)' = D!Origin(f)
  BY Zenon
<1> QED
  BY Zenon, <1>1 DEF D!InodeInv, Given

-------------------------------------------------------------------------------
\* The bookkeeping of the attempts, of one blob.
JobOf(o, j) == job' = [job EXCEPT ![o] = j]

LEMMA JobIs ==
    ASSUME D!TypeOK, NEW o \in Oid, NEW j, JobOf(o, j)
    PROVE  job'[o] = j /\ \A p \in Oid \ {o} : job'[p] = job[p]
  BY Zenon DEF D!TypeOK, JobOf

Attempt == [pc : {"wait", "copy", "done", "failed"}, tries : 0..Tries, open : SUBSET D!Inode]

LEMMA JobType ==
    ASSUME D!TypeOK, NEW o \in Oid, NEW j \in Attempt, JobOf(o, j)
    PROVE  job' \in [Oid -> Attempt]
  BY Zenon DEF D!TypeOK, JobOf, Attempt

\* What OpenInv says of one blob.
AttemptRight(p, j) ==
    /\ \A i \in j.open : \E f \in D!Made(p) : inode[f] = i
    /\ j.pc = "copy" => \A f \in D!Made(p) : inode[f] \in j.open
    /\ j.pc \in {"copy", "done"} => \A f \in D!Dests(p) : inode[f] # 0
    /\ j.pc \in {"wait", "copy"} => j.tries < Tries

LEMMA FailedJob ==
    ASSUME D!TypeOK, D!OpenInv, NEW o \in Oid, job[o].pc \in {"wait", "copy"}, D!Failed(o)
    PROVE  \E j \in Attempt : /\ JobOf(o, j) /\ j.pc \in {"wait", "failed"} /\ j.open = {}
                              /\ (j.pc = "wait" => j.tries < Tries)
<1>1. job[o] \in Attempt /\ job[o].tries < Tries
  BY Zenon DEF D!TypeOK, D!OpenInv, Attempt
<1>2. PICK j : j = [pc |-> IF job[o].tries + 1 < Tries THEN "wait" ELSE "failed",
                    tries |-> job[o].tries + 1, open |-> {}]
  BY Zenon
<1>3. JobOf(o, j)
  BY Zenon, <1>2 DEF D!Failed, D!FailedIn, JobOf, D!TypeOK
<1>4. job[o].tries \in Nat /\ Tries \in Nat
  BY <1>1, DownloadTypes DEF Attempt
<1>5. j \in Attempt
  BY <1>1, <1>2, <1>4 DEF Attempt
<1>6. j.pc \in {"wait", "failed"} /\ j.open = {} /\ (j.pc = "wait" => j.tries < Tries)
  BY Zenon, <1>2
<1> QED
  BY Zenon, <1>3, <1>5, <1>6

\* An attempt fails before anything is written, or the copy breaks off.
LEMMA FailsKept ==
    ASSUME D!Inv, NEW o \in Oid, job[o].pc \in {"wait", "copy"}, D!Failed(o), Given,
           inode' = inode, cont' = cont, mixed' = mixed, dpc' = dpc, dpc = "run"
    PROVE  D!Inv'
<1>0. D!TypeOK /\ D!OthersKept /\ D!InodeInv /\ D!OpenInv /\ D!DoneInv
  BY Zenon DEF D!Inv
<1>1. PICK j \in Attempt : /\ JobOf(o, j) /\ j.pc \in {"wait", "failed"} /\ j.open = {}
                          /\ (j.pc = "wait" => j.tries < Tries)
  BY Zenon, <1>0, FailedJob
<1>2. job'[o] = j /\ \A p \in Oid \ {o} : job'[p] = job[p]
  BY Zenon, <1>0, <1>1, JobIs
<1>3. \A p \in Oid : job'[p] = j \/ job'[p] = job[p]
  BY Zenon, <1>2
<1>4. D!TypeOK'
  <2>1. dfaults' \in 0..DownloadFaults
    BY <1>0, DownloadTypes DEF D!Failed, D!FailedIn, D!TypeOK
  <2>2. job' \in [Oid -> Attempt]
    BY Zenon, <1>0, <1>1, JobType
  <2> QED
    BY Zenon, <1>0, <2>1, <2>2 DEF D!TypeOK, Given, Attempt
<1>5. D!OthersKept'
  BY Zenon, <1>0, GivenKept DEF D!OthersKept, Given
<1>6. D!InodeInv'
  BY Zenon, <1>0, NamesKept
<1>7. D!OpenInv'
  <2>1. \A p : D!Dests(p)' = D!Dests(p) /\ D!Made(p)' = D!Made(p)
    BY Zenon, GivenKept
  <2>2. \A i \in mixed' : \E f \in File : D!Shared(f)' /\ prior'[f] = i
    BY Zenon, <1>0, GivenKept DEF D!OpenInv, Given
  <2>3. j.pc # "copy" /\ j.pc # "done" /\ j.open = {}
    BY Zenon, <1>1
  <2>4. \A p \in Oid : AttemptRight(p, job'[p])
    BY <1>0, <1>1, <1>3, <2>3 DEF D!OpenInv, AttemptRight
  <2> QED
    BY Zenon, <2>1, <2>2, <2>4 DEF D!OpenInv, AttemptRight
<1>8. D!DoneInv'
  <2>1. j.pc # "done"
    BY Zenon, <1>1
  <2>2. \A p \in Oid : job'[p].pc = "done" => job[p].pc = "done"
    BY Zenon, <1>3, <2>1
  <2>3. \A f : D!Right(f)' <=> D!Right(f)
    BY Zenon DEF D!Right, Given
  <2> QED
    BY Zenon, <1>0, <2>2, <2>3, GivenKept DEF D!DoneInv
<1>9. D!OkInv'
  BY Zenon DEF D!OkInv
<1> QED
  BY Zenon, <1>4, <1>5, <1>6, <1>7, <1>8, <1>9 DEF D!Inv

\* A blob is copied to the end.
LEMMA CopiedKept ==
    ASSUME D!Inv, NEW o \in Oid, D!Copied(o)
    PROVE  D!Inv'
<1>0. D!TypeOK /\ D!OthersKept /\ D!InodeInv /\ D!OpenInv /\ D!DoneInv
  BY Zenon DEF D!Inv
<1>1. Given /\ inode' = inode /\ mixed' = mixed /\ dpc' = dpc /\ dpc = "run" /\ dfaults' = dfaults
  BY Zenon DEF D!Copied, Given
<1>2. PICK j : j = [pc |-> "done", tries |-> job[o].tries, open |-> {}]
  BY Zenon
<1>3. job[o] \in Attempt /\ job[o].pc = "copy"
  BY Zenon, <1>0 DEF D!TypeOK, D!Copied, Attempt
<1>4. j \in Attempt /\ j.pc = "done" /\ j.open = {}
  BY Zenon, <1>2, <1>3 DEF Attempt
<1>5. JobOf(o, j)
  BY Zenon, <1>0, <1>2, <1>3 DEF D!Copied, JobOf, D!TypeOK, Attempt
<1>6. job'[o] = j /\ \A p \in Oid \ {o} : job'[p] = job[p]
  BY Zenon, <1>0, <1>5, JobIs
<1>7. \A i \in D!Inode :
          /\ i \notin job[o].open => cont'[i] = cont[i]
          /\ i \in job[o].open /\ i \notin mixed => cont'[i] = o
  BY Zenon DEF D!Copied
<1>8. cont' \in [D!Inode -> Oid \cup {Old, Torn}]
  BY Zenon, <1>0 DEF D!Copied, D!TypeOK
<1>9. D!TypeOK'
  <2>1. job' \in [Oid -> Attempt]
    BY Zenon, <1>0, <1>4, <1>5, JobType
  <2> QED
    BY Zenon, <1>0, <1>1, <1>8, <2>1 DEF D!TypeOK, Given, Attempt
<1>10. ASSUME NEW f \in File, D!Origin(f) = f, inode[f] # 0, want[f] # o, ~D!Shared(f)
       PROVE  cont'[inode[f]] = cont[inode[f]]
  <2>1. inode[f] \in D!Inode
    BY Zenon, <1>0, <1>10 DEF D!TypeOK
  <2>2. inode[f] \notin job[o].open
    <3>1. SUFFICES ASSUME inode[f] \in job[o].open  PROVE FALSE
      BY Zenon
    <3>2. PICK g \in D!Made(o) : inode[g] = inode[f]
      BY Zenon, <1>0, <3>1 DEF D!OpenInv
    <3> QED
      BY Zenon, <1>0, <1>10, <3>2, ContentKept
  <2> QED
    BY Zenon, <1>7, <2>1, <2>2
<1>11. D!OthersKept'
  <2>1. ASSUME NEW f \in File, want[f] = None
        PROVE  /\ inode[f] = prior[f]
               /\ prior[f] # 0 /\ ~D!Shared(f) => cont'[inode[f]] = Old
    <3>1. D!Origin(f) = f
      BY Zenon, <2>1 DEF D!Origin
    <3>2. want[f] # o
      BY Zenon, <2>1, DownloadTypes
    <3> QED
      BY Zenon, <1>0, <1>10, <2>1, <3>1, <3>2 DEF D!OthersKept
  <2> QED
    BY Zenon, <1>1, <2>1, GivenKept DEF D!OthersKept, Given
<1>12. D!InodeInv'
  BY Zenon, <1>0, <1>1, NamesKept
<1>13. D!OpenInv'
  <2>1. \A p : D!Dests(p)' = D!Dests(p) /\ D!Made(p)' = D!Made(p)
    BY Zenon, <1>1, GivenKept
  <2>2. \A i \in mixed' : \E f \in File : D!Shared(f)' /\ prior'[f] = i
    BY Zenon, <1>0, <1>1, GivenKept DEF D!OpenInv, Given
  <2>3. \A p \in Oid : AttemptRight(p, job'[p])
    <3> TAKE p \in Oid
    <3>1. CASE p = o
      BY Zenon, <1>0, <1>3, <1>4, <1>6, <3>1 DEF D!OpenInv, AttemptRight
    <3>2. CASE p # o
      BY Zenon, <1>0, <1>6, <3>2 DEF D!OpenInv, AttemptRight
    <3> QED
      BY Zenon, <3>1, <3>2
  <2> QED
    BY Zenon, <1>1, <2>1, <2>2, <2>3 DEF D!OpenInv, AttemptRight
<1>14. ASSUME NEW p \in Oid, job'[p].pc = "done", NEW f \in D!Made(p), ~D!Shared(f)
       PROVE  inode[f] # 0 /\ cont'[inode[f]] = want[f]
  <2>1. f \in File /\ want[f] = p /\ D!Origin(f) = f /\ f \in D!Dests(p)
    BY Zenon, <1>0, <1>14, MadeIs
  <2>2. CASE p # o
    <3>1. D!Right(f)
      BY Zenon, <1>0, <1>6, <1>14, <2>2 DEF D!DoneInv
    <3> QED
      BY Zenon, <1>10, <1>14, <2>1, <2>2, <3>1 DEF D!Right
  <2>3. CASE p = o
    <3>1. inode[f] # 0 /\ inode[f] \in job[o].open
      BY Zenon, <1>0, <1>3, <1>14, <2>1, <2>3 DEF D!OpenInv
    <3>2. inode[f] \in D!Inode
      BY Zenon, <1>0, <2>1, <3>1 DEF D!TypeOK
    <3>3. inode[f] \notin mixed
      <4>1. SUFFICES ASSUME inode[f] \in mixed  PROVE FALSE
        BY Zenon
      <4>2. PICK g \in File : D!Shared(g) /\ prior[g] = inode[f]
        BY Zenon, <1>0, <4>1 DEF D!OpenInv
      <4>3. D!Origin(g) = g /\ inode[g] = prior[g]
        BY Zenon, <1>0, <3>1, <4>2 DEF D!Origin, D!InodeInv
      <4> QED
        BY Zenon, <1>0, <1>14, <2>1, <3>1, <4>2, <4>3, OneInode
    <3> QED
      BY Zenon, <1>7, <2>1, <2>3, <3>1, <3>2, <3>3
  <2> QED
    BY Zenon, <2>2, <2>3
<1>15. D!DoneInv'
  BY Zenon, <1>1, <1>14, GivenKept DEF D!DoneInv, D!Right, Given
<1>16. D!OkInv'
  BY Zenon, <1>1 DEF D!OkInv
<1> QED
  BY Zenon, <1>9, <1>11, <1>12, <1>13, <1>15, <1>16 DEF D!Inv

(***************************************************************************)
(* The files of a blob are created: which inodes the names have then.      *)
(***************************************************************************)
SavedAs(o, new) ==
    LET is == {new[f] : f \in D!Made(o)} IN
    /\ inode' = [f \in File |->
           CASE f \in D!Made(o) -> new[f]
             [] f \in D!Dests(o) \ D!Made(o) /\ inode[f] = 0 -> new[base[o]]
             [] OTHER -> inode[f]]
    /\ cont' = [i \in D!Inode |-> IF i \in is THEN Torn ELSE cont[i]]
    /\ mixed' = (mixed \ is) \cup (is \cap D!OpenElsewhere(o))
    /\ job' = [job EXCEPT ![o] = [pc |-> "copy", tries |-> @.tries, open |-> is]]

Named(o, new) ==
    /\ inode' \in [File -> D!Inode \cup {0}]
    /\ \A f \in File : inode[f] # 0 \/ f \notin D!Dests(o) => inode'[f] = inode[f]
    /\ \A f \in D!Dests(o) : inode'[f] # 0
    /\ \A f \in D!Made(o) : inode'[f] = new[f] /\ new[f] \in D!Inode
    /\ \A f \in D!Made(o) : inode[f] = 0 => new[f] \in D!Unused
    /\ \A f, g \in D!Made(o) : f # g /\ inode[f] = 0 => inode'[f] # inode'[g]
    /\ \A f \in D!Dests(o) \ D!Made(o) :
           inode[f] = 0 => link /\ inode'[f] = inode'[base[o]]

LEMMA SavedNames ==
    ASSUME D!TypeOK, D!InodeInv, NEW o \in Oid, NEW h \in D!Dests(o),
           NEW new \in D!Creates(D!Made(o)), SavedAs(o, new)
    PROVE  Named(o, new)
<1>1. base[o] \in D!Made(o)
  BY Zenon, BaseMade
<1>2. D!Made(o) \subseteq D!Dests(o) /\ D!Dests(o) \subseteq File
  BY Zenon DEF D!Made, D!Dests
<1>3. /\ new \in [D!Made(o) -> D!Inode]
      /\ \A f \in D!Made(o) : IF inode[f] # 0 THEN new[f] = inode[f] ELSE new[f] \in D!Unused
      /\ \A f, g \in D!Made(o) : f # g /\ inode[f] = 0 => new[f] # new[g]
  BY Zenon DEF D!Creates
<1>4. PICK made, dests : made = D!Made(o) /\ dests = D!Dests(o)
  BY Zenon
<1>5. inode' = [f \in File |-> CASE f \in made -> new[f]
                              [] f \in dests \ made /\ inode[f] = 0 -> new[base[o]]
                              [] OTHER -> inode[f]]
  BY Zenon, <1>4 DEF SavedAs
<1>6. /\ \A f \in made : inode'[f] = new[f]
      /\ \A f \in dests \ made : inode[f] = 0 => inode'[f] = new[base[o]]
      /\ \A f \in File \ made : f \notin dests \/ inode[f] # 0 => inode'[f] = inode[f]
  BY Zenon, <1>2, <1>4, <1>5
<1>7. \A f \in made : new[f] \in D!Inode /\ new[f] # 0
  BY Zenon, <1>3, <1>4, InodeZero
<1>8. inode \in [File -> D!Inode \cup {0}]
  BY Zenon DEF D!TypeOK
<1>9. \A f \in D!Dests(o) \ D!Made(o) : link
  BY Zenon DEF D!Made
<1>10. inode' \in [File -> D!Inode \cup {0}]
  BY Zenon, <1>1, <1>4, <1>5, <1>7, <1>8
<1>11. \A f \in File : inode[f] # 0 \/ f \notin D!Dests(o) => inode'[f] = inode[f]
  BY Zenon, <1>2, <1>3, <1>4, <1>6
<1>12. \A f \in D!Dests(o) : inode'[f] # 0
  BY Zenon, <1>1, <1>2, <1>4, <1>6, <1>7, <1>11
<1>13. \A f \in D!Made(o) : inode'[f] = new[f] /\ new[f] \in D!Inode
  BY Zenon, <1>4, <1>6, <1>7
<1>14. \A f \in D!Made(o) : inode[f] = 0 => new[f] \in D!Unused
  BY Zenon, <1>3
<1>15. \A f, g \in D!Made(o) : f # g /\ inode[f] = 0 => inode'[f] # inode'[g]
  BY Zenon, <1>3, <1>13
<1>16. \A f \in D!Dests(o) \ D!Made(o) :
          inode[f] = 0 => link /\ inode'[f] = inode'[base[o]]
  BY Zenon, <1>1, <1>4, <1>6, <1>9
<1> QED
  BY Zenon, <1>10, <1>11, <1>12, <1>13, <1>14, <1>15, <1>16 DEF Named

\* A new inode is nobody's.
LEMMA SavedInodes ==
    ASSUME D!TypeOK, D!InodeInv, NEW o \in Oid, NEW h \in D!Dests(o), Given,
           NEW new \in D!Creates(D!Made(o)), SavedAs(o, new)
    PROVE  D!InodeInv'
<1>1. /\ \A f \in File : inode[f] # 0 \/ f \notin D!Dests(o) => inode'[f] = inode[f]
      /\ \A f \in D!Dests(o) : inode'[f] # 0
      /\ \A f \in D!Made(o) : inode'[f] = new[f] /\ (inode[f] = 0 => new[f] \in D!Unused)
      /\ \A f, g \in D!Made(o) : f # g /\ inode[f] = 0 => inode'[f] # inode'[g]
      /\ \A f \in D!Dests(o) \ D!Made(o) :
             inode[f] = 0 => link /\ inode'[f] = inode'[base[o]]
  <2>1. Named(o, new)
    BY Zenon, SavedNames
  <2> QED
    BY Zenon, <2>1 DEF Named
<1>2. \A f : D!Origin(f)' = D!Origin(f)
  BY Zenon, GivenKept
<1>3. \A f \in D!Dests(o) : f \in File /\ want[f] = o
  BY Zenon DEF D!Dests
<1>4. o # None
  BY Zenon, DownloadTypes
<1>5. \A f \in File : prior[f] # 0 => inode[f] # 0 /\ inode[f] = prior[f]
  BY Zenon DEF D!InodeInv
<1>6. \A f \in File : D!Origin(f) \in File
  BY Zenon DEF D!Origin, D!TypeOK
<1>7. ASSUME NEW f \in File, inode'[f] # 0
      PROVE  inode'[f] = inode'[D!Origin(f)]
  <2>1. CASE inode[f] # 0
    <3>1. inode[D!Origin(f)] # 0 /\ inode[D!Origin(f)] = inode[f]
      BY Zenon, <2>1 DEF D!InodeInv
    <3> QED
      BY Zenon, <1>1, <1>6, <2>1, <3>1
  <2>2. CASE inode[f] = 0 /\ f \in D!Made(o)
    BY Zenon, <2>2, MadeIs
  <2>3. CASE inode[f] = 0 /\ f \in D!Dests(o) \ D!Made(o)
    <3>1. link /\ inode'[f] = inode'[base[o]] /\ want[f] = o
      BY Zenon, <1>1, <1>3, <2>3
    <3>2. prior[f] = 0
      BY Zenon, <1>5, <2>3
    <3>3. D!Origin(f) = base[o]
      BY Zenon, <1>4, <3>1, <3>2 DEF D!Origin
    <3> QED
      BY Zenon, <3>1, <3>3
  <2>4. inode[f] # 0 \/ f \in D!Dests(o)
    BY Zenon, <1>1, <1>7
  <2> QED
    BY Zenon, <2>1, <2>2, <2>3, <2>4
<1>8. ASSUME NEW f \in File, D!Origin(f) = f, inode[f] = 0, inode'[f] # 0
      PROVE  f \in D!Made(o) /\ inode'[f] \in D!Unused
  <2>1. f \in D!Dests(o)
    BY Zenon, <1>1, <1>8
  <2>2. f \in D!Made(o)
    <3>1. CASE link
      <4>1. prior[f] = 0 /\ want[f] = o
        BY Zenon, <1>3, <1>5, <1>8, <2>1
      <4>2. f = base[o]
        BY Zenon, <1>4, <1>8, <3>1, <4>1 DEF D!Origin
      <4> QED
        BY Zenon, <2>1, <4>2, BaseMade
    <3>2. CASE ~link
      BY Zenon, <2>1, <3>2 DEF D!Made
    <3> QED
      BY Zenon, <3>1, <3>2
  <2> QED
    BY Zenon, <1>1, <1>8, <2>2
<1>9. \A f \in File : inode[f] \notin D!Unused
  BY Zenon DEF D!Unused
<1>10. ASSUME NEW f \in File, NEW g \in File, D!Origin(f) = f, D!Origin(g) = g, f # g,
              inode'[f] # 0, inode'[f] = inode'[g]
       PROVE  prior[f] # 0 /\ prior[f] = prior[g]
  <2>1. CASE inode[f] # 0 /\ inode[g] # 0
    <3>1. inode[f] # 0 /\ inode[f] = inode[g]
      BY Zenon, <1>1, <1>10, <2>1
    <3> QED
      BY Zenon, <1>10, <3>1 DEF D!InodeInv
  <2>2. CASE inode[f] = 0 /\ inode[g] = 0
    BY Zenon, <1>1, <1>8, <1>10, <2>2
  <2>3. CASE inode[f] = 0 /\ inode[g] # 0
    BY Zenon, <1>1, <1>8, <1>9, <1>10, <2>3
  <2>4. CASE inode[f] # 0 /\ inode[g] = 0
    BY Zenon, <1>1, <1>8, <1>9, <1>10, <2>4
  <2> QED
    BY Zenon, <2>1, <2>2, <2>3, <2>4
<1>11. \A p \in Oid, f \in File : want[f] = p => want[base[p]] = p
  BY Zenon DEF D!InodeInv
<1>12. \A f \in File : prior[f] # 0 => inode'[f] = prior[f]
  BY Zenon, <1>1, <1>5
<1> QED
  BY Zenon, <1>2, <1>7, <1>10, <1>11, <1>12 DEF D!InodeInv, Given

LEMMA SavedKept ==
    ASSUME D!Inv, NEW o \in Oid, D!SaveDownload(o)
    PROVE  D!Inv'
<1>0. D!TypeOK /\ D!OthersKept /\ D!InodeInv /\ D!OpenInv /\ D!DoneInv
  BY Zenon DEF D!Inv
<1>1. Given /\ dpc' = dpc /\ dpc = "run" /\ dfaults' = dfaults /\ job[o].pc = "wait"
  BY Zenon DEF D!SaveDownload, Given
<1>2. PICK new \in D!Creates(D!Made(o)) : SavedAs(o, new)
  BY Zenon DEF D!SaveDownload, SavedAs
<1>3. PICK h \in D!Dests(o) : TRUE
  BY Zenon DEF D!SaveDownload, D!Fed, D!Dests
<1>4. PICK is : is = {new[f] : f \in D!Made(o)}
  BY Zenon
<1>5. /\ inode' \in [File -> D!Inode \cup {0}]
      /\ \A f \in File : inode[f] # 0 \/ f \notin D!Dests(o) => inode'[f] = inode[f]
      /\ \A f \in D!Dests(o) : inode'[f] # 0
      /\ \A f \in D!Made(o) : inode'[f] = new[f] /\ new[f] \in D!Inode
  <2>1. Named(o, new)
    BY Zenon, <1>0, <1>2, <1>3, SavedNames
  <2> QED
    BY Zenon, <2>1 DEF Named
<1>6. D!InodeInv'
  BY Zenon, <1>0, <1>1, <1>2, <1>3, SavedInodes
<1>7. PICK j : j = [pc |-> "copy", tries |-> job[o].tries, open |-> is]
  BY Zenon
<1>8. job[o] \in Attempt /\ job[o].tries < Tries
  BY Zenon, <1>0, <1>1 DEF D!TypeOK, D!OpenInv, Attempt
<1>9. is \subseteq D!Inode
  BY Zenon, <1>4, <1>5
<1>10. j \in Attempt /\ j.pc = "copy" /\ j.open = is /\ j.tries < Tries
  BY Zenon, <1>7, <1>8, <1>9 DEF Attempt
<1>11. JobOf(o, j)
  BY Zenon, <1>0, <1>2, <1>4, <1>7, <1>8 DEF SavedAs, JobOf, D!TypeOK, Attempt
<1>12. job'[o] = j /\ \A p \in Oid \ {o} : job'[p] = job[p]
  BY Zenon, <1>0, <1>11, JobIs
<1>13. \A i \in D!Inode : i \notin is => cont'[i] = cont[i]
  BY Zenon, <1>2, <1>4 DEF SavedAs
<1>14. mixed' = (mixed \ is) \cup (is \cap D!OpenElsewhere(o))
  BY Zenon, <1>2, <1>4 DEF SavedAs
<1>15. D!TypeOK'
  <2>1. job' \in [Oid -> Attempt]
    BY Zenon, <1>0, <1>10, <1>11, JobType
  <2>2. cont' \in [D!Inode -> Oid \cup {Old, Torn}]
    BY Zenon, <1>0, <1>2 DEF SavedAs, D!TypeOK
  <2>3. mixed' \subseteq D!Inode
    BY Zenon, <1>0, <1>9, <1>14 DEF D!TypeOK
  <2> QED
    BY Zenon, <1>0, <1>1, <1>5, <2>1, <2>2, <2>3 DEF D!TypeOK, Given, Attempt
<1>16. ASSUME NEW f \in File, D!Origin(f) = f, inode[f] # 0, want[f] # o, inode[f] \in is
       PROVE  D!Shared(f)
  <2>1. PICK g \in D!Made(o) : inode'[g] = inode[f]
    BY Zenon, <1>4, <1>5, <1>16
  <2>2. g \in File /\ want[g] = o /\ D!Origin(g) = g
    BY Zenon, <1>0, MadeIs
  <2>3. inode'[f] = inode[f]
    BY Zenon, <1>5, <1>16
  <2>4. D!Origin(f)' = f /\ D!Origin(g)' = g
    BY Zenon, <1>1, <1>16, <2>2, GivenKept
  <2>5. prior'[f] # 0 /\ prior'[f] = prior'[g]
    BY Zenon, <1>6, <1>16, <2>1, <2>2, <2>3, <2>4 DEF D!InodeInv
  <2> QED
    BY Zenon, <1>1, <1>16, <2>2, <2>5 DEF D!Shared, Given
<1>17. ASSUME NEW f \in File, D!Origin(f) = f, inode[f] # 0, want[f] # o, ~D!Shared(f)
       PROVE  inode'[f] = inode[f] /\ cont'[inode[f]] = cont[inode[f]]
  <2>1. inode[f] \in D!Inode
    BY Zenon, <1>0, <1>17 DEF D!TypeOK
  <2> QED
    BY Zenon, <1>5, <1>13, <1>16, <1>17, <2>1
<1>18. D!OthersKept'
  <2>1. ASSUME NEW f \in File, want[f] = None
        PROVE  /\ inode'[f] = prior[f]
               /\ prior[f] # 0 /\ ~D!Shared(f) => cont'[inode'[f]] = Old
    <3>1. D!Origin(f) = f
      BY Zenon, <2>1 DEF D!Origin
    <3>2. want[f] # o /\ f \notin D!Dests(o)
      BY Zenon, <2>1, DownloadTypes DEF D!Dests
    <3>3. inode[f] = prior[f] /\ inode'[f] = inode[f]
      BY Zenon, <1>0, <1>5, <2>1, <3>2 DEF D!OthersKept
    <3>4. prior[f] # 0 /\ ~D!Shared(f) => cont[inode[f]] = Old
      BY Zenon, <1>0, <2>1 DEF D!OthersKept
    <3> QED
      BY Zenon, <1>17, <3>1, <3>2, <3>3, <3>4
  <2> QED
    BY Zenon, <1>1, <2>1, GivenKept DEF D!OthersKept, Given
<1>19. D!OpenInv'
  <2>1. \A p : D!Dests(p)' = D!Dests(p) /\ D!Made(p)' = D!Made(p)
    BY Zenon, <1>1, GivenKept
  <2>2. ASSUME NEW i \in mixed'
        PROVE  \E f \in File : D!Shared(f) /\ prior[f] = i
    <3>1. CASE i \in mixed
      BY Zenon, <1>0, <3>1 DEF D!OpenInv
    <3>2. CASE i \in is /\ i \in D!OpenElsewhere(o)
      <4>1. PICK p \in Oid \ {o} : i \in job[p].open
        BY Zenon, <3>2 DEF D!OpenElsewhere
      <4>2. PICK g \in D!Made(p) : inode[g] = i
        BY Zenon, <1>0, <4>1 DEF D!OpenInv
      <4>3. g \in File /\ want[g] = p /\ D!Origin(g) = g
        BY Zenon, <1>0, <4>1, <4>2, MadeIs
      <4>4. i # 0
        BY Zenon, <1>9, <3>2, InodeZero
      <4>5. D!Shared(g)
        BY Zenon, <1>16, <3>2, <4>1, <4>2, <4>3, <4>4
      <4>6. inode[g] = prior[g]
        BY Zenon, <1>0, <4>3, <4>5 DEF D!Shared, D!InodeInv
      <4> QED
        BY Zenon, <4>2, <4>3, <4>5, <4>6
    <3> QED
      BY Zenon, <1>14, <2>2, <3>1, <3>2
  <2>3. ASSUME NEW p \in Oid
        PROVE  AttemptRight(p, job[p])'
    <3>1. CASE p = o
      <4>1. \A i \in is : \E f \in D!Made(o) : inode'[f] = i
        BY Zenon, <1>4, <1>5
      <4>2. \A f \in D!Made(o) : inode'[f] \in is
        BY Zenon, <1>4, <1>5
      <4> QED
        BY Zenon, <1>5, <1>10, <1>12, <2>1, <3>1, <4>1, <4>2 DEF AttemptRight
    <3>2. CASE p # o
      <4>1. AttemptRight(p, job[p]) /\ job'[p] = job[p] /\ job[p].open \subseteq D!Inode
        BY Zenon, <1>0, <1>12, <3>2 DEF D!OpenInv, AttemptRight, D!TypeOK
      <4>2. D!Made(p) \subseteq D!Dests(p) /\ D!Dests(p) \subseteq File
        BY Zenon DEF D!Made, D!Dests
      <4> QED
        BY Zenon, <1>5, <2>1, <4>1, <4>2, InodeZero DEF AttemptRight
    <3> QED
      BY Zenon, <3>1, <3>2
  <2> QED
    BY Zenon, <1>1, <2>2, <2>3, GivenKept DEF D!OpenInv, AttemptRight, Given
<1>20. D!DoneInv'
  <2>1. ASSUME NEW p \in Oid, job'[p].pc = "done", NEW f \in D!Made(p), ~D!Shared(f)
        PROVE  inode'[f] # 0 /\ cont'[inode'[f]] = want[f]
    <3>1. p # o
      BY Zenon, <1>10, <1>12, <2>1
    <3>2. D!Right(f)
      BY Zenon, <1>0, <1>12, <2>1, <3>1 DEF D!DoneInv
    <3>3. f \in File /\ want[f] = p /\ D!Origin(f) = f
      BY Zenon, <1>0, <2>1, MadeIs
    <3> QED
      BY Zenon, <1>17, <2>1, <3>1, <3>2, <3>3 DEF D!Right
  <2> QED
    BY Zenon, <1>1, <2>1, GivenKept DEF D!DoneInv, D!Right, Given
<1>21. D!OkInv'
  BY Zenon, <1>1 DEF D!OkInv
<1> QED
  BY Zenon, <1>6, <1>15, <1>18, <1>19, <1>20, <1>21 DEF D!Inv

\* Saturate returns.
LEMMA OpenKept ==
    ASSUME D!OpenInv, Given, inode' = inode, job' = job, mixed' = mixed
    PROVE  D!OpenInv'
<1>1. \A o : D!Dests(o)' = D!Dests(o) /\ D!Made(o)' = D!Made(o)
  BY Zenon, GivenKept
<1>2. \A f : D!Shared(f)' <=> D!Shared(f)
  BY Zenon, GivenKept
<1>3. /\ \A o \in Oid : \A i \in job'[o].open : \E f \in D!Made(o)' : inode'[f] = i
      /\ \A o \in Oid : job'[o].pc = "copy" =>
             \A f \in D!Made(o)' : inode'[f] \in job'[o].open
  BY Zenon, <1>1 DEF D!OpenInv
<1>4. \A o \in Oid : job'[o].pc \in {"copy", "done"} => \A f \in D!Dests(o)' : inode'[f] # 0
  BY Zenon, <1>1 DEF D!OpenInv
<1>5. \A i \in mixed' : \E f \in File : D!Shared(f)' /\ prior'[f] = i
  BY Zenon, <1>2 DEF D!OpenInv, Given
<1>6. \A o \in Oid : job'[o].pc \in {"wait", "copy"} => job'[o].tries < Tries
  BY Zenon DEF D!OpenInv
<1> QED
  BY Zenon, <1>3, <1>4, <1>5, <1>6 DEF D!OpenInv

LEMMA EndsKept ==
    ASSUME D!Inv, D!Ends
    PROVE  D!Inv'
<1>0. D!TypeOK /\ D!OthersKept /\ D!InodeInv /\ D!OpenInv /\ D!DoneInv
  BY Zenon DEF D!Inv
<1>1. /\ Given /\ inode' = inode /\ cont' = cont /\ mixed' = mixed /\ job' = job
      /\ dfaults' = dfaults
  BY Zenon DEF D!Ends, Given
<1>2. dpc' \in {"ok", "failed"} /\ (dpc' = "ok" => \A o \in D!Fed : job[o].pc = "done")
  BY Zenon DEF D!Ends
<1>3. D!TypeOK'
  BY Zenon, <1>0, <1>1, <1>2 DEF D!TypeOK, Given
<1>4. D!OthersKept'
  BY Zenon, <1>0, <1>1, GivenKept DEF D!OthersKept, Given
<1>5. D!InodeInv'
  BY Zenon, <1>0, <1>1, NamesKept
<1>6. D!OpenInv'
  BY Zenon, <1>0, <1>1, OpenKept
<1>7. D!DoneInv'
  BY Zenon, <1>0, <1>1, GivenKept DEF D!DoneInv, D!Right, Given
<1>8. D!OkInv'
  BY Zenon, <1>1, <1>2, GivenKept DEF D!OkInv
<1> QED
  BY Zenon, <1>3, <1>4, <1>5, <1>6, <1>7, <1>8 DEF D!Inv

LEMMA DownloadInit == D!Init => D!Inv
<1> SUFFICES ASSUME D!Init  PROVE D!Inv
  BY Zenon
<1>1. \A o \in Oid : job[o].pc = "wait" /\ job[o].tries = 0 /\ job[o].open = {}
  BY Zenon DEF D!Init
<1>2. prior \in [File -> D!Inode \cup {0}] /\ inode = prior
  <2>1. 0..MaxInode = D!Inode \cup {0}
    BY DownloadTypes DEF D!Inode
  <2> QED
    BY Zenon, <2>1, DownloadTypes DEF D!Init
<1>3. D!TypeOK
  <2>1. job \in [Oid -> Attempt]
    BY DownloadTypes DEF D!Init, Attempt
  <2>2. base \in [Oid -> File] /\ known \subseteq Oid
    BY Zenon DEF D!Init
  <2>3. dpc \in {"run", "ok", "failed"} /\ dfaults \in 0..DownloadFaults
    BY DownloadTypes DEF D!Init
  <2>4. cont \in [D!Inode -> Oid \cup {Old, Torn}] /\ mixed \subseteq D!Inode
    BY Zenon DEF D!Init
  <2>5. link \in BOOLEAN /\ want \in [File -> Oid \cup {None}]
    BY Zenon DEF D!Init
  <2> QED
    BY Zenon, <1>2, <2>1, <2>2, <2>3, <2>4, <2>5 DEF D!TypeOK, Attempt
<1>4. D!OthersKept
  <2>1. \A i \in D!Inode : cont[i] = Old
    BY Zenon DEF D!Init
  <2>2. \A f \in File : inode[f] # 0 => inode[f] \in D!Inode
    BY Zenon, <1>2
  <2> QED
    BY Zenon, <1>2, <2>1, <2>2 DEF D!OthersKept
<1>5. D!InodeInv
  <2>1. \A o \in Oid, f \in File : want[f] = o => want[base[o]] = o
    BY Zenon DEF D!Init
  <2>2. \A f \in File : inode[f] # 0 => inode[f] = inode[D!Origin(f)]
    BY Zenon, <1>2 DEF D!Origin
  <2> QED
    BY Zenon, <1>2, <2>1, <2>2 DEF D!InodeInv
<1>6. D!OpenInv
  <2>1. \A o \in Oid : AttemptRight(o, job[o])
    BY <1>1, DownloadTypes DEF AttemptRight
  <2>2. mixed = {}
    BY Zenon DEF D!Init
  <2> QED
    BY Zenon, <2>1, <2>2 DEF D!OpenInv, AttemptRight
<1>7. D!DoneInv
  BY Zenon, <1>1 DEF D!DoneInv
<1>8. D!OkInv
  BY Zenon DEF D!OkInv, D!Init
<1> QED
  BY Zenon, <1>3, <1>4, <1>5, <1>6, <1>7, <1>8 DEF D!Inv

LEMMA DownloadInduction == D!Inv /\ [D!Next]_dvars => D!Inv'
<1> SUFFICES ASSUME D!Inv, [D!Next]_dvars  PROVE D!Inv'
  BY Zenon
<1>1. CASE UNCHANGED dvars
  <2>1. /\ Given /\ inode' = inode /\ cont' = cont /\ mixed' = mixed /\ job' = job
        /\ dpc' = dpc /\ dfaults' = dfaults
    BY Zenon, <1>1 DEF dvars, Given
  <2>2. D!TypeOK' /\ D!InodeInv'
    BY Zenon, <2>1, NamesKept DEF D!Inv, D!TypeOK, Given
  <2>3. D!OthersKept' /\ D!OkInv'
    BY Zenon, <2>1, GivenKept DEF D!Inv, D!OthersKept, D!OkInv, Given
  <2>4. D!OpenInv' /\ D!DoneInv'
    <3>1. D!OpenInv'
      BY Zenon, <2>1, OpenKept DEF D!Inv
    <3> QED
      BY Zenon, <2>1, <3>1, GivenKept DEF D!Inv, D!DoneInv, D!Right, Given
  <2> QED
    BY Zenon, <2>2, <2>3, <2>4 DEF D!Inv
<1>2. CASE D!Ends
  BY Zenon, <1>2, EndsKept
<1>3. ASSUME NEW o \in Oid, D!WorkFails(o) \/ D!CopyFails(o)
      PROVE  D!Inv'
  <2>1. /\ Given /\ inode' = inode /\ cont' = cont /\ mixed' = mixed /\ dpc' = dpc
        /\ dpc = "run" /\ D!Failed(o) /\ job[o].pc \in {"wait", "copy"}
    BY Zenon, <1>3 DEF D!WorkFails, D!CopyFails, Given
  <2> QED
    BY Zenon, <2>1, FailsKept
<1>4. ASSUME NEW o \in Oid, D!SaveDownload(o)  PROVE D!Inv'
  BY Zenon, <1>4, SavedKept
<1>5. ASSUME NEW o \in Oid, D!Copied(o)  PROVE D!Inv'
  BY Zenon, <1>5, CopiedKept
<1> QED
  BY Zenon, <1>1, <1>2, <1>3, <1>4, <1>5 DEF D!Next

LEMMA DownloadIsWhole == D!Inv => D!DownloadWhole
<1>1. SUFFICES ASSUME D!Inv, dpc = "ok", NEW f \in File, want[f] # None, want[f] \in known,
                      ~(link /\ prior[f] # 0 /\ base[want[f]] # f),
                      ~D!Shared(f), ~(link /\ D!Shared(base[want[f]]))
               PROVE  D!Right(f)
  BY Zenon DEF D!DownloadWhole
<1>2. D!TypeOK /\ D!InodeInv /\ D!OpenInv /\ D!DoneInv /\ D!OkInv
  BY Zenon, <1>1 DEF D!Inv
<1>3. PICK o \in Oid : o = want[f]
  BY Zenon, <1>1, <1>2 DEF D!TypeOK
<1>4. f \in D!Dests(o) /\ o \in D!Fed
  BY Zenon, <1>1, <1>3 DEF D!Dests, D!Fed
<1>5. job[o].pc = "done"
  BY Zenon, <1>1, <1>2, <1>4 DEF D!OkInv
<1>6. \A g \in D!Made(o) : D!Shared(g) \/ D!Right(g)
  BY Zenon, <1>2, <1>5 DEF D!DoneInv
<1>7. CASE f \in D!Made(o)
  BY Zenon, <1>1, <1>6, <1>7
<1>8. CASE f \notin D!Made(o)
  <2>1. base[o] \in D!Made(o)
    BY Zenon, <1>2, <1>4, BaseMade
  <2>2. link /\ f # base[o]
    BY Zenon, <1>4, <1>8 DEF D!Made
  <2>3. D!Origin(f) = base[o]
    BY Zenon, <1>1, <1>3, <2>2 DEF D!Origin
  <2>4. inode[f] # 0
    BY Zenon, <1>2, <1>4, <1>5 DEF D!OpenInv
  <2>5. inode[f] = inode[base[o]]
    BY Zenon, <1>1, <1>2, <2>3, <2>4 DEF D!InodeInv
  <2>6. D!Right(base[o])
    BY Zenon, <1>1, <1>3, <1>6, <2>1, <2>2
  <2>7. want[base[o]] = o
    BY Zenon, <1>2, <2>1, MadeIs
  <2> QED
    BY Zenon, <1>3, <2>4, <2>5, <2>6, <2>7 DEF D!Right
<1> QED
  BY Zenon, <1>7, <1>8

(***************************************************************************)
(* Whatever is listed, whatever was there before, and however attempts     *)
(* fail and writers interleave: a download that reports success has every  *)
(* listed file with its content, but for the names DownloadWhole excepts,  *)
(* and other files keep what they held.                                    *)
(***************************************************************************)
THEOREM DownloadsWhole == D!Spec => []DownloadRight
<1>1. D!Init => D!Inv
  BY Zenon, DownloadInit
<1>2. D!Inv /\ [D!Next]_(D!vars) => D!Inv'
  BY Zenon, DownloadInduction DEF dvars, D!vars
<1>3. D!Inv => DownloadRight
  BY Zenon, DownloadIsWhole DEF D!Inv, DownloadRight
<1> QED
  BY <1>1, <1>2, <1>3, PTL DEF D!Spec

===============================================================================
