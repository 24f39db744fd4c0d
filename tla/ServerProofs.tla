----------------------------- MODULE ServerProofs -----------------------------
(***************************************************************************)
(* Proofs about what a server keeps beside its blobs: its connections to   *)
(* the other nodes, for any requests and any number of connections, and    *)
(* the configuration, for any parameters, values, nodes, administrators    *)
(* and documents of other versions, and for any jobs, updaters and         *)
(* periods.  A step of MCConfig is one of ConfigStore or of                *)
(* ConfigBroadcast, and leaves the variables of the other alone.           *)
(***************************************************************************)
EXTENDS FramesPart, ConfigPart, Sequences, FiniteSetTheorems, TLAPS

(***************************************************************************)
(* FrameClients.                                                           *)
(***************************************************************************)
LEMMA FrameTypes ==
    /\ MaxClients \in Nat \ {0} /\ MaxUses \in Nat /\ MaxIdle \in Nat
    /\ F!Client = 1..MaxClients /\ F!None = 0
  BY FramesAssumption DEF F!FrameAssumption, F!Client, F!None

\* FrameClients counts with its own instance of FiniteSets.
LEMMA CardIs == ASSUME NEW X  PROVE F!Cardinality(X) = Cardinality(X)
  BY Zenon DEF Cardinality, F!Cardinality

LEMMA ChainIs ==
    /\ F!ChainInv <=> Cardinality(checker) + loose + Cardinality(F!Busy) <=
                        (IF entry = F!None THEN 0 ELSE 1) + Cardinality(overwritten)
    /\ F!OneChain <=> Cardinality(checker) + loose + Cardinality(F!Busy) <=
                        1 + Cardinality(overwritten)
  BY Zenon, CardIs DEF F!ChainInv, F!OneChain

LEMMA ChainIsNext ==
    F!ChainInv' <=> Cardinality(checker') + loose' + Cardinality(F!Busy') <=
                        (IF entry' = F!None THEN 0 ELSE 1) + Cardinality(overwritten')
  BY Zenon, CardIs DEF F!ChainInv

LEMMA FramesInit == F!Init => F!Inv
<1> SUFFICES ASSUME F!Init  PROVE F!Inv
  BY Zenon
<1> USE FrameTypes DEF F!Init, F!Off, F!ReqOff
<1>1. F!TypeOK
  BY DEF F!TypeOK, F!Long
<1>2. F!Busy = {}
  BY Zenon DEF F!Busy
<1>3. F!ChainInv
  <2>1. Cardinality({}) = 0
    BY Zenon, FS_EmptySet
  <2> QED
    BY SMTT(30), <1>2, <2>1, ChainIs
<1>4. F!LeakOnlyThere /\ F!EntryInv /\ F!CheckInv
  BY Zenon DEF F!LeakOnlyThere, F!EntryInv, F!CheckInv
<1> QED
  BY Zenon, <1>1, <1>3, <1>4 DEF F!Inv

\* The sets that are counted are finite.
LEMMA FramesFinite ==
    ASSUME F!TypeOK
    PROVE  /\ IsFiniteSet(F!Client) /\ Cardinality(F!Client) = MaxClients
           /\ \A X \in SUBSET F!Client : IsFiniteSet(X) /\ Cardinality(X) \in Nat
           /\ F!Busy \subseteq F!Client
<1>1. IsFiniteSet(F!Client) /\ Cardinality(F!Client) = MaxClients
  BY FrameTypes, FS_Interval
<1>2. \A X \in SUBSET F!Client : IsFiniteSet(X) /\ Cardinality(X) \in Nat
  BY Zenon, <1>1, FS_Subset, FS_CardinalityType
<1> QED
  BY Zenon, <1>1, <1>2 DEF F!Busy

LEMMA FramesSets ==
    ASSUME F!TypeOK
    PROVE  /\ checker \in SUBSET F!Client /\ overwritten \in SUBSET F!Client
           /\ F!Busy \in SUBSET F!Client /\ loose \in Nat
           /\ Cardinality(checker) \in Nat /\ Cardinality(overwritten) \in Nat
           /\ Cardinality(F!Busy) \in Nat
<1>1. /\ checker \in SUBSET F!Client /\ overwritten \in SUBSET F!Client
      /\ F!Busy \in SUBSET F!Client
  BY Zenon DEF F!TypeOK, F!Busy
<1>2. loose \in Nat
  BY FrameTypes DEF F!TypeOK
<1> QED
  BY Zenon, <1>1, <1>2, FramesFinite

LEMMA CardAdd ==
    ASSUME F!TypeOK, NEW X \in SUBSET F!Client, NEW c
    PROVE  /\ Cardinality(X \cup {c}) = Cardinality(X) + (IF c \in X THEN 0 ELSE 1)
           /\ Cardinality(X \ {c}) = Cardinality(X) - (IF c \in X THEN 1 ELSE 0)
           /\ Cardinality(X) \in Nat
<1>1. IsFiniteSet(X) /\ Cardinality(X) \in Nat
  BY Zenon, FramesFinite
<1>2. Cardinality(X \cup {c}) = IF c \in X THEN Cardinality(X) ELSE Cardinality(X) + 1
  BY Zenon, <1>1, FS_AddElement
<1>3. Cardinality(X \ {c}) = IF c \in X THEN Cardinality(X) - 1 ELSE Cardinality(X)
  BY Zenon, <1>1, FS_RemoveElement
<1> QED
  BY <1>1, <1>2, <1>3

(***************************************************************************)
(* A step that neither starts nor ends a timer, a check or a connection.   *)
(***************************************************************************)
LEMMA ChainSame ==
    ASSUME F!Inv, F!Busy' = F!Busy, UNCHANGED <<checker, loose, entry, overwritten, made, open>>
    PROVE  F!ChainInv' /\ F!EntryInv' /\ F!LeakOnlyThere'
  BY Zenon DEF F!Inv, F!ChainInv, F!EntryInv, F!LeakOnlyThere

LEMMA RequestsKeep ==
    ASSUME F!Inv, NEW r \in Request, F!FindExistingFrameClient(r) \/ F!Use(r)
    PROVE  F!Inv'
<1> USE FrameTypes DEF F!ReqOff
<1>1. UNCHANGED <<entry, open, made, checker, loose, prev, idle, check, overwritten>>
  BY Zenon DEF F!FindExistingFrameClient, F!Use, F!UseOf
<1>2. F!TypeOK'
  <2>1. CASE F!FindExistingFrameClient(r)
    BY Zenon, <2>1 DEF F!Inv, F!TypeOK, F!FindExistingFrameClient
  <2>2. CASE F!Use(r)
    <3>1. bytes' \in [F!Client -> 0..MaxUses]
      <4>1. CASE bytes' = bytes
        BY Zenon, <4>1 DEF F!Inv, F!TypeOK
      <4>2. CASE /\ req[r].fc \in open /\ bytes[req[r].fc] < MaxUses
                 /\ bytes' = [bytes EXCEPT ![req[r].fc] = @ + 1]
        <5>1. PICK c \in F!Client : c = req[r].fc
          BY Zenon, <4>2 DEF F!Inv, F!TypeOK
        <5>2. bytes \in [F!Client -> 0..MaxUses]
          BY Zenon DEF F!Inv, F!TypeOK
        <5>3. bytes' = [bytes EXCEPT ![c] = bytes[c] + 1]
          BY Zenon, <4>2, <5>1, <5>2
        <5>4. bytes[c] \in 0..MaxUses /\ bytes[c] < MaxUses
          BY Zenon, <4>2, <5>1, <5>2
        <5> QED
          BY SMTT(30), <5>2, <5>3, <5>4
      <4> QED
        BY Zenon, <2>2, <4>1, <4>2 DEF F!Use, F!UseOf
    <3>2. req' \in [Request -> [pc : {"off", "dial", "use"}, fc : F!Client \cup {F!None}]]
      BY Zenon, <2>2 DEF F!Inv, F!TypeOK, F!Use, F!UseOf
    <3> QED
      BY Zenon, <1>1, <3>1, <3>2 DEF F!Inv, F!TypeOK
  <2> QED
    BY Zenon, <2>1, <2>2
<1>3. F!Busy' = F!Busy
  BY Zenon, <1>1 DEF F!Busy
<1>4. F!CheckInv'
  BY Zenon, <1>1 DEF F!Inv, F!CheckInv
<1> QED
  BY Zenon, <1>1, <1>2, <1>3, <1>4, ChainSame DEF F!Inv

\* Without an entry, and with none replaced, there is no check.
LEMMA NoChain ==
    ASSUME F!TypeOK, F!ChainInv, entry = F!None, overwritten = {}
    PROVE  \A k \in F!Client : check[k] = F!Off
<1>1. Cardinality(overwritten) = 0
  BY Zenon, FS_EmptySet
<1>2. Cardinality(F!Busy) \in Nat /\ Cardinality(checker) \in Nat /\ loose \in Nat
  <2>1. checker \in SUBSET F!Client /\ F!Busy \in SUBSET F!Client
    BY Zenon, FramesFinite DEF F!TypeOK
  <2>2. loose \in Nat
    BY FrameTypes DEF F!TypeOK
  <2> QED
    BY Zenon, <2>1, <2>2, FramesFinite
<1>3. Cardinality(F!Busy) = 0
  <2>1. Cardinality(checker) + loose + Cardinality(F!Busy) <= 0
    BY SMTT(30), <1>1, ChainIs
  <2> QED
    BY SMTT(30), <1>2, <2>1
<1>4. F!Busy = {}
  BY Zenon, <1>3, FramesFinite, FS_EmptySet
<1> QED
  BY Zenon, <1>4 DEF F!Busy

NoneChecked ==
    F!TypeOK /\ F!ChainInv /\ entry = F!None /\ overwritten = {}
        => \A k \in F!Client : check[k] = F!Off

LEMMA NoneCheckedHolds == NoneChecked
  BY Zenon, NoChain DEF NoneChecked

LEMMA NoChainNext ==
    ASSUME F!TypeOK', F!ChainInv', entry' = F!None, overwritten' = {}
    PROVE  \A k \in F!Client : check'[k] = F!Off
<1>1. NoneChecked'
  BY NoneCheckedHolds, PTL
<1> QED
  BY Zenon, <1>1 DEF NoneChecked

LEMMA ConnectKeeps ==
    ASSUME F!Inv, NEW r \in Request, F!ConnectNewFramesClient(r)
    PROVE  F!Inv'
<1> USE FrameTypes DEF F!ReqOff
<1>1. CASE /\ req' = [req EXCEPT ![r] = F!ReqOff]
           /\ UNCHANGED <<entry, open, made, checker, overwritten>>
  <2>1. UNCHANGED <<loose, bytes, prev, idle, check>>
    BY Zenon DEF F!ConnectNewFramesClient
  <2>2. F!TypeOK' /\ F!CheckInv' /\ F!Busy' = F!Busy
    BY Zenon, <1>1, <2>1 DEF F!Inv, F!TypeOK, F!CheckInv, F!Busy
  <2> QED
    BY Zenon, <1>1, <2>1, <2>2, ChainSame DEF F!Inv
<1>2. CASE /\ made < MaxClients
           /\ made' = made + 1 /\ entry' = made'
           /\ open' = open \cup {made'} /\ checker' = checker \cup {made'}
           /\ overwritten' = IF entry = F!None THEN overwritten ELSE overwritten \cup {entry}
           /\ req' = [req EXCEPT ![r] = [pc |-> "use", fc |-> made']]
  <2>1. UNCHANGED <<loose, bytes, prev, idle, check>> /\ made + 1 \in F!Client
        /\ entry \in F!Client \cup {F!None}
    BY <1>2 DEF F!ConnectNewFramesClient, F!Inv, F!TypeOK
  <2>2. F!TypeOK'
    <3>1. req' \in [Request -> [pc : {"off", "dial", "use"}, fc : F!Client \cup {F!None}]]
      BY Zenon, <1>2, <2>1 DEF F!Inv, F!TypeOK
    <3>2. /\ entry' \in F!Client \cup {F!None} /\ made' \in 0..MaxClients
          /\ open' \subseteq F!Client /\ checker' \subseteq F!Client
          /\ overwritten' \subseteq F!Client
      <4>1. /\ made \in Nat /\ open \subseteq F!Client /\ checker \subseteq F!Client
            /\ overwritten \subseteq F!Client
        BY SMTT(30) DEF F!Inv, F!TypeOK
      <4> QED
        BY SMTT(30), <1>2, <2>1, <4>1
    <3> QED
      BY Zenon, <2>1, <3>1, <3>2 DEF F!Inv, F!TypeOK
  <2>3. F!LeakOnlyThere'
    BY SMTT(30), <1>2 DEF F!Inv, F!TypeOK, F!LeakOnlyThere
  <2>4. F!EntryInv'
    <3>1. made \in Nat /\ entry \in {F!None, made} /\ overwritten \subseteq 1..made
      BY DEF F!Inv, F!TypeOK, F!EntryInv
    <3>2. overwritten' \subseteq 1..made
      BY SMTT(30), <1>2, <3>1
    <3> QED
      BY <1>2, <3>1, <3>2 DEF F!EntryInv
  <2>5. F!Busy' = F!Busy /\ Cardinality(F!Busy) \in Nat
    BY Zenon, <2>1, FramesFinite DEF F!Busy, F!Inv
  <2>6. F!ChainInv'
    <3>1. checker \in SUBSET F!Client /\ overwritten \in SUBSET F!Client /\ loose \in Nat
      BY SMTT(30) DEF F!Inv, F!TypeOK
    <3>2. /\ Cardinality(checker') <= Cardinality(checker) + 1
          /\ Cardinality(checker') \in Nat /\ Cardinality(checker) \in Nat
      <4>1. /\ Cardinality(checker \cup {made'}) =
                  Cardinality(checker) + (IF made' \in checker THEN 0 ELSE 1)
            /\ Cardinality(checker) \in Nat
        BY Zenon, <3>1, CardAdd DEF F!Inv
      <4> QED
        BY SMTT(30), <1>2, <4>1
    <3>3. /\ Cardinality(overwritten) \in Nat
          /\ Cardinality(overwritten') =
                Cardinality(overwritten) + (IF entry = F!None THEN 0 ELSE 1)
      <4>1. /\ Cardinality(overwritten \cup {entry}) =
                  Cardinality(overwritten) + (IF entry \in overwritten THEN 0 ELSE 1)
            /\ Cardinality(overwritten) \in Nat
        BY Zenon, <3>1, CardAdd DEF F!Inv
      <4> QED
        BY <1>2, <4>1 DEF F!Inv, F!EntryInv
    <3>4. entry' # F!None
      BY <1>2 DEF F!Inv, F!TypeOK
    <3> QED
      <4>1. Cardinality(checker) + loose + Cardinality(F!Busy) <=
                (IF entry = F!None THEN 0 ELSE 1) + Cardinality(overwritten)
        BY Zenon, ChainIs DEF F!Inv
      <4>2. Cardinality(checker') + loose + Cardinality(F!Busy) <= 1 + Cardinality(overwritten')
        BY SMTT(30), <2>5, <3>1, <3>2, <3>3, <4>1
      <4> QED
        BY Zenon, <2>1, <2>5, <3>4, <4>2, ChainIsNext
  <2>7. F!CheckInv'
    <3>1. CASE overwritten' = {}
      <4>1. F!TypeOK /\ F!ChainInv /\ entry = F!None /\ overwritten = {}
        BY Zenon, <1>2, <3>1 DEF F!Inv
      <4>2. \A k \in F!Client : check[k] = F!Off
        BY Zenon, <4>1, NoChain
      <4> QED
        BY SMTT(30), <2>1, <4>2 DEF F!CheckInv, F!Off
    <3>2. CASE overwritten' # {}
      BY Zenon, <2>1, <3>2 DEF F!Inv, F!CheckInv
    <3> QED
      BY Zenon, <3>1, <3>2
  <2> QED
    BY Zenon, <2>2, <2>3, <2>4, <2>6, <2>7 DEF F!Inv
<1> QED
  BY Zenon, <1>1, <1>2 DEF F!ConnectNewFramesClient

-------------------------------------------------------------------------------
\* A check: [pc, fc, info].
CheckSet ==
    [pc : {"off", "find", "look", "ping", "destroy", "arm"}, fc : F!Client \cup {F!None},
     info : 0..MaxUses]

LEMMA CheckSetIs == ASSUME F!TypeOK  PROVE check \in [F!Client -> CheckSet]
  BY Zenon DEF F!TypeOK, CheckSet

LEMMA OffIs == F!Off \in CheckSet /\ F!Off.pc = "off"
  BY SMTT(30), FrameTypes DEF F!Off, CheckSet

(***************************************************************************)
(* A step of check k: it is off, or goes on.                               *)
(***************************************************************************)
LEMMA OneCheck ==
    ASSUME F!TypeOK, NEW k \in F!Client, NEW e \in CheckSet, check' = [check EXCEPT ![k] = e]
    PROVE  /\ check' \in [F!Client -> CheckSet] /\ check'[k] = e
           /\ \A j \in F!Client : j # k => check'[j] = check[j]
           /\ F!Busy' = IF e = F!Off THEN F!Busy \ {k} ELSE F!Busy \cup {k}
<1>1. /\ check' \in [F!Client -> CheckSet] /\ check'[k] = e
      /\ \A j \in F!Client : j # k => check'[j] = check[j]
  BY Zenon, CheckSetIs
<1>2. CASE e = F!Off
  BY Zenon, <1>1, <1>2 DEF F!Busy
<1>3. CASE e # F!Off
  BY Zenon, <1>1, <1>3 DEF F!Busy
<1> QED
  BY Zenon, <1>1, <1>2, <1>3

\* What such a step has to show of CheckInv.
LEMMA CheckInvKept ==
    ASSUME F!Inv, NEW k \in F!Client, NEW e \in CheckSet, check' = [check EXCEPT ![k] = e],
           UNCHANGED <<entry, overwritten>>,
           e.pc \in {"look", "ping", "destroy", "arm"} =>
               e.fc # F!None /\ (overwritten = {} => e.fc = entry)
    PROVE  F!CheckInv'
<1>1. check'[k] = e /\ \A j \in F!Client : j # k => check'[j] = check[j]
  BY Zenon, OneCheck DEF F!Inv
<1>2. ASSUME NEW j \in F!Client, check'[j].pc \in {"look", "ping", "destroy", "arm"}
      PROVE  check'[j].fc # F!None /\ (overwritten' = {} => check'[j].fc = entry')
  <2>1. CASE j = k
    BY Zenon, <1>1, <1>2, <2>1
  <2>2. CASE j # k
    BY Zenon, <1>1, <1>2, <2>2 DEF F!Inv, F!CheckInv
  <2> QED
    BY Zenon, <2>1, <2>2
<1> QED
  BY Zenon, <1>2 DEF F!CheckInv

(***************************************************************************)
(* The steps of a check that leave the connections alone: CheckFind,       *)
(* CheckLook and Ping.                                                     *)
(***************************************************************************)
LEMMA CheckStep ==
    ASSUME F!Inv, NEW k \in F!Client, NEW e \in CheckSet, check' = [check EXCEPT ![k] = e],
           check[k] # F!Off, UNCHANGED <<entry, open, made, checker, loose, bytes, prev, req,
                                         overwritten>>,
           idle' \in [F!Client -> 0..F!Long],
           e.pc \in {"look", "ping", "destroy", "arm"} =>
               e.fc # F!None /\ (overwritten = {} => e.fc = entry)
    PROVE  F!Inv'
<1>1. check' \in [F!Client -> CheckSet]
  BY Zenon, OneCheck DEF F!Inv
<1>2. F!TypeOK'
  BY Zenon, <1>1 DEF F!Inv, F!TypeOK, CheckSet
<1>3. F!CheckInv'
  BY Zenon, CheckInvKept
<1>4. F!EntryInv' /\ F!LeakOnlyThere'
  BY Zenon DEF F!Inv, F!EntryInv, F!LeakOnlyThere
<1>5. F!ChainInv'
  <2>1. k \in F!Busy
    BY Zenon DEF F!Busy
  <2>2. F!Busy' = IF e = F!Off THEN F!Busy \ {k} ELSE F!Busy
    <3>1. F!Busy' = IF e = F!Off THEN F!Busy \ {k} ELSE F!Busy \cup {k}
      BY Zenon, OneCheck DEF F!Inv
    <3>2. F!Busy \cup {k} = F!Busy
      BY Zenon, <2>1
    <3> QED
      BY Zenon, <3>1, <3>2
  <2>5. /\ Cardinality(checker) \in Nat /\ Cardinality(overwritten) \in Nat /\ loose \in Nat
        /\ Cardinality(F!Busy) \in Nat /\ F!Busy \in SUBSET F!Client
    BY Zenon, FramesSets DEF F!Inv
  <2>6. Cardinality(F!Busy') \in Nat /\ Cardinality(F!Busy') <= Cardinality(F!Busy)
    <3>1. CASE e = F!Off
      <4>1. Cardinality(F!Busy \ {k}) = Cardinality(F!Busy) - (IF k \in F!Busy THEN 1 ELSE 0)
        BY Zenon, <2>5, CardAdd DEF F!Inv
      <4>2. Cardinality(F!Busy \ {k}) \in Nat
        <5>1. F!Busy \ {k} \in SUBSET F!Client
          BY Zenon, <2>5
        <5> QED
          BY Zenon, <5>1, FramesFinite DEF F!Inv
      <4> QED
        BY SMTT(30), <2>1, <2>2, <2>5, <3>1, <4>1, <4>2
    <3>2. CASE e # F!Off
      BY SMTT(30), <2>2, <2>5, <3>2
    <3> QED
      BY Zenon, <3>1, <3>2
  <2>7. Cardinality(checker) + loose + Cardinality(F!Busy) <=
            (IF entry = F!None THEN 0 ELSE 1) + Cardinality(overwritten)
    BY Zenon, ChainIs DEF F!Inv
  <2>8. Cardinality(checker) + loose + Cardinality(F!Busy') <=
            (IF entry = F!None THEN 0 ELSE 1) + Cardinality(overwritten)
    BY SMTT(30), <2>5, <2>6, <2>7
  <2> QED
    BY Zenon, <2>8, ChainIsNext
<1> QED
  BY Zenon, <1>2, <1>3, <1>4, <1>5 DEF F!Inv

LEMMA CheckFindKeeps == ASSUME F!Inv, NEW k \in F!Client, F!CheckFind(k)  PROVE F!Inv'
<1> USE FrameTypes
<1>1. PICK e : e = IF entry = F!None THEN F!Off ELSE [pc |-> "look", fc |-> entry, info |-> 0]
  BY Zenon
<1>2. e \in CheckSet /\ (e.pc = "look" => e.fc = entry /\ entry # F!None)
      /\ e.pc \in {"off", "look"}
  <2>1. entry \in F!Client \cup {F!None}
    BY Zenon DEF F!Inv, F!TypeOK
  <2> QED
    BY <1>1, <2>1, OffIs DEF CheckSet
<1>3. /\ check' = [check EXCEPT ![k] = e] /\ check[k].pc = "find"
      /\ UNCHANGED <<entry, open, made, checker, loose, bytes, prev, req, overwritten, idle>>
  BY Zenon, <1>1 DEF F!CheckFind
<1>4. check[k] # F!Off
  BY Zenon, <1>3, OffIs
<1>5. idle' \in [F!Client -> 0..F!Long]
  BY Zenon, <1>3 DEF F!Inv, F!TypeOK
<1> QED
  BY Zenon, <1>2, <1>3, <1>4, <1>5, CheckStep

\* What the checks that have found a client have in common.
LEMMA CheckOf ==
    ASSUME F!Inv, NEW k \in F!Client, check[k].pc \in {"look", "ping", "destroy", "arm"}
    PROVE  /\ check[k] \in CheckSet /\ check[k].fc \in F!Client /\ check[k] # F!Off
           /\ overwritten = {} => check[k].fc = entry
<1>1. check[k] \in CheckSet
  BY Zenon, CheckSetIs DEF F!Inv
<1>2. check[k].fc # F!None /\ (overwritten = {} => check[k].fc = entry)
  BY Zenon DEF F!Inv, F!CheckInv
<1>3. check[k] # F!Off
  <2> SUFFICES ASSUME check[k] = F!Off PROVE FALSE
    BY Zenon
  <2>1. check[k].pc = "off"
    BY Zenon, OffIs
  <2> QED
    BY Zenon, <2>1
<1> QED
  BY Zenon, <1>1, <1>2, <1>3 DEF CheckSet

LEMMA CheckLookKeeps == ASSUME F!Inv, NEW k \in F!Client, F!CheckLook(k)  PROVE F!Inv'
<1> USE FrameTypes
<1>1. check[k].pc = "look"
  BY Zenon DEF F!CheckLook
<1>2. /\ check[k] \in CheckSet /\ check[k].fc \in F!Client /\ check[k] # F!Off
      /\ overwritten = {} => check[k].fc = entry
  BY Zenon, <1>1, CheckOf
<1>3. PICK c \in F!Client : c = check[k].fc
  BY Zenon, <1>2
<1>4. PICK p \in {"destroy", "arm", "ping"}, since \in {0, idle[c]} :
         /\ idle' = [idle EXCEPT ![c] = since]
         /\ check' = [check EXCEPT ![k] = [check[k] EXCEPT !.info = bytes[c], !.pc = p]]
  <2>1. check \in [F!Client -> CheckSet]
    BY Zenon, CheckSetIs DEF F!Inv
  <2> QED
    BY Zenon, <1>3, <2>1 DEF F!CheckLook
<1>5. PICK e : e = [check[k] EXCEPT !.info = bytes[c], !.pc = p]
  BY Zenon
<1>6. bytes[c] \in 0..MaxUses /\ idle[c] \in 0..F!Long /\ idle \in [F!Client -> 0..F!Long]
      /\ F!Long \in Nat
  <2>1. bytes \in [F!Client -> 0..MaxUses] /\ idle \in [F!Client -> 0..F!Long]
    BY Zenon DEF F!Inv, F!TypeOK
  <2>2. F!Long \in Nat
    BY DEF F!Long
  <2> QED
    BY Zenon, <2>1, <2>2
<1>7. e \in CheckSet /\ e.fc = check[k].fc
  BY Zenon, <1>2, <1>4, <1>5, <1>6 DEF CheckSet
<1>8. idle' \in [F!Client -> 0..F!Long]
  BY <1>4, <1>6
<1>9. UNCHANGED <<entry, open, made, checker, loose, bytes, prev, req, overwritten>>
  BY Zenon DEF F!CheckLook
<1>10. check' = [check EXCEPT ![k] = e] /\ e.fc # F!None
  BY SMTT(30), <1>2, <1>4, <1>5, <1>7
<1> QED
  BY Zenon, <1>2, <1>7, <1>8, <1>9, <1>10, CheckStep

LEMMA PingKeeps == ASSUME F!Inv, NEW k \in F!Client, F!Ping(k)  PROVE F!Inv'
<1> USE FrameTypes
<1>1. check[k].pc = "ping"
  BY Zenon DEF F!Ping
<1>2. /\ check[k] \in CheckSet /\ check[k].fc \in F!Client /\ check[k] # F!Off
      /\ overwritten = {} => check[k].fc = entry
  BY Zenon, <1>1, CheckOf
<1>3. PICK p \in {"destroy", "arm"} : check' = [check EXCEPT ![k].pc = p]
  BY Zenon DEF F!Ping
<1>4. PICK e : e = [check[k] EXCEPT !.pc = p]
  BY Zenon
<1>5. e \in CheckSet /\ e.fc = check[k].fc
  BY Zenon, <1>2, <1>4 DEF CheckSet
<1>6. check' = [check EXCEPT ![k] = e] /\ e.fc # F!None
  <2>1. check \in [F!Client -> CheckSet]
    BY Zenon, CheckSetIs DEF F!Inv
  <2> QED
    BY <1>2, <1>3, <1>4, <1>5, <2>1
<1>7. UNCHANGED <<entry, open, made, checker, loose, bytes, prev, idle, req, overwritten>>
  BY Zenon DEF F!Ping
<1>8. idle' \in [F!Client -> 0..F!Long]
  BY Zenon, <1>7 DEF F!Inv, F!TypeOK
<1> QED
  BY Zenon, <1>2, <1>5, <1>6, <1>7, <1>8, CheckStep

LEMMA FireKeeps == ASSUME F!Inv, NEW k \in F!Client, F!Fire(k)  PROVE F!Inv'
<1> USE FrameTypes
<1>1. UNCHANGED <<entry, open, made, bytes, prev, idle, req, overwritten>> /\ check[k] = F!Off
  BY Zenon DEF F!Fire
<1>2. PICK e : e = [F!Off EXCEPT !.pc = "find"]
  BY Zenon
<1>3. e \in CheckSet /\ e.pc = "find" /\ e # F!Off
  BY <1>2 DEF F!Off, CheckSet
<1>4. check' = [check EXCEPT ![k] = e]
  <2>1. check' = [check EXCEPT ![k].pc = "find"] /\ check \in [F!Client -> CheckSet]
    BY Zenon, CheckSetIs DEF F!Fire, F!Inv
  <2> QED
    BY Zenon, <1>1, <1>2, <2>1
<1>5. check' \in [F!Client -> CheckSet] /\ F!Busy' = F!Busy \cup {k}
  BY Zenon, <1>3, <1>4, OneCheck DEF F!Inv
<1>6. /\ checker \in SUBSET F!Client /\ F!Busy \in SUBSET F!Client /\ loose \in Nat
      /\ Cardinality(checker) \in Nat /\ Cardinality(overwritten) \in Nat
      /\ Cardinality(F!Busy) \in Nat
  BY Zenon, FramesSets DEF F!Inv
<1>7. Cardinality(F!Busy') = Cardinality(F!Busy) + 1
  <2>1. Cardinality(F!Busy \cup {k}) = Cardinality(F!Busy) + (IF k \in F!Busy THEN 0 ELSE 1)
    BY Zenon, <1>6, CardAdd DEF F!Inv
  <2>2. k \notin F!Busy
    BY Zenon, <1>1 DEF F!Busy
  <2> QED
    BY Zenon, <1>5, <2>1, <2>2
<1>8. /\ checker' \in SUBSET F!Client /\ loose' \in Nat /\ loose' <= loose
      /\ Cardinality(checker') \in Nat
      /\ Cardinality(checker') + loose' + 1 = Cardinality(checker) + loose
  <2>1. CASE loose > 0 /\ loose' = loose - 1 /\ checker' = checker
    BY SMTT(30), <1>6, <2>1
  <2>2. CASE \E c \in checker : checker' = checker \ {c} /\ loose' = loose
    <3>1. PICK c \in checker : checker' = checker \ {c} /\ loose' = loose
      BY Zenon, <2>2
    <3>2. Cardinality(checker \ {c}) = Cardinality(checker) - (IF c \in checker THEN 1 ELSE 0)
      BY Zenon, <1>6, CardAdd DEF F!Inv
    <3>3. checker' \in SUBSET F!Client
      BY Zenon, <1>6, <3>1
    <3>4. Cardinality(checker') \in Nat
      BY Zenon, <3>3, FramesFinite DEF F!Inv
    <3> QED
      BY SMTT(30), <1>6, <3>1, <3>2, <3>3, <3>4
  <2> QED
    BY Zenon, <2>1, <2>2 DEF F!Fire
<1>9. F!TypeOK'
  <2>1. loose' \in 0..MaxClients
    <3>1. loose \in 0..MaxClients
      BY Zenon DEF F!Inv, F!TypeOK
    <3> QED
      BY <1>8, <3>1
  <2> QED
    BY Zenon, <1>1, <1>5, <1>8, <2>1 DEF F!Inv, F!TypeOK, CheckSet
<1>10. F!ChainInv'
  <2>1. Cardinality(checker) + loose + Cardinality(F!Busy) <=
            (IF entry = F!None THEN 0 ELSE 1) + Cardinality(overwritten)
    BY Zenon, ChainIs DEF F!Inv
  <2>2. Cardinality(checker') + loose' + Cardinality(F!Busy') <=
            (IF entry = F!None THEN 0 ELSE 1) + Cardinality(overwritten)
    BY SMTT(30), <1>6, <1>7, <1>8, <2>1
  <2> QED
    BY Zenon, <1>1, <2>2, ChainIsNext
<1>11. F!CheckInv'
  BY Zenon, <1>1, <1>3, <1>4, CheckInvKept
<1>12. F!EntryInv' /\ F!LeakOnlyThere'
  BY Zenon, <1>1 DEF F!Inv, F!EntryInv, F!LeakOnlyThere
<1> QED
  BY Zenon, <1>9, <1>10, <1>11, <1>12 DEF F!Inv

LEMMA TickKeeps == ASSUME F!Inv, F!Tick  PROVE F!Inv'
<1> USE FrameTypes
<1>1. UNCHANGED <<entry, open, made, checker, loose, bytes, prev, req, check, overwritten>>
  BY Zenon DEF F!Tick
<1>2. idle' \in [F!Client -> 0..F!Long]
  <2>1. idle \in [F!Client -> 0..F!Long]
    BY Zenon DEF F!Inv, F!TypeOK
  <2>2. F!Long \in Nat
    BY SMTT(30) DEF F!Long
  <2> QED
    BY SMTT(30), <2>1, <2>2 DEF F!Tick
<1>3. F!TypeOK'
  BY Zenon, <1>1, <1>2 DEF F!Inv, F!TypeOK
<1>4. F!Busy' = F!Busy /\ F!CheckInv'
  BY Zenon, <1>1 DEF F!Inv, F!Busy, F!CheckInv
<1> QED
  BY Zenon, <1>1, <1>3, <1>4, ChainSame DEF F!Inv

(***************************************************************************)
(* The clients that were replaced and the entry are different clients.     *)
(***************************************************************************)
LEMMA ChainBound ==
    ASSUME F!Inv
    PROVE  (IF entry = F!None THEN 0 ELSE 1) + Cardinality(overwritten) <= MaxClients
<1> USE FrameTypes
<1>1. overwritten \in SUBSET F!Client /\ Cardinality(overwritten) \in Nat
  BY Zenon, FramesSets DEF F!Inv
<1>2. \A X \in SUBSET F!Client : Cardinality(X) <= MaxClients
  BY Zenon, FramesFinite, FS_Subset DEF F!Inv
<1>3. CASE entry = F!None
  BY <1>1, <1>2, <1>3
<1>4. CASE entry # F!None
  <2>1. Cardinality(overwritten \cup {entry}) =
            Cardinality(overwritten) + (IF entry \in overwritten THEN 0 ELSE 1)
    BY Zenon, <1>1, CardAdd DEF F!Inv
  <2>2. entry \in F!Client /\ entry \notin overwritten
    BY Zenon, <1>4 DEF F!Inv, F!TypeOK, F!EntryInv
  <2>3. overwritten \cup {entry} \in SUBSET F!Client
    BY Zenon, <1>1, <2>2
  <2> QED
    BY <1>1, <1>2, <1>4, <2>1, <2>2, <2>3
<1> QED
  BY Zenon, <1>3, <1>4

\* The check ends.
LEMMA CheckEnds ==
    ASSUME F!Inv, NEW k \in F!Client, check[k] # F!Off, check' = [check EXCEPT ![k] = F!Off]
    PROVE  /\ check' \in [F!Client -> CheckSet]
           /\ Cardinality(F!Busy') + 1 = Cardinality(F!Busy)
           /\ Cardinality(F!Busy') \in Nat
<1>1. check' \in [F!Client -> CheckSet] /\ F!Busy' = F!Busy \ {k}
  BY Zenon, OffIs, OneCheck DEF F!Inv
<1>2. F!Busy \in SUBSET F!Client /\ Cardinality(F!Busy) \in Nat
  BY Zenon, FramesSets DEF F!Inv
<1>3. Cardinality(F!Busy \ {k}) = Cardinality(F!Busy) - (IF k \in F!Busy THEN 1 ELSE 0)
  BY Zenon, <1>2, CardAdd DEF F!Inv
<1>4. k \in F!Busy /\ F!Busy \ {k} \in SUBSET F!Client
  BY Zenon, <1>2 DEF F!Busy
<1>5. Cardinality(F!Busy \ {k}) \in Nat
  BY Zenon, <1>4, FramesFinite DEF F!Inv
<1> QED
  BY SMTT(30), <1>1, <1>2, <1>3, <1>4, <1>5

(***************************************************************************)
(* With the entry the last timer or check of its chain has gone: as long   *)
(* as no entry was replaced, none is left that could take another client   *)
(* for its own.                                                            *)
(***************************************************************************)
LEMMA DestroyKeeps == ASSUME F!Inv, NEW k \in F!Client, F!DestroyFrameClient(k)  PROVE F!Inv'
<1> USE FrameTypes
<1>1. /\ check[k].pc = "destroy" /\ entry' = F!None
      /\ open' = open \ {entry} /\ checker' = checker \ {entry}
      /\ check' = [check EXCEPT ![k] = F!Off]
      /\ UNCHANGED <<made, loose, bytes, prev, idle, req, overwritten>>
  BY Zenon DEF F!DestroyFrameClient, F!Destroy
<1>2. check[k] # F!Off
  BY Zenon, <1>1, OffIs
<1>3. /\ check' \in [F!Client -> CheckSet]
      /\ Cardinality(F!Busy') + 1 = Cardinality(F!Busy) /\ Cardinality(F!Busy') \in Nat
  BY Zenon, <1>1, <1>2, CheckEnds
<1>4. F!TypeOK'
  <2>1. /\ entry' \in F!Client \cup {F!None} /\ open' \subseteq F!Client
        /\ checker' \subseteq F!Client
    BY Zenon, <1>1 DEF F!Inv, F!TypeOK
  <2> QED
    BY Zenon, <1>1, <1>3, <2>1 DEF F!Inv, F!TypeOK, CheckSet
<1>5. F!LeakOnlyThere' /\ F!EntryInv'
  BY SMTT(30), <1>1 DEF F!Inv, F!TypeOK, F!LeakOnlyThere, F!EntryInv
<1>6. F!ChainInv'
  <2>1. /\ checker \in SUBSET F!Client /\ loose \in Nat
        /\ Cardinality(checker) \in Nat /\ Cardinality(overwritten) \in Nat
        /\ Cardinality(F!Busy) \in Nat
    BY Zenon, FramesSets DEF F!Inv
  <2>2. Cardinality(checker \ {entry}) =
            Cardinality(checker) - (IF entry \in checker THEN 1 ELSE 0)
    BY Zenon, <2>1, CardAdd DEF F!Inv
  <2>3. checker \ {entry} \in SUBSET F!Client
    BY Zenon, <2>1
  <2>4. Cardinality(checker') \in Nat /\ Cardinality(checker') <= Cardinality(checker)
    BY <1>1, <2>1, <2>2, <2>3, FramesFinite DEF F!Inv
  <2>5. Cardinality(checker) + loose + Cardinality(F!Busy) <=
            (IF entry = F!None THEN 0 ELSE 1) + Cardinality(overwritten)
    BY Zenon, ChainIs DEF F!Inv
  <2>6. Cardinality(checker') + loose + Cardinality(F!Busy') <= Cardinality(overwritten)
    BY SMTT(30), <1>3, <2>1, <2>4, <2>5
  <2>7. Cardinality(checker') + loose + Cardinality(F!Busy') <= 0 + Cardinality(overwritten)
    BY <2>1, <2>6
  <2> QED
    BY Zenon, <1>1, <2>7, ChainIsNext
<1>7. F!CheckInv'
  <2>1. CASE overwritten = {}
    <3>1. \A j \in F!Client : check'[j] = F!Off
      BY Zenon, <1>1, <1>4, <1>6, <2>1, NoChainNext
    <3> QED
      BY Zenon, <3>1, OffIs DEF F!CheckInv
  <2>2. CASE overwritten # {}
    <3>1. \A j \in F!Client : check'[j] = F!Off \/ check'[j] = check[j]
      BY Zenon, <1>1, CheckSetIs DEF F!Inv
    <3> QED
      BY Zenon, <1>1, <2>2, <3>1, OffIs DEF F!Inv, F!CheckInv
  <2> QED
    BY Zenon, <2>1, <2>2
<1> QED
  BY Zenon, <1>4, <1>5, <1>6, <1>7 DEF F!Inv

LEMMA ArmKeeps == ASSUME F!Inv, NEW k \in F!Client, F!Arm(k)  PROVE F!Inv'
<1> USE FrameTypes
<1>1. check[k].pc = "arm"
  BY Zenon DEF F!Arm
<1>2. /\ check[k] \in CheckSet /\ check[k].fc \in F!Client /\ check[k] # F!Off
      /\ overwritten = {} => check[k].fc = entry
  BY Zenon, <1>1, CheckOf
<1>3. PICK c \in F!Client : c = check[k].fc
  BY Zenon, <1>2
<1>4. /\ prev' = [prev EXCEPT ![c] = check[k].info] /\ checker' = checker \cup {c}
      /\ loose' = IF c \in checker THEN loose + 1 ELSE loose
      /\ check' = [check EXCEPT ![k] = F!Off]
      /\ UNCHANGED <<entry, open, made, bytes, idle, req, overwritten>>
  BY Zenon, <1>3 DEF F!Arm
<1>5. /\ check' \in [F!Client -> CheckSet]
      /\ Cardinality(F!Busy') + 1 = Cardinality(F!Busy) /\ Cardinality(F!Busy') \in Nat
  BY Zenon, <1>2, <1>4, CheckEnds
<1>6. /\ checker \in SUBSET F!Client /\ loose \in Nat
      /\ Cardinality(checker) \in Nat /\ Cardinality(overwritten) \in Nat
      /\ Cardinality(F!Busy) \in Nat
  BY Zenon, FramesSets DEF F!Inv
<1>7. /\ Cardinality(checker') + loose' = Cardinality(checker) + loose + 1
      /\ Cardinality(checker') \in Nat /\ loose' \in Nat
  <2>1. Cardinality(checker \cup {c}) = Cardinality(checker) + (IF c \in checker THEN 0 ELSE 1)
    BY Zenon, <1>6, CardAdd DEF F!Inv
  <2> QED
    BY SMTT(30), <1>4, <1>6, <2>1
<1>8. Cardinality(checker') + loose' + Cardinality(F!Busy') <=
          (IF entry = F!None THEN 0 ELSE 1) + Cardinality(overwritten)
  <2>1. Cardinality(checker) + loose + Cardinality(F!Busy) <=
            (IF entry = F!None THEN 0 ELSE 1) + Cardinality(overwritten)
    BY Zenon, ChainIs DEF F!Inv
  <2> QED
    BY <1>5, <1>6, <1>7, <2>1
<1>9. F!ChainInv'
  BY Zenon, <1>4, <1>8, ChainIsNext
<1>10. F!TypeOK'
  <2>1. loose' \in 0..MaxClients
    BY SMTT(30), <1>5, <1>6, <1>7, <1>8, ChainBound
  <2>2. prev' \in [F!Client -> 0..MaxUses]
    <3>1. check[k].info \in 0..MaxUses
      BY Zenon, <1>2 DEF CheckSet
    <3>2. prev \in [F!Client -> 0..MaxUses]
      BY Zenon DEF F!Inv, F!TypeOK
    <3> QED
      BY Zenon, <1>4, <3>1, <3>2
  <2>3. checker' \subseteq F!Client
    BY Zenon, <1>4, <1>6
  <2> QED
    BY Zenon, <1>4, <1>5, <2>1, <2>2, <2>3 DEF F!Inv, F!TypeOK, CheckSet
<1>11. F!CheckInv'
  BY Zenon, <1>4, OffIs, CheckInvKept
<1>12. F!EntryInv' /\ F!LeakOnlyThere'
  BY Zenon, <1>4 DEF F!Inv, F!EntryInv, F!LeakOnlyThere
<1> QED
  BY Zenon, <1>9, <1>10, <1>11, <1>12 DEF F!Inv

\* Every step of the connections keeps their invariant.
LEMMA FramesNext == F!Inv /\ [F!Next]_fvars => F!Inv'
<1> SUFFICES ASSUME F!Inv, [F!Next]_fvars  PROVE F!Inv'
  BY Zenon
<1>1. CASE UNCHANGED fvars
  <2>1. F!TypeOK' /\ F!CheckInv' /\ F!Busy' = F!Busy
    BY Zenon, <1>1 DEF fvars, F!Inv, F!TypeOK, F!CheckInv, F!Busy
  <2> QED
    BY Zenon, <1>1, <2>1, ChainSame DEF fvars, F!Inv
<1>2. ASSUME NEW r \in Request, F!Requests(r)  PROVE F!Inv'
  BY Zenon, <1>2, RequestsKeep, ConnectKeeps DEF F!Requests
<1>3. ASSUME NEW k \in F!Client, F!Fire(k) \/ F!Checks(k)  PROVE F!Inv'
  BY Zenon, <1>3, FireKeeps, CheckFindKeeps, CheckLookKeeps, PingKeeps, DestroyKeeps,
     ArmKeeps
     DEF F!Checks
<1>4. CASE F!Tick
  BY Zenon, <1>4, TickKeeps
<1> QED
  BY Zenon, <1>1, <1>2, <1>3, <1>4 DEF F!Next

(***************************************************************************)
(* An address has one timer or check, and a connection that nobody will    *)
(* close is left only by a concurrent connect that took its place in the   *)
(* map.                                                                    *)
(***************************************************************************)
THEOREM ConnectionsKept == F!Spec => []ConnectionsRight
<1>1. F!Init => F!Inv
  BY Zenon, FramesInit
<1>2. F!Inv /\ [F!Next]_(F!vars) => F!Inv'
  BY Zenon, FramesNext DEF fvars, F!vars
<1>3. F!Inv => ConnectionsRight
  <2> SUFFICES ASSUME F!Inv  PROVE F!OneChain
    BY Zenon DEF F!Inv, ConnectionsRight
  <2>1. /\ Cardinality(checker) \in Nat /\ Cardinality(overwritten) \in Nat /\ loose \in Nat
        /\ Cardinality(F!Busy) \in Nat
    BY Zenon, FramesSets DEF F!Inv
  <2>2. Cardinality(checker) + loose + Cardinality(F!Busy) <=
            (IF entry = F!None THEN 0 ELSE 1) + Cardinality(overwritten)
    BY Zenon, ChainIs DEF F!Inv
  <2>3. Cardinality(checker) + loose + Cardinality(F!Busy) <= 1 + Cardinality(overwritten)
    BY <2>1, <2>2
  <2> QED
    BY Zenon, <2>3, ChainIs
<1> QED
  BY <1>1, <1>2, <1>3, PTL DEF F!Spec

(***************************************************************************)
(* As long as no entry was replaced, a client is destroyed only by a check *)
(* that looked at this very client, although destroyFrameClient is given   *)
(* the address and a ping may take a minute.                               *)
(***************************************************************************)
THEOREM DestroysOwn == F!Spec => DestroysChecked
<1>1. F!Init => F!Inv
  BY Zenon, FramesInit
<1>2. F!Inv /\ [F!Next]_(F!vars) => F!Inv'
  BY Zenon, FramesNext DEF fvars, F!vars
<1>3. F!Inv /\ [F!Next]_(F!vars) => [F!ChecksFirst]_fvars
  <2> SUFFICES ASSUME F!Inv, F!Next  PROVE F!ChecksFirst
    BY Zenon DEF fvars, F!vars
  <2>1. ASSUME NEW r \in Request, F!Requests(r)  PROVE open \subseteq open'
    BY Zenon, <2>1 DEF F!Requests, F!FindExistingFrameClient, F!ConnectNewFramesClient,
       F!Use, F!UseOf
  <2>2. ASSUME NEW k \in F!Client,
               F!Fire(k) \/ F!CheckFind(k) \/ F!CheckLook(k) \/ F!Ping(k) \/ F!Arm(k)
        PROVE  open' = open
    BY Zenon, <2>2 DEF F!Fire, F!CheckFind, F!CheckLook, F!Ping, F!Arm
  <2>3. ASSUME NEW k \in F!Client, F!DestroyFrameClient(k), overwritten = {},
               NEW c \in open \ open'
        PROVE  check[k].pc = "destroy" /\ check[k].fc = c
    <3>1. check[k].pc = "destroy" /\ open' = open \ {entry}
      BY Zenon, <2>3 DEF F!DestroyFrameClient, F!Destroy
    <3>2. check[k].fc = entry
      BY Zenon, <2>3, <3>1, CheckOf
    <3> QED
      BY Zenon, <2>3, <3>1, <3>2
  <2>4. CASE F!Tick
    BY Zenon, <2>4 DEF F!Tick, F!ChecksFirst
  <2> QED
    BY Zenon, <2>1, <2>2, <2>3, <2>4 DEF F!Next, F!Checks, F!ChecksFirst
<1> QED
  BY <1>1, <1>2, <1>3, PTL DEF F!Spec, DestroysChecked

-------------------------------------------------------------------------------
LEMMA DefaultIs ==
    /\ Default \in S!Conf /\ Strange \notin Param /\ Foreign \subseteq S!Docs
    /\ NoDoc \notin S!Docs /\ Admin \cap Param = {} /\ MaxEdits \in Nat
  BY Zenon, ConfigAssumption DEF S!ConfigAssumption

\* A configuration is a document, and decoding it gives it back.
LEMMA ConfIsDoc ==
    ASSUME NEW c \in S!Conf
    PROVE  c \in S!Docs /\ c # NoDoc /\ DOMAIN c = Param /\ S!OverDefaults(c, DOMAIN c) = c
<1>1. c \in [Param -> Val] /\ Param \in SUBSET (Param \cup {Strange})
  BY Zenon DEF S!Conf
<1>2. c \in S!Docs
  BY Zenon, <1>1 DEF S!Docs
<1>3. DOMAIN c = Param
  BY Zenon, <1>1
<1>4. S!OverDefaults(c, DOMAIN c) = c
  BY Zenon, <1>1, <1>3 DEF S!OverDefaults
<1> QED
  BY Zenon, <1>2, <1>3, <1>4, DefaultIs

\* What is decoded from a document is a configuration, complete or not.
LEMMA OverType ==
    ASSUME NEW d \in S!Docs, NEW D, D \subseteq DOMAIN d
    PROVE  S!OverDefaults(d, D) \in S!Conf
<1>1. PICK E \in SUBSET (Param \cup {Strange}) : d \in [E -> Val]
  BY Zenon DEF S!Docs
<1>2. \A p \in D : d[p] \in Val
  BY Zenon, <1>1
<1> QED
  BY Zenon, <1>2, DefaultIs DEF S!OverDefaults, S!Conf

\* updateConfig takes the document if it has no strange name, or leaves all as it is.
LEMMA UpdateIs ==
    ASSUME S!Inv, NEW n \in Server, S!UpdateConfig(n, document)
    PROVE  \/ globals' = globals
           \/ /\ document # NoDoc /\ Strange \notin DOMAIN document
              /\ globals' = [globals EXCEPT ![n] = S!OverDefaults(document, DOMAIN document)]
<1>1. CASE document = NoDoc
  BY Zenon, <1>1 DEF S!UpdateConfig
<1>2. CASE document # NoDoc
  <2>1. PICK r \in S!Decoded(document) :
            globals' = IF r.ok THEN [globals EXCEPT ![n] = r.conf] ELSE globals
    BY Zenon, <1>2 DEF S!UpdateConfig
  <2>2. CASE Strange \in DOMAIN document
    <3>1. PICK D : r = [ok |-> FALSE, conf |-> S!OverDefaults(document, D)]
      BY Zenon, <2>2 DEF S!Decoded
    <3>2. ~r.ok
      BY Zenon, <3>1
    <3> QED
      BY Zenon, <2>1, <3>2
  <2>3. CASE Strange \notin DOMAIN document
    <3>1. r = [ok |-> TRUE, conf |-> S!OverDefaults(document, DOMAIN document)]
      BY Zenon, <2>3 DEF S!Decoded
    <3> QED
      BY Zenon, <1>2, <2>1, <2>3, <3>1
  <2> QED
    BY Zenon, <2>2, <2>3
<1> QED
  BY Zenon, <1>1, <1>2

\* The configurations of the nodes stay ones that are known.
LEMMA UpdateKeeps ==
    ASSUME S!Inv, NEW n \in Server, S!UpdateConfig(n, document)
    PROVE  /\ globals' \in [Server -> S!Conf]
           /\ \A m \in Server : globals'[m] \in known
           /\ document = NoDoc => globals' = globals
<1>1. globals \in [Server -> S!Conf] /\ \A m \in Server : globals[m] \in known
  BY Zenon DEF S!Inv, S!TypeOK, S!ConfWhole
<1>2. CASE globals' = globals
  BY Zenon, <1>1, <1>2
<1>3. CASE /\ document # NoDoc /\ Strange \notin DOMAIN document
           /\ globals' = [globals EXCEPT ![n] = S!OverDefaults(document, DOMAIN document)]
  <2>1. S!OverDefaults(document, DOMAIN document) \in known
    BY Zenon, <1>3 DEF S!Inv, S!DocKnown
  <2>2. known \subseteq S!Conf
    BY Zenon DEF S!Inv, S!TypeOK
  <2> QED
    BY Zenon, <1>1, <1>3, <2>1, <2>2
<1> QED
  BY Zenon, UpdateIs, <1>2, <1>3

-------------------------------------------------------------------------------
(***************************************************************************)
(* The commands, and the fields of the ones that are at work.              *)
(***************************************************************************)
Command == [pc : {"put", "read"}, at : Server, param : Param, val : Val, conf : S!Conf]

LEMMA AdminIs ==
    ASSUME S!Inv, NEW a \in Admin, admin[a] # S!Off
    PROVE  /\ admin[a] \in Command
           /\ admin[a].pc \in {"put", "read"} /\ admin[a].at \in Server /\ admin[a].param \in Param
           /\ admin[a].val \in Val /\ admin[a].conf \in S!Conf
<1>1. admin[a] \in Command
  BY Zenon DEF S!Inv, S!TypeOK, Command
<1> QED
  BY Zenon, <1>1 DEF Command

LEMMA CommandIsOn ==
    ASSUME NEW q, NEW n, NEW p, NEW v, NEW c, q \in {"put", "read"}
    PROVE  [pc |-> q, at |-> n, param |-> p, val |-> v, conf |-> c] # S!Off
  BY Zenon DEF S!Off

LEMMA ReloadKeeps ==
    ASSUME S!Inv, NEW n \in Server, S!Reload(n)
    PROVE  S!Inv'
<1>1. S!UpdateConfig(n, document) /\ UNCHANGED <<document, admin, edits, known, intent, stale>>
  BY Zenon DEF S!Reload
<1>2. /\ globals' \in [Server -> S!Conf] /\ \A m \in Server : globals'[m] \in known
      /\ document = NoDoc => globals' = globals
  BY Zenon, <1>1, UpdateKeeps
<1> QED
  BY Zenon, <1>1, <1>2
  DEF S!Inv, S!TypeOK, S!ConfWhole, S!LostOnlyThere, S!DocKnown, S!AtFirst, S!CopyIsDoc

\* A command that has read through node n, which has the configurations g by then.
Got(a, n, p, v, g) ==
    /\ admin[a] = S!Off /\ edits < MaxEdits /\ edits' = edits + 1 /\ globals' = g
    /\ admin' = [admin EXCEPT ![a] =
                    [pc |-> "put", at |-> n, param |-> p, val |-> v, conf |-> g[n]]]
    /\ stale' = IF document # NoDoc /\ g[n] # document THEN stale \cup {a} ELSE stale \ {a}
    /\ UNCHANGED <<document, known, intent>>

LEMMA GotKeeps ==
    ASSUME S!Inv, NEW a \in Admin, NEW n \in Server, NEW p \in Param, NEW v \in Val,
           NEW g \in [Server -> S!Conf], \A m \in Server : g[m] \in known,
           document = NoDoc => g = globals, Got(a, n, p, v, g)
    PROVE  S!Inv'
<1> USE DEF Got
<1>1. PICK c : c = [pc |-> "put", at |-> n, param |-> p, val |-> v, conf |-> g[n]]
  BY Zenon
<1>2. /\ c \in Command /\ c # S!Off /\ c.pc = "put" /\ c.conf = g[n]
      /\ admin' = [admin EXCEPT ![a] = c]
  BY <1>1, CommandIsOn DEF Command
<1>3. /\ admin \in [Admin -> {S!Off} \cup Command] /\ stale \subseteq Admin \cup Param
      /\ edits \in 0..MaxEdits
  BY Zenon DEF S!Inv, S!TypeOK, Command
<1>4. admin' \in [Admin -> {S!Off} \cup Command] /\ stale' \subseteq Admin \cup Param
  BY Zenon, <1>2, <1>3
<1>5. S!TypeOK'
  BY SMTT(30), <1>3, <1>4, DefaultIs DEF S!Inv, S!TypeOK, Command
<1>6. S!ConfWhole' /\ S!DocKnown'
  BY Zenon DEF S!Inv, S!ConfWhole, S!DocKnown
<1>7. S!LostOnlyThere'
  BY Zenon, DefaultIs DEF S!Inv, S!LostOnlyThere
<1>8. S!AtFirst'
  BY Zenon, <1>2, <1>3 DEF S!Inv, S!AtFirst
<1>9. S!CopyIsDoc'
  BY Zenon, <1>2, <1>3 DEF S!Inv, S!CopyIsDoc
<1> QED
  BY Zenon, <1>5, <1>6, <1>7, <1>8, <1>9 DEF S!Inv

LEMMA GetsKeeps ==
    ASSUME S!Inv, NEW a \in Admin, S!Gets(a)
    PROVE  S!Inv'
<1>1. PICK n \in Server, p \in Param, v \in Val :
          S!GetConfig(a, n, p, v) \/ S!GetOldConfig(a, n, p, v)
  BY Zenon DEF S!Gets
<1>2. CASE S!GetConfig(a, n, p, v)
  <2>1. PICK g : g = globals'
    BY Zenon
  <2>2. S!UpdateConfig(n, document) /\ Got(a, n, p, v, g)
    BY Zenon, <1>2, <2>1 DEF S!GetConfig, Got
  <2>3. /\ g \in [Server -> S!Conf] /\ \A m \in Server : g[m] \in known
        /\ document = NoDoc => g = globals
    BY Zenon, <2>1, <2>2, UpdateKeeps
  <2> QED
    BY Zenon, <2>2, <2>3, GotKeeps
<1>3. CASE S!GetOldConfig(a, n, p, v)
  <2>1. Got(a, n, p, v, globals)
    BY Zenon, <1>3 DEF S!GetOldConfig, Got
  <2>2. globals \in [Server -> S!Conf] /\ \A m \in Server : globals[m] \in known
    BY Zenon DEF S!Inv, S!TypeOK, S!ConfWhole
  <2> QED
    BY Zenon, <2>1, <2>2, GotKeeps
<1> QED
  BY Zenon, <1>1, <1>2, <1>3

(***************************************************************************)
(* What is put.  The parameters that are not stale afterwards are the one  *)
(* that is set and, if the copy was not stale, those it has from the       *)
(* document.                                                               *)
(***************************************************************************)
LEMMA SetKeeps ==
    ASSUME S!Inv, NEW a \in Admin, S!SetConfigParam(a)
    PROVE  S!Inv'
<1>1. PICK c, p, v : c = admin[a].conf /\ p = admin[a].param /\ v = admin[a].val
  BY Zenon
<1>2. /\ admin[a] # S!Off /\ admin[a].pc = "put"
      /\ document' = [c EXCEPT ![p] = v] /\ known' = known \cup {document'}
      /\ intent' = [intent EXCEPT ![p] = v]
      /\ stale' = ((IF a \in stale THEN (stale \cup Param) \ {a} ELSE stale)
                      \cup S!Holding(a)) \ {p}
      /\ admin' = [admin EXCEPT ![a].pc = "read"] /\ UNCHANGED <<globals, edits>>
  BY Zenon, <1>1 DEF S!SetConfigParam, S!SetParam, S!Stores
<1>3. c \in S!Conf /\ p \in Param /\ v \in Val /\ admin[a] \in Command
  BY Zenon, <1>1, <1>2, AdminIs
<1>4. /\ document' \in S!Conf /\ document'[p] = v
      /\ \A q \in Param \ {p} : document'[q] = c[q]
  BY Zenon, <1>2, <1>3 DEF S!Conf
<1>5. /\ document' \in S!Docs /\ document' # NoDoc /\ DOMAIN document' = Param
      /\ S!OverDefaults(document', DOMAIN document') = document'
  BY Zenon, <1>4, ConfIsDoc
<1>6. /\ admin \in [Admin -> {S!Off} \cup Command] /\ stale \subseteq Admin \cup Param
      /\ intent \in S!Conf /\ known \subseteq S!Conf
  BY Zenon DEF S!Inv, S!TypeOK, Command
<1>7. PICK r : r = [admin[a] EXCEPT !.pc = "read"]
  BY Zenon
<1>8. r \in Command /\ r.pc = "read" /\ admin' = [admin EXCEPT ![a] = r]
  BY Zenon, <1>2, <1>3, <1>6, <1>7 DEF Command
<1>9. admin' \in [Admin -> {S!Off} \cup Command]
  BY Zenon, <1>6, <1>8
<1>10. stale' \subseteq Admin \cup Param
  BY Zenon, <1>2, <1>6 DEF S!Holding
<1>11. intent' \in S!Conf /\ intent'[p] = v /\ \A q \in Param \ {p} : intent'[q] = intent[q]
  BY Zenon, <1>2, <1>3, <1>6 DEF S!Conf
<1>12. S!TypeOK'
  BY Zenon, <1>2, <1>4, <1>5, <1>6, <1>9, <1>10, <1>11 DEF S!Inv, S!TypeOK, Command
<1>13. S!ConfWhole' /\ S!DocKnown' /\ S!AtFirst'
  BY Zenon, <1>2, <1>5 DEF S!Inv, S!ConfWhole, S!DocKnown, S!AtFirst
<1>14. S!LostOnlyThere'
  <2>1. ASSUME NEW q \in Param \ {p}, q \notin stale'
        PROVE  document'[q] = intent'[q]
    <3>1. q \notin stale /\ a \notin stale
      BY Zenon, <1>2, <2>1, DefaultIs
    <3>2. c[q] = intent[q]
      <4>1. CASE document = NoDoc
        BY Zenon, <1>1, <1>2, <4>1 DEF S!Inv, S!AtFirst
      <4>2. CASE document # NoDoc
        <5>1. c = document
          BY Zenon, <1>1, <1>2, <3>1, <4>2 DEF S!Inv, S!CopyIsDoc
        <5> QED
          BY Zenon, <3>1, <4>2, <5>1 DEF S!Inv, S!LostOnlyThere
      <4> QED
        BY Zenon, <4>1, <4>2
    <3> QED
      BY Zenon, <1>4, <1>11, <3>2
  <2> QED
    BY Zenon, <1>4, <1>5, <1>11, <2>1 DEF S!LostOnlyThere
<1>15. S!CopyIsDoc'
  <2> SUFFICES ASSUME NEW b \in Admin, b \notin stale', admin'[b] # S!Off, admin'[b].pc = "put"
               PROVE  FALSE
    BY Zenon DEF S!CopyIsDoc
  <2>1. b # a
    BY Zenon, <1>6, <1>8
  <2>2. admin[b] # S!Off
    BY Zenon, <1>6, <1>8, <2>1
  <2>3. b \in S!Holding(a) /\ b # p
    BY Zenon, <1>3, <2>1, <2>2, DefaultIs DEF S!Holding
  <2> QED
    BY Zenon, <1>2, <2>3
<1> QED
  BY Zenon, <1>12, <1>13, <1>14, <1>15 DEF S!Inv

LEMMA PutUpdateKeeps ==
    ASSUME S!Inv, NEW a \in Admin, S!PutUpdate(a)
    PROVE  S!Inv'
<1>1. /\ admin[a] # S!Off /\ S!UpdateConfig(admin[a].at, document)
      /\ admin' = [admin EXCEPT ![a] = S!Off]
      /\ UNCHANGED <<document, edits, known, intent, stale>>
  BY Zenon DEF S!PutUpdate
<1>2. admin[a].at \in Server
  BY Zenon, <1>1, AdminIs
<1>3. /\ globals' \in [Server -> S!Conf] /\ \A m \in Server : globals'[m] \in known
      /\ document = NoDoc => globals' = globals
  BY Zenon, <1>1, <1>2, UpdateKeeps
<1>4. admin \in [Admin -> {S!Off} \cup Command]
  BY Zenon DEF S!Inv, S!TypeOK, Command
<1>5. /\ admin' \in [Admin -> {S!Off} \cup Command]
      /\ \A b \in Admin : admin'[b] # S!Off => admin'[b] = admin[b]
  BY Zenon, <1>1, <1>4
<1>6. S!TypeOK'
  BY Zenon, <1>1, <1>3, <1>5 DEF S!Inv, S!TypeOK, Command
<1>7. S!ConfWhole' /\ S!LostOnlyThere' /\ S!DocKnown'
  BY Zenon, <1>1, <1>3 DEF S!Inv, S!ConfWhole, S!LostOnlyThere, S!DocKnown
<1>8. S!AtFirst' /\ S!CopyIsDoc'
  BY Zenon, <1>1, <1>3, <1>5 DEF S!Inv, S!AtFirst, S!CopyIsDoc
<1> QED
  BY Zenon, <1>6, <1>7, <1>8 DEF S!Inv

LEMMA OtherKeeps ==
    ASSUME S!Inv, NEW d \in Foreign, S!OtherVersion(d)
    PROVE  S!Inv'
<1>1. d \in S!Docs /\ d # NoDoc
  BY Zenon, DefaultIs
<1>2. S!OverDefaults(d, DOMAIN d) \in S!Conf
  BY Zenon, <1>1, OverType
<1>3. /\ edits < MaxEdits /\ edits' = edits + 1 /\ document' = d
      /\ known' = IF Strange \in DOMAIN d THEN known
                  ELSE known \cup {S!OverDefaults(d, DOMAIN d)}
      /\ stale' = stale \cup Param \cup {a \in Admin : admin[a] # S!Off}
      /\ UNCHANGED <<globals, admin, intent>>
  BY Zenon DEF S!OtherVersion
<1>4. S!TypeOK'
  BY SMTT(30), <1>1, <1>2, <1>3, DefaultIs DEF S!Inv, S!TypeOK
<1>5. S!ConfWhole' /\ S!DocKnown'
  BY Zenon, <1>3 DEF S!Inv, S!ConfWhole, S!DocKnown
<1>6. S!LostOnlyThere' /\ S!AtFirst' /\ S!CopyIsDoc'
  BY Zenon, <1>1, <1>3 DEF S!LostOnlyThere, S!AtFirst, S!CopyIsDoc
<1> QED
  BY Zenon, <1>4, <1>5, <1>6 DEF S!Inv

-------------------------------------------------------------------------------
LEMMA StoreInit == S!Init => S!Inv
  BY SMTT(30), DefaultIs DEF S!Init, S!Inv, S!TypeOK, S!ConfWhole, S!LostOnlyThere,
     S!DocKnown, S!AtFirst,
                   S!CopyIsDoc

LEMMA StoreKeeps == S!Inv /\ [S!Next]_svars => S!Inv'
<1> SUFFICES ASSUME S!Inv, [S!Next]_svars
             PROVE  S!Inv'
  BY Zenon
<1>1. CASE UNCHANGED svars
  BY Zenon, <1>1 DEF svars, S!Inv, S!TypeOK, S!ConfWhole, S!LostOnlyThere, S!DocKnown,
     S!AtFirst,
              S!CopyIsDoc
<1>2. ASSUME NEW n \in Server, S!Reload(n) PROVE S!Inv'
  BY Zenon, <1>2, ReloadKeeps
<1>3. ASSUME NEW a \in Admin, S!Gets(a) PROVE S!Inv'
  BY Zenon, <1>3, GetsKeeps
<1>4. ASSUME NEW a \in Admin, S!SetConfigParam(a) PROVE S!Inv'
  BY Zenon, <1>4, SetKeeps
<1>5. ASSUME NEW a \in Admin, S!PutUpdate(a) PROVE S!Inv'
  BY Zenon, <1>5, PutUpdateKeeps
<1>6. ASSUME NEW d \in Foreign, S!OtherVersion(d) PROVE S!Inv'
  BY Zenon, <1>6, OtherKeeps
<1> QED
  BY Zenon, <1>1, <1>2, <1>3, <1>4, <1>5, <1>6 DEF S!Next

-------------------------------------------------------------------------------
(***************************************************************************)
(* ConfigBroadcast, whose finite sets and sequences are instances of their *)
(* own.                                                                    *)
(***************************************************************************)
LEMMA PeriodIs ==
    /\ Period \subseteq Nat /\ 0 \in Period /\ Day \in Nat /\ Cap \in Nat \ {0} /\ MaxPuts \in Nat
    /\ IsFiniteSet(B!All)
<1>1. /\ Period \subseteq Nat /\ 0 \in Period /\ Day \in Nat /\ Cap \in Nat \ {0}
      /\ MaxPuts \in Nat /\ B!IsFiniteSet(Job)
  BY Zenon, ConfigAssumption DEF B!PeriodAssumption
<1>2. IsFiniteSet(Job)
  BY Zenon, <1>1 DEF B!IsFiniteSet, IsFiniteSet
<1>3. IsFiniteSet(B!All)
  BY Zenon, <1>2, FS_AddElement DEF B!All
<1> QED
  BY Zenon, <1>1, <1>3

\* An order of the registered is a sequence of them without repetition.
LEMMA OrderIs ==
    ASSUME NEW J, J \subseteq B!All, NEW f \in B!Orders(J)
    PROVE  f \in Seq(B!All) /\ \A i, k \in DOMAIN f : f[i] = f[k] => i = k
<1>1. B!Cardinality(J) = Cardinality(J)
  BY Zenon DEF Cardinality, B!Cardinality
<1>2. Cardinality(J) \in Nat
  BY Zenon, PeriodIs, FS_Subset, FS_CardinalityType
<1>3. PICK n \in Nat : n = Cardinality(J)
  BY Zenon, <1>2
<1>4. f \in [1..n -> J] /\ \A i, k \in 1..n : i # k => f[i] # f[k]
  BY Zenon, <1>1, <1>3 DEF B!Orders, B!Bijection, B!Injection, B!IsInjective
<1> QED
  BY SMTT(30), <1>3, <1>4

LEMMA TailOrder ==
    ASSUME B!TypeOK, todo # <<>>
    PROVE  /\ Tail(todo) \in Seq(B!All)
           /\ \A i, k \in DOMAIN Tail(todo) : Tail(todo)[i] = Tail(todo)[k] => i = k
<1>1. todo \in Seq(B!All) /\ \A i, k \in DOMAIN todo : todo[i] = todo[k] => i = k
  BY Zenon DEF B!TypeOK
<1>2. /\ Tail(todo) \in Seq(B!All)
      /\ \A i \in DOMAIN Tail(todo) :
            i \in Nat /\ i + 1 \in DOMAIN todo /\ Tail(todo)[i] = todo[i + 1]
  BY SMTT(30), <1>1
<1> QED
  BY SMTT(30), <1>1, <1>2

LEMMA UpdatersKeep ==
    ASSUME B!TypeOK,
           \/ \E v \in Period : B!Put(v)
           \/ \E u \in Updater : B!Updates(u)
    PROVE  B!TypeOK'
<1> USE PeriodIs DEF B!TypeOK
<1>1. ASSUME NEW v \in Period, B!Put(v) PROVE B!TypeOK'
  BY SMTT(30), <1>1 DEF B!Put
<1>2. ASSUME NEW u \in Updater, B!Retrieve(u) PROVE B!TypeOK'
  BY Zenon, <1>2 DEF B!Retrieve
<1>3. ASSUME NEW u \in Updater, B!Submit(u) PROVE B!TypeOK'
  <2>1. input' = input + 1 /\ input < Cap
    BY Zenon, <1>3 DEF B!Submit, B!SubmitIf
  <2>2. /\ updating' = [updating EXCEPT ![u].pc = "assign"]
        /\ UNCHANGED <<stored, global, puts, todo, jobs, period, ticker>>
    BY Zenon, <1>3 DEF B!Submit, B!SubmitIf
  <2>3. updating' \in [Updater -> [pc : {"idle", "submit", "assign"}, conf : Period]]
    BY Zenon, <2>2
  <2>4. input' \in 0..Cap
    BY <2>1
  <2> QED
    BY Zenon, <2>2, <2>3, <2>4
<1>4. ASSUME NEW u \in Updater, B!Assign(u) PROVE B!TypeOK'
  BY Zenon, <1>4 DEF B!Assign, B!Idle
<1> QED
  BY Zenon, <1>1, <1>2, <1>3, <1>4 DEF B!Updates

LEMMA BroadcastKeeps == ASSUME B!TypeOK, B!Broadcast  PROVE B!TypeOK'
<1>1. todo' \in Seq(B!All) /\ \A i, k \in DOMAIN todo' : todo'[i] = todo'[k] => i = k
  <2>1. PICK J : J = {j \in B!All : jobs[j] # "new"}
    BY Zenon
  <2>2. J \subseteq B!All /\ todo' \in B!Orders(J)
    BY Zenon, <2>1 DEF B!Broadcast
  <2> QED
    BY Zenon, <2>2, OrderIs
<1> QED
  BY SMTT(30), <1>1, PeriodIs DEF B!TypeOK, B!Broadcast

LEMMA JobsKeep ==
    ASSUME B!TypeOK, NEW j \in B!All,
           B!Register(j) \/ B!StartJob(j) \/ B!Run(j) \/ B!RunEnds(j) \/ B!ConfigChange(j)
    PROVE  B!TypeOK'
<1> USE PeriodIs DEF B!TypeOK
<1>1. CASE B!Register(j)
  BY Zenon, <1>1 DEF B!Register
<1>2. CASE B!StartJob(j)
  BY SMTT(30), <1>2 DEF B!StartJob
<1>3. CASE B!Run(j)
  BY Zenon, <1>3 DEF B!Run
<1>4. CASE B!RunEnds(j)
  BY Zenon, <1>4 DEF B!RunEnds
<1>5. CASE B!ConfigChange(j)
  <2>1. todo # <<>> /\ todo' = Tail(todo)
    BY Zenon, <1>5 DEF B!ConfigChange
  <2>2. todo' \in Seq(B!All) /\ \A i, k \in DOMAIN todo' : todo'[i] = todo'[k] => i = k
    BY Zenon, <2>1, TailOrder
  <2> QED
    BY Zenon, <1>5, <2>2 DEF B!ConfigChange
<1> QED
  BY Zenon, <1>1, <1>2, <1>3, <1>4, <1>5

LEMMA BroadcastInit == B!Init => B!TypeOK
  BY SMTT(30), PeriodIs DEF B!Init, B!TypeOK, B!Idle

LEMMA BroadcastNext == B!TypeOK /\ [B!Next]_bvars => B!TypeOK'
<1> SUFFICES ASSUME B!TypeOK, [B!Next]_bvars
             PROVE  B!TypeOK'
  BY Zenon
<1>1. CASE UNCHANGED bvars
  BY Zenon, <1>1 DEF bvars, B!TypeOK
<1>2. CASE B!Next
  BY Zenon, <1>2, UpdatersKeep, BroadcastKeeps, JobsKeep DEF B!Next
<1> QED
  BY Zenon, <1>1, <1>2

-------------------------------------------------------------------------------
(***************************************************************************)
(* A node runs with a configuration that somebody stored (updateConfig),   *)
(* and the value an administrator gave a parameter is lost only to another *)
(* version of the program or to a command that writes back an older copy   *)
(* (SetConfigParam).  The broadcaster tells each job at most once about a  *)
(* message.                                                                *)
(***************************************************************************)
THEOREM ConfigKept == S!Spec /\ B!Spec => []ConfigRight
<1>1. S!Spec => []S!Inv
  <2>1. S!Inv /\ [S!Next]_(S!vars) => S!Inv'
    BY Zenon, StoreKeeps DEF svars, S!vars
  <2> QED
    BY <2>1, StoreInit, PTL DEF S!Spec
<1>2. B!Spec => []B!TypeOK
  <2>1. B!TypeOK /\ [B!Next]_(B!vars) => B!TypeOK'
    BY Zenon, BroadcastNext DEF bvars, B!vars
  <2> QED
    BY <2>1, BroadcastInit, PTL DEF B!Spec
<1>3. S!Inv /\ B!TypeOK => ConfigRight
  BY Zenon DEF S!Inv, ConfigRight
<1> QED
  BY <1>1, <1>2, <1>3, PTL

===============================================================================
