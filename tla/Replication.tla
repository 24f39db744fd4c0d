----------------------------- MODULE Replication -----------------------------
(***************************************************************************)
(* How many copies of a blob there are, and what brings them back to the   *)
(* number that is asked for: the internode task queue of every node        *)
(* (blobs.go), which is a Go channel of bounded capacity with a few        *)
(* workers, and the jobs that fill it (blobs.go, tasks.go, files.go).      *)
(*                                                                         *)
(* A removal, a store and a fetch are single steps here; BlobStore has the *)
(* interleavings inside of them.  What is kept is who sends to which       *)
(* queue, who waits, what is dropped when a queue is full, and that every  *)
(* job acts on rows it has read earlier.                                   *)
(***************************************************************************)
EXTENDS Naturals, Sequences, SequencesExt, FiniteSets, FiniteSetsExt

CONSTANTS
    Node, Blob,
    Worker,        \* the workers of a node (taskWorkers)
    QueueCap,      \* the capacity of internodeTaskQueue (taskWorkers * 1024)
    MinReplicas, MaxReplicas,
    MaxStartupRepls,   \* -maxStartRepls
    Space,         \* Space[n]: "none" is too little for the blob, "low" is no
                   \* more than TrimFullNodesSpace, "ample" is more
    Job,           \* the jobs that run: <<kind, node>>
    Mortal,        \* the nodes that faults happen to
    Stops,         \* whether they may stop
    Damage,        \* what a fault makes of a file: "none", "rotten"
    MaxUploads,    \* bound: uploads
    MaxFaults,     \* bound: files lost or rotten, calls that fail
    NoNode         \* "", no previous node

GlobalKind == {"upload", "ensure", "prune", "trim", "clean"}
LocalKind == {"validate", "reconcile", "startup"}

ReplicaAssumption ==
    /\ MinReplicas \in Nat \ {0}
    /\ MaxReplicas \in Nat
    /\ MinReplicas <= MaxReplicas
    /\ QueueCap \in Nat \ {0}
    /\ Worker # {}
    /\ Job \subseteq (GlobalKind \cup LocalKind) \X Node

VARIABLES
    disk,      \* disk[n][b]: "none", "good" or "rotten"
    owners,    \* owners[b]: the Nodes map of the record "/" + b
    recent,    \* the <<n, b>> that were registered less than an hour ago
    state,     \* state[n]: "up", "down", or "stale" once missed for too long
    registry,  \* the nodes with a node document
    chan,      \* chan[n]: internodeTaskQueue of n
    work,      \* work[n][w]: what worker w of n is doing
    fetching,  \* fetching[n]: the names held in fetchLocks
    todo,      \* todo[j]: what job j has still to do
    uploads, faults

stores == <<disk, owners, recent>>
queues == <<chan, work, fetching>>
counts == <<uploads, faults>>
vars == <<disk, owners, recent, state, registry, chan, work, fetching, todo,
          uploads, faults>>

-------------------------------------------------------------------------------
(***************************************************************************)
(* A task, and what a worker does: a task it has taken, or a copy that is  *)
(* on its way (performFetch, under the lock).  "named" is whether the      *)
(* StorageNode in the task has its name: one that comes from findNode has  *)
(* only its address.                                                       *)
(***************************************************************************)
Task == [cmd: {"remove", "acquire", "fetch", "copy"}, node: Node \cup {NoNode},
         named: BOOLEAN, oid: Blob, prev: Node \cup {NoNode}]

Removal(n, named, b) ==
    [cmd |-> "remove", node |-> n, named |-> named, oid |-> b, prev |-> NoNode]
Acquisition(n, b, prev) ==
    [cmd |-> "acquire", node |-> n, named |-> TRUE, oid |-> b, prev |-> prev]
Fetch(b, prev) ==
    [cmd |-> "fetch", node |-> NoNode, named |-> FALSE, oid |-> b, prev |-> prev]

Idle == [cmd |-> "idle"]

(***************************************************************************)
(* A Go channel: what is buffered, and the goroutines that wait to send,   *)
(* first come first served.  "by" is the job that waits, or NoNode for a   *)
(* goroutine that does nothing else.                                       *)
(***************************************************************************)
EmptyChan == [buf |-> <<>>, waiting |-> <<>>]

Full(c) == Len(c.buf) >= QueueCap

\* c <- t
Send(c, t, by) ==
    IF Full(c) THEN [c EXCEPT !.waiting = Append(@, [task |-> t, by |-> by])]
               ELSE [c EXCEPT !.buf = Append(@, t)]

\* select { case c <- t: default: }
TrySend(c, t) == IF Full(c) THEN c ELSE [c EXCEPT !.buf = Append(@, t)]

\* A receive lets the first goroutine that waits go on.
Received(c) ==
    IF c.waiting = <<>>
      THEN [c EXCEPT !.buf = Tail(@)]
      ELSE [buf |-> Append(Tail(c.buf), Head(c.waiting).task),
            waiting |-> Tail(c.waiting)]

Waits(j) == \E i \in DOMAIN chan[j[2]].waiting : chan[j[2]].waiting[i].by = j

-------------------------------------------------------------------------------
(***************************************************************************)
(* Node lists.  findAllNodes sorts them by their last heartbeat, so that a *)
(* node that has long been silent comes after all others; the order of the *)
(* others is open.                                                         *)
(***************************************************************************)
Up(n) == state[n] = "up"

InOrder(s) ==
    \A i, k \in DOMAIN s : i < k /\ state[s[i]] = "stale" => state[s[k]] = "stale"

Sorted(S) == {s \in SetToSeqs(S) : InOrder(s)}

\* candidatesFor, with the owners of the record: the list "exclude" is not
\* used.  Without a record every node is a candidate.
CandidatesFor(own) ==
    IF own = {} THEN registry
                ELSE {n \in registry \ own : Space[n] # "none"}

Firsts(s, k) == SubSeq(s, 1, Min({k, Len(s)}))

-------------------------------------------------------------------------------
TypeOK ==
    /\ disk \in [Node -> [Blob -> {"none", "good", "rotten"}]]
    /\ owners \in [Blob -> SUBSET Node]
    /\ recent \subseteq Node \X Blob
    /\ state \in [Node -> {"up", "down", "stale"}]
    /\ registry \subseteq Node
    /\ \A n \in Node :
          /\ Len(chan[n].buf) <= QueueCap
          /\ chan[n].waiting # <<>> => Full(chan[n])
          /\ ToSet(chan[n].buf) \subseteq Task
          /\ \A w \in Worker : work[n][w] \in Task \cup {Idle}
    /\ fetching \in [Node -> SUBSET Blob]
    /\ DOMAIN todo = Job
    /\ uploads \in 0..MaxUploads
    /\ faults \in 0..MaxFaults

Init ==
    /\ disk = [n \in Node |-> [b \in Blob |-> "none"]]
    /\ owners = [b \in Blob |-> {}]
    /\ recent = {}
    /\ state = [n \in Node |-> "up"]
    /\ registry = Node
    /\ chan = [n \in Node |-> EmptyChan]
    /\ work = [n \in Node |-> [w \in Worker |-> Idle]]
    /\ fetching = [n \in Node |-> {}]
    /\ todo = [j \in Job |-> <<>>]
    /\ uploads = 0
    /\ faults = 0

-------------------------------------------------------------------------------
(***************************************************************************)
(* Changes of the records, with the file where it goes with it.            *)
(***************************************************************************)
\* recordBlobOwnership, without force: a registration that exists is kept.
Recorded(n, b) ==
    IF n \in owners[b]
      THEN UNCHANGED <<owners, recent>>
      ELSE /\ owners' = [owners EXCEPT ![b] = @ \cup {n}]
           /\ recent' = recent \cup {<<n, b>>}

\* removeBlobOwnershipRecord
Dropped(b, S) ==
    /\ owners' = [owners EXCEPT ![b] = @ \ S]
    /\ recent' = recent \ (S \X {b})

\* maybeRemoveBlobOwnership: without a record nothing is checked.
Removable(n, b) ==
    \/ owners[b] = {}
    \/ <<n, b>> \notin recent /\ Cardinality(owners[b]) - 1 >= MinReplicas

\* removeObject at n
RemoveObject(n, b) ==
    IF Removable(n, b)
      THEN /\ Dropped(b, {n})
           /\ disk' = [disk EXCEPT ![n][b] = "none"]
      ELSE UNCHANGED stores

-------------------------------------------------------------------------------
(***************************************************************************)
(* The jobs.  A job reads its rows once and then works through them.       *)
(***************************************************************************)
\* queueBlobRemoval and queueBlobAcquire, which wait while the queue is full.
SendItem(t) == [do |-> "send", task |-> t]
SalvageItem(b, k, prev) ==
    [do |-> "salvage", oid |-> b, want |-> k, prev |-> prev]
DropItem(b, n) == [do |-> "drop", oid |-> b, node |-> n]
CheckItem(b) == [do |-> "check", oid |-> b]
GrabItem == [do |-> "grab"]

CanRun(j) == Up(j[2]) /\ todo[j] = <<>> /\ ~Waits(j)

Starts(j, items) == todo' = [todo EXCEPT ![j] = items]

(***************************************************************************)
(* putUserFile has stored the blob, here or here and at a second node, and *)
(* starts increaseReplicaCount if that is not enough.                      *)
(***************************************************************************)
Upload(j, b) ==
    /\ j[1] = "upload" /\ CanRun(j)
    /\ uploads < MaxUploads
    /\ owners[b] = {}
    /\ \E S \in SUBSET {n \in Node : Up(n) /\ Space[n] # "none"} :
          /\ j[2] \in S /\ Cardinality(S) <= 2
          /\ disk' = [n \in Node |->
                        IF n \in S THEN [disk[n] EXCEPT ![b] = "good"]
                                   ELSE disk[n]]
          /\ owners' = [owners EXCEPT ![b] = S]
          /\ recent' = recent \cup (S \X {b})
          /\ \E onto \in Sorted({n \in registry \ S : Space[n] # "none"}) :
                LET short == IF MinReplicas > Cardinality(S)
                               THEN MinReplicas - Cardinality(S) ELSE 0
                    asked == Firsts(onto, short)
                IN  Starts(j, [i \in DOMAIN asked |->
                                SendItem(Acquisition(asked[i], b, NoNode))])
    /\ uploads' = uploads + 1
    /\ UNCHANGED <<state, registry, chan, work, fetching, faults>>

(***************************************************************************)
(* ensureMinimumReplicaCount: the rows with 1 .. endKey copies.            *)
(***************************************************************************)
EnsureMin(j) ==
    /\ j[1] = "ensure" /\ CanRun(j)
    /\ LET endKey == Min({MinReplicas, Cardinality(registry)}) - 1
           rows == SetToSeq({b \in Blob : Cardinality(owners[b]) \in 1..endKey})
       IN  /\ endKey >= 1
           /\ Starts(j, [i \in DOMAIN rows |->
                 SalvageItem(rows[i], MinReplicas - Cardinality(owners[rows[i]]),
                             NoNode)])
    /\ UNCHANGED <<stores, queues, state, registry, counts>>

(***************************************************************************)
(* pruneExcessiveReplicas and pruneBlob: some of the nodes of the row, as  *)
(* many as it has too many, those in the registry are asked to remove it.  *)
(***************************************************************************)
Prunes(j, endKey) ==
    /\ j[1] = "prune" /\ CanRun(j)
    /\ LET Rows == {b \in Blob : Cardinality(owners[b]) >= endKey}
       IN  \E pick \in [Rows -> SUBSET Node] :
              /\ \A b \in Rows :
                    pick[b] \in kSubset(Cardinality(owners[b]) - MaxReplicas,
                                        owners[b])
              /\ Starts(j, SetToSeq(UNION {{SendItem(Removal(n, TRUE, b)) :
                                             n \in pick[b] \cap registry} :
                                           b \in Rows}))
    /\ UNCHANGED <<stores, queues, state, registry, counts>>

\* Mutant: blobs with one copy too many are not among the rows.
PruneMissesOne(j) == Prunes(j, MaxReplicas + 2)

Prune(j) == Prunes(j, MaxReplicas + 1)

(***************************************************************************)
(* trimFullNodes and moveSomeOffOf.  How much of a full node is moved at   *)
(* once is left open.                                                      *)
(***************************************************************************)
Trim(j) ==
    /\ j[1] = "trim" /\ CanRun(j)
    /\ LET hasSpace == {n \in registry : Space[n] = "ample"}
           Rows == {r \in (registry \ hasSpace) \X Blob : r[1] \in owners[r[2]]}
           Moves(r) == IF Cardinality(owners[r[2]]) - 1 < MinReplicas
                         THEN {SendItem(Acquisition(n, r[2], r[1])) :
                                 n \in hasSpace \ owners[r[2]]}
                         ELSE {SendItem(Removal(r[1], TRUE, r[2]))}
       IN  \E cut \in SUBSET Rows :
           \E pick \in [{r \in cut : Moves(r) # {}} -> UNION {Moves(r) : r \in cut}] :
              /\ hasSpace # {}
              /\ \A r \in DOMAIN pick : pick[r] \in Moves(r)
              /\ Starts(j, SetToSeq({pick[r] : r \in DOMAIN pick}))
    /\ UNCHANGED <<stores, queues, state, registry, counts>>

(***************************************************************************)
(* checkStaleNodes finds node d, and cleanupNode takes its blobs one by    *)
(* one, or forgets the node once it has none.                              *)
(***************************************************************************)
\* Mutant: the node's entries are left to the removal after the move.
CleanOfKeeps(b, d) == SalvageItem(b, 1, d)

CleanOf(b, d) ==
    IF Cardinality(owners[b]) < MinReplicas THEN SalvageItem(b, 1, d)
                                            ELSE DropItem(b, d)

Cleanup(j, d) ==
    /\ j[1] = "clean" /\ CanRun(j)
    /\ d \in registry \ {j[2]} /\ state[d] = "stale"
    /\ LET rows == SetToSeq({b \in Blob : d \in owners[b]})
       IN  /\ Starts(j, [i \in DOMAIN rows |-> CleanOf(rows[i], d)])
           /\ registry' = IF rows = <<>> THEN registry \ {d} ELSE registry
    /\ UNCHANGED <<stores, queues, state, counts>>

(***************************************************************************)
(* validateLocal and reconcile look at every blob that the node has        *)
(* registered, or that is on its disk.                                     *)
(***************************************************************************)
Validate(j) ==
    /\ j[1] \in {"validate", "reconcile"} /\ CanRun(j)
    /\ LET n == j[2]
           rows == SetToSeq({b \in Blob : IF j[1] = "validate"
                                            THEN n \in owners[b]
                                            ELSE disk[n][b] # "none"})
       IN  Starts(j, [i \in DOMAIN rows |-> CheckItem(rows[i])])
    /\ UNCHANGED <<stores, queues, state, registry, counts>>

(***************************************************************************)
(* salvageBlob asks the first k candidates, as far as there is room in the *)
(* queue, and says whether there was; "stop" is whether the job gives up   *)
(* then.                                                                   *)
(***************************************************************************)
Salvages(j, b, k, prev, stop, own) ==
    \E onto \in Sorted(CandidatesFor(own)) :
       LET asked == Firsts(onto, k)
           room == QueueCap - Len(chan[j[2]].buf)
           put == Firsts([i \in DOMAIN asked |-> Acquisition(asked[i], b, prev)],
                         room)
       IN  /\ chan' = [chan EXCEPT ![j[2]].buf = @ \o put]
           /\ todo' = [todo EXCEPT ![j] =
                         IF stop /\ Len(put) < Len(asked) THEN <<>> ELSE Tail(@)]

Done(j) == todo' = [todo EXCEPT ![j] = Tail(@)]

\* The body of the loop of validateLocal.  removeBlobOwnershipRecord returns
\* -1 when there is no record.
CheckRegistered(j, b) ==
    LET n == j[2]
        left == owners[b] \ {n}
        want == IF owners[b] = {} THEN MinReplicas + 1
                                  ELSE MinReplicas - Cardinality(left)
    IN  IF disk[n][b] # "none" \/ (owners[b] # {} /\ Cardinality(left) >= MinReplicas)
          THEN /\ IF disk[n][b] # "none" THEN UNCHANGED <<owners, recent>>
                                         ELSE Dropped(b, {n})
               /\ Done(j)
               /\ UNCHANGED <<disk, chan>>
          ELSE /\ Dropped(b, {n})
               /\ Salvages(j, b, want, NoNode, FALSE, left)
               /\ UNCHANGED disk

\* Mutant: the file is registered anew whatever is in it.
VerifyFileUnread(j, b) ==
    /\ <<j[2], b>> \notin recent
    /\ owners' = [owners EXCEPT ![b] = @ \cup {j[2]}]
    /\ recent' = recent \cup {<<j[2], b>>}
    /\ Done(j)
    /\ UNCHANGED <<disk, chan>>

\* The body of the loop of verifyWorker: a file whose registration is older
\* than ReconcileAge is read, and registered anew; a bad one, or one that has
\* gone away, is dropped and asked for elsewhere.
VerifyFile(j, b) ==
    LET n == j[2]
    IN  /\ <<n, b>> \notin recent
        /\ \/ /\ disk[n][b] = "good"
              /\ owners' = [owners EXCEPT ![b] = @ \cup {n}]
              /\ recent' = recent \cup {<<n, b>>}
              /\ Done(j)
              /\ UNCHANGED <<disk, chan>>
           \/ /\ disk[n][b] # "good"
              /\ Dropped(b, {n})
              /\ disk' = [disk EXCEPT ![n][b] = "none"]
              /\ Salvages(j, b, 1, NoNode, FALSE, owners[b] \ {n})

(***************************************************************************)
(* grabSomeData, when a node starts: fetch what has few copies, as far as  *)
(* there is room.                                                          *)
(***************************************************************************)
GrabSomeData(c, n) ==
    LET few == SetToSeq({b \in Blob :
                   /\ Cardinality(owners[b]) \in 1..(MaxStartupRepls - 1)
                   /\ disk[n][b] = "none"})
    IN  [c EXCEPT !.buf = @ \o Firsts([i \in DOMAIN few |-> Fetch(few[i], NoNode)],
                                     QueueCap - Len(@))]

(***************************************************************************)
(* One item of a job.                                                      *)
(***************************************************************************)
Item(j) ==
    /\ Up(j[2]) /\ todo[j] # <<>> /\ ~Waits(j)
    /\ LET i == Head(todo[j])
       IN  \/ /\ i.do = "send"
              /\ chan' = [chan EXCEPT ![j[2]] = Send(@, i.task, j)]
              /\ Done(j)
              /\ UNCHANGED stores
           \/ /\ i.do = "salvage"
              /\ Salvages(j, i.oid, i.want, i.prev, TRUE, owners[i.oid])
              /\ UNCHANGED stores
           \/ /\ i.do = "drop"
              /\ Dropped(i.oid, {i.node})
              /\ Done(j)
              /\ UNCHANGED <<disk, chan>>
           \/ /\ i.do = "check" /\ j[1] = "validate"
              /\ CheckRegistered(j, i.oid)
           \/ /\ i.do = "check" /\ j[1] = "reconcile"
              /\ Recorded(j[2], i.oid)
              /\ Done(j)
              /\ UNCHANGED <<disk, chan>>
           \/ /\ i.do = "grab"
              /\ chan' = [chan EXCEPT ![j[2]] = GrabSomeData(@, j[2])]
              /\ Done(j)
              /\ UNCHANGED stores
    /\ UNCHANGED <<work, fetching, state, registry, counts>>

VerifyItem(j) ==
    /\ j[1] = "reconcile" /\ Up(j[2]) /\ todo[j] # <<>>
    /\ VerifyFile(j, Head(todo[j]).oid)
    /\ UNCHANGED <<work, fetching, state, registry, counts>>

-------------------------------------------------------------------------------
(***************************************************************************)
(* The workers (internodeTaskWorker).                                      *)
(***************************************************************************)
SetWork(n, w, x) == work' = [work EXCEPT ![n][w] = x]

Take(n, w) ==
    /\ Up(n) /\ work[n][w] = Idle /\ chan[n].buf # <<>>
    /\ SetWork(n, w, Head(chan[n].buf))
    /\ chan' = [chan EXCEPT ![n] = Received(@)]
    /\ UNCHANGED <<stores, fetching, state, registry, todo, counts>>

\* A call to another node fails: a fault while that node is up.
CallFails(t) ==
    \/ ~Up(t.node) /\ UNCHANGED faults
    \/ Up(t.node) /\ faults < MaxFaults /\ faults' = faults + 1

(***************************************************************************)
(* removeObjectCmd.  IsDead looks the node up by its name; a node without  *)
(* one is never found.                                                     *)
(***************************************************************************)
WorkRemove(n, w) ==
    LET t == work[n][w]
    IN  /\ Up(n) /\ t.cmd = "remove"
        /\ \/ Up(t.node) /\ RemoveObject(t.node, t.oid) /\ UNCHANGED faults
           \/ /\ CallFails(t)
              /\ IF t.named /\ t.node \in registry /\ state[t.node] = "stale"
                   THEN Dropped(t.oid, {t.node})
                   ELSE UNCHANGED <<owners, recent>>
              /\ UNCHANGED disk
        /\ SetWork(n, w, Idle)
        /\ UNCHANGED <<chan, fetching, state, registry, todo, uploads>>

(***************************************************************************)
(* acquireObjectCmd: the node itself, or doFetchDoc at another one.        *)
(***************************************************************************)
\* doFetchDoc takes the task on: there is a record, and there is space.
FetchesDoc(t) == owners[t.oid] # {} /\ Space[t.node] # "none"

WorkAcquire(n, w) ==
    LET t == work[n][w]
    IN  /\ Up(n) /\ t.cmd = "acquire"
        /\ \/ /\ t.node = n \/ (Up(t.node) /\ FetchesDoc(t))
              /\ chan' = [chan EXCEPT ![t.node] = TrySend(@, Fetch(t.oid, t.prev))]
              /\ UNCHANGED faults
           \/ /\ t.node # n
              /\ Up(t.node) /\ ~FetchesDoc(t)
              /\ UNCHANGED <<chan, faults>>
           \/ /\ t.node # n
              /\ CallFails(t)
              /\ UNCHANGED chan
        /\ SetWork(n, w, Idle)
        /\ UNCHANGED <<stores, fetching, state, registry, todo, uploads>>

\* namedLock.Lock, which fails when the name is locked, and Unlock.
Locks(n, b) ==
    b \notin fetching[n] /\ fetching' = [fetching EXCEPT ![n] = @ \cup {b}]
Unlocks(n, b) == fetching' = [fetching EXCEPT ![n] = @ \ {b}]

(***************************************************************************)
(* fetchObjectCmd.  performFetch records a copy that is there already, and *)
(* leaves a blob alone that another worker is fetching.                    *)
(***************************************************************************)
\* Mutant: the lock is taken whoever has it.
WorkFetchUnlocked(n, w) ==
    LET t == work[n][w]
    IN  /\ Up(n) /\ t.cmd = "fetch"
        /\ IF disk[n][t.oid] # "none"
             THEN Recorded(n, t.oid) /\ SetWork(n, w, Idle) /\ UNCHANGED fetching
             ELSE /\ fetching' = [fetching EXCEPT ![n] = @ \cup {t.oid}]
                  /\ SetWork(n, w, [t EXCEPT !.cmd = "copy"])
                  /\ UNCHANGED <<owners, recent>>
        /\ UNCHANGED <<disk, chan, state, registry, todo, counts>>

WorkFetch(n, w) ==
    LET t == work[n][w]
    IN  /\ Up(n) /\ t.cmd = "fetch"
        /\ \/ /\ disk[n][t.oid] # "none"
              /\ Recorded(n, t.oid)
              /\ SetWork(n, w, Idle)
              /\ UNCHANGED fetching
           \/ /\ disk[n][t.oid] = "none" /\ Locks(n, t.oid)
              /\ SetWork(n, w, [t EXCEPT !.cmd = "copy"])
              /\ UNCHANGED <<owners, recent>>
           \/ /\ disk[n][t.oid] = "none" /\ t.oid \in fetching[n]
              /\ SetWork(n, w, Idle)
              /\ UNCHANGED <<fetching, owners, recent>>
        /\ UNCHANGED <<disk, chan, state, registry, todo, counts>>

(***************************************************************************)
(* getBlobFromRemote under the lock, and what performFetch does after it.  *)
(* An owner that is asked and does not have the file takes itself off the  *)
(* record.  A copy with a wrong hash is answered with 200 all the same but *)
(* not stored.  The removal of the previous copy is queued by a goroutine  *)
(* of its own, since the queue may be full.                                *)
(***************************************************************************)
Moved(n, t, own) ==
    IF t.prev = NoNode
      THEN /\ owners' = [owners EXCEPT ![t.oid] = own]
           /\ UNCHANGED chan
      ELSE IF t.prev \in registry
      THEN /\ owners' = [owners EXCEPT ![t.oid] = own]
           /\ chan' = [chan EXCEPT ![n] =
                         Send(@, Removal(t.prev, FALSE, t.oid), NoNode)]
      ELSE /\ owners' = [owners EXCEPT ![t.oid] = own \ {t.prev}]
           /\ UNCHANGED chan

Copies(n, w) ==
    LET t == work[n][w]
        Asked == {m \in owners[t.oid] \cap registry : Up(m)}
        Has == {m \in Asked : disk[m][t.oid] # "none"}
    IN  /\ Up(n) /\ t.cmd = "copy"
        /\ \/ /\ \E src \in Has, gone \in SUBSET (Asked \ Has) :
                    LET good == disk[src][t.oid] = "good"
                    IN  /\ Moved(n, t, (owners[t.oid] \ gone)
                                       \cup (IF good THEN {n} ELSE {}))
                        /\ recent' = (recent \ (gone \X {t.oid}))
                                     \cup (IF good THEN {<<n, t.oid>>} ELSE {})
                        /\ disk' = IF good THEN [disk EXCEPT ![n][t.oid] = "good"]
                                           ELSE disk
              /\ UNCHANGED faults
           \/ /\ Has = {}
              /\ Dropped(t.oid, Asked)
              /\ UNCHANGED <<disk, chan, faults>>
           \/ /\ faults < MaxFaults
              /\ faults' = faults + 1
              /\ UNCHANGED <<stores, chan>>
        /\ Unlocks(n, t.oid)
        /\ SetWork(n, w, Idle)
        /\ UNCHANGED <<state, registry, todo, uploads>>

\* Mutant: the worker itself queues the removal, and waits if need be.
WorkCopyWaits(n, w) ==
    /\ Copies(n, w)
    /\ work[n][w].prev \in registry => ~Full(chan[n])

WorkCopy(n, w) == Copies(n, w)

-------------------------------------------------------------------------------
(***************************************************************************)
(* Faults: a file goes bad or away, a node stops and may come back.  What  *)
(* a process has in memory is lost with it.                                *)
(***************************************************************************)
Fault == faults < MaxFaults /\ faults' = faults + 1

Rot(n, b) ==
    /\ Fault
    /\ n \in Mortal /\ disk[n][b] = "good"
    /\ \E d \in Damage : disk' = [disk EXCEPT ![n][b] = d]
    /\ UNCHANGED <<owners, recent, queues, state, registry, todo, uploads>>

Die(n) ==
    /\ Fault
    /\ n \in Mortal /\ Stops /\ Up(n)
    /\ state' = [state EXCEPT ![n] = "down"]
    /\ chan' = [chan EXCEPT ![n] = EmptyChan]
    /\ work' = [work EXCEPT ![n] = [w \in Worker |-> Idle]]
    /\ fetching' = [fetching EXCEPT ![n] = {}]
    /\ todo' = [j \in Job |-> IF j[2] = n THEN <<>> ELSE todo[j]]
    /\ UNCHANGED <<stores, registry, uploads>>

\* More than StaleNodeLimit since the last heartbeat.
Missed(n) ==
    /\ state[n] = "down"
    /\ state' = [state EXCEPT ![n] = "stale"]
    /\ UNCHANGED <<stores, registry, queues, todo, counts>>

\* main: the first heartbeat writes the node document again.
Restart(n) ==
    /\ ~Up(n)
    /\ state' = [state EXCEPT ![n] = "up"]
    /\ registry' = registry \cup {n}
    /\ todo' = [j \in Job |-> IF j = <<"startup", n>> THEN <<GrabItem>>
                                                     ELSE todo[j]]
    /\ UNCHANGED <<stores, queues, counts>>

\* An hour passes.
Age(n, b) ==
    /\ <<n, b>> \in recent
    /\ recent' = recent \ {<<n, b>>}
    /\ UNCHANGED <<disk, owners, queues, state, registry, todo, counts>>

-------------------------------------------------------------------------------
Work(n, w) ==
    \/ Take(n, w) \/ WorkRemove(n, w) \/ WorkAcquire(n, w)
    \/ WorkFetch(n, w) \/ WorkCopy(n, w)

Queues(n, w) ==
    /\ WorkAcquire(n, w)
    /\ \E m \in Node : Len(chan'[m].buf) > Len(chan[m].buf)

Run(j) ==
    \/ EnsureMin(j) \/ Prune(j) \/ Trim(j) \/ Validate(j)
    \/ \E d \in Node : Cleanup(j, d)

Next ==
    \/ \E j \in Job, b \in Blob : Upload(j, b)
    \/ \E j \in Job : Run(j) \/ Item(j) \/ VerifyItem(j)
    \/ \E n \in Node, w \in Worker : Work(n, w)
    \/ \E n \in Node, b \in Blob : Rot(n, b) \/ Age(n, b)
    \/ \E n \in Node : Die(n) \/ Missed(n) \/ Restart(n)

(***************************************************************************)
(* Goroutines go on when they can, tickers tick, and time passes: a        *)
(* registration gets older than an hour, and than ReconcileAge.  A job     *)
(* pauses between its runs, so a worker that tries to queue a fetch does   *)
(* not find the queue filled anew each time.                               *)
(***************************************************************************)
Fairness ==
    /\ \A n \in Node, w \in Worker : WF_vars(Work(n, w))
    /\ \A n \in Node, w \in Worker : SF_vars(Queues(n, w))
    /\ \A j \in Job : WF_vars(Item(j)) /\ WF_vars(Run(j))
    /\ \A j \in {i \in Job : i[1] = "reconcile"} : SF_vars(VerifyItem(j))
    /\ \A n \in Mortal : WF_vars(Missed(n))
    /\ \A n \in Node, b \in Blob : WF_vars(Age(n, b))

Spec == Init /\ [][Next]_vars /\ Fairness

-------------------------------------------------------------------------------
GoodCopies(b) == {n \in owners[b] : Up(n) /\ disk[n][b] = "good"}

(***************************************************************************)
(* fetchLocks: no blob is fetched by two workers of a node at a time, and  *)
(* who unlocks has the lock (Unlock panics otherwise).                     *)
(***************************************************************************)
FetchedOnce ==
    \A n \in Node :
       /\ \A v, w \in Worker :
             /\ work[n][v].cmd = "copy" /\ work[n][w].cmd = "copy"
             /\ work[n][v].oid = work[n][w].oid
             => v = w
       /\ fetching[n] = {work[n][w].oid : w \in {v \in Worker :
                                                   work[n][v].cmd = "copy"}}

(***************************************************************************)
(* Every run of a job comes to an end: those that wait for room in the     *)
(* queue get it, since no worker ever waits for the queue itself.          *)
(***************************************************************************)
JobsEnd == \A j \in Job : (todo[j] # <<>> \/ Waits(j)) ~> (todo[j] = <<>> /\ ~Waits(j))

(***************************************************************************)
(* When the faults have stopped, a blob of which a good copy is left gets  *)
(* back to MinReplicas of them, and loses the entries of nodes that stay   *)
(* away: ensureMinimumReplicaCount, validateLocal, reconcile and           *)
(* cleanupNode together make up for lost files and lost nodes, although    *)
(* each of them gives up when the queue is full.                           *)
(***************************************************************************)
Repaired ==
    \A b \in Blob :
       <>[](GoodCopies(b) # {} =>
              /\ Cardinality(GoodCopies(b)) >= MinReplicas
              /\ \A n \in owners[b] : state[n] # "stale")

(***************************************************************************)
(* Too many copies, as two nodes that were asked one after the other or an *)
(* upload can make, do not last.                                           *)
(***************************************************************************)
Pruned == \A b \in Blob : <>[](Cardinality(owners[b]) <= MaxReplicas)

===============================================================================
