---------------------------- MODULE ConfigBroadcast ----------------------------
(***************************************************************************)
(* How a new configuration reaches the periodic jobs of a node (conf.go,   *)
(* tasks.go, heartbeat.go, http_api.go).  updateConfig tells a broadcaster *)
(* and then sets globalConfig; the broadcaster tells the jobs one after    *)
(* the other, each when it is ready; a job that is told compares its       *)
(* period with globalConfig and takes a new ticker.                        *)
(*                                                                         *)
(* All jobs have the same period here; 0 is the one that no ticker takes.  *)
(***************************************************************************)
EXTENDS Naturals, Sequences, FiniteSets, Functions

CONSTANTS
    Job, HB,       \* the periodic jobs, and the heartbeat
    Updater,       \* reloadConfig, and handlers of config requests
    Period,        \* the configured periods
    Day,           \* the period that replaces one too short at the start
    Cap,           \* buffer of the broadcaster
    MaxPuts        \* bound on stored configurations

PeriodAssumption ==
    /\ Period \subseteq Nat /\ 0 \in Period /\ 1 \in Period
    /\ Day \in Nat \ Period /\ Cap \in Nat \ {0} /\ MaxPuts \in Nat /\ IsFiniteSet(Job)

All == Job \cup {HB}

VARIABLES
    stored,        \* the configuration in the database
    global,        \* globalConfig
    puts,
    upd,           \* updateConfig of each updater: [pc, conf]
    input,         \* messages in the buffer of the broadcaster
    todo,          \* jobs the broadcaster has yet to tell, in this order
    pc,            \* jobs: "new", "sleep", "wait", "run", "hung"; and "dead"
    period, ticker \* period of each, and that of its ticker

vars == <<stored, global, puts, upd, input, todo, pc, period, ticker>>

Idle == [pc |-> "idle", conf |-> 0]

TypeOK ==
    /\ stored \in Period /\ global \in Period /\ puts \in 0..MaxPuts
    /\ upd \in [Updater -> [pc : {"idle", "submit", "assign"}, conf : Period]]
    /\ input \in 0..Cap
    /\ todo \in Seq(All) /\ \A i, k \in DOMAIN todo : todo[i] = todo[k] => i = k
    /\ pc \in [All -> {"new", "sleep", "wait", "run", "hung", "dead"}]
    /\ period \in [All -> Period \cup {Day}] /\ ticker \in [All -> Period \cup {Day}]

\* The first updateConfig is done before the jobs are started.
Init ==
    /\ stored \in Period /\ global = stored /\ puts = 0
    /\ upd = [u \in Updater |-> Idle]
    /\ input = 0 /\ todo = <<>>
    /\ pc = [j \in All |-> "new"]
    /\ period = [j \in All |-> Day] /\ ticker = [j \in All |-> Day]

-------------------------------------------------------------------------------
(***************************************************************************)
(* updateConfig, of the reload that comes every minute or of a request to  *)
(* read or to change the configuration.  Submit waits for room.            *)
(***************************************************************************)
Put(v) ==
    /\ puts < MaxPuts /\ puts' = puts + 1
    /\ stored' = v
    /\ UNCHANGED <<global, upd, input, todo, pc, period, ticker>>

Retrieve(u) ==
    /\ upd[u] = Idle
    /\ upd' = [upd EXCEPT ![u] = [pc |-> "submit", conf |-> stored]]
    /\ UNCHANGED <<stored, global, puts, input, todo, pc, period, ticker>>

SubmitIf(u, tell, room) ==
    /\ upd[u].pc = "submit"
    /\ \/ tell /\ input < room /\ input' = input + 1
       \/ ~tell /\ UNCHANGED input
    /\ upd' = [upd EXCEPT ![u].pc = "assign"]
    /\ UNCHANGED <<stored, global, puts, todo, pc, period, ticker>>

\* Mutant: only a configuration that is new is told.
SubmitNew(u) == SubmitIf(u, upd[u].conf # global, Cap)

Submit(u) == SubmitIf(u, TRUE, Cap)

Assign(u) ==
    /\ upd[u].pc = "assign"
    /\ global' = upd[u].conf
    /\ upd' = [upd EXCEPT ![u] = Idle]
    /\ UNCHANGED <<stored, puts, input, todo, pc, period, ticker>>

\* The sequences that list each of js once.
Orders(js) == Bijection(1..Cardinality(js), js)

\* The broadcaster: a message for everyone who is registered, in any order.
Broadcast ==
    /\ todo = <<>> /\ input > 0
    /\ input' = input - 1
    /\ todo' \in Orders({j \in All : pc[j] # "new"})
    /\ UNCHANGED <<stored, global, puts, upd, pc, period, ticker>>

-------------------------------------------------------------------------------
(***************************************************************************)
(* The jobs.  A job is registered before it sleeps for a while and sets    *)
(* its first ticker up; the heartbeat does not sleep, and has no           *)
(* replacement for a period that is too short: it takes the process down.  *)
(* Registering waits while the broadcaster does.                           *)
(***************************************************************************)
Register(j) ==
    /\ pc[j] = "new" /\ todo = <<>>
    /\ pc' = [pc EXCEPT ![j] = "sleep"]
    /\ UNCHANGED <<stored, global, puts, upd, input, todo, period, ticker>>

StartJob(j) ==
    LET p == IF global = 0 THEN Day ELSE global IN
    /\ pc[j] = "sleep"
    /\ \/ /\ j = HB /\ global = 0
          /\ pc' = [pc EXCEPT ![j] = "dead"]
          /\ UNCHANGED <<period, ticker>>
       \/ /\ j # HB \/ global # 0
          /\ pc' = [pc EXCEPT ![j] = "wait"]
          /\ period' = [period EXCEPT ![j] = p]
          /\ ticker' = [ticker EXCEPT ![j] = p]
    /\ UNCHANGED <<stored, global, puts, upd, input, todo>>

\* A run of the job; one may never come back.
Run(j) ==
    /\ j \in Job
    /\ \/ pc[j] = "wait" /\ pc' = [pc EXCEPT ![j] = "run"]
       \/ pc[j] = "run" /\ pc' = [pc EXCEPT ![j] = "hung"]
    /\ UNCHANGED <<stored, global, puts, upd, input, todo, period, ticker>>

RunEnds(j) ==
    /\ pc[j] = "run" /\ pc' = [pc EXCEPT ![j] = "wait"]
    /\ UNCHANGED <<stored, global, puts, upd, input, todo, period, ticker>>

\* The job is told.  A period that is too short leaves the ticker as it is.
ConfigChange(j) ==
    /\ todo # <<>> /\ j = Head(todo) /\ pc[j] = "wait"
    /\ todo' = Tail(todo)
    /\ period' = [period EXCEPT ![j] = global]
    /\ ticker' = IF global # 0 /\ period[j] # global
                 THEN [ticker EXCEPT ![j] = global] ELSE ticker
    /\ UNCHANGED <<stored, global, puts, upd, input, pc>>

-------------------------------------------------------------------------------
Alive == \A j \in All : pc[j] # "dead"

Updates(u) == Retrieve(u) \/ Submit(u) \/ Assign(u)

Next ==
    /\ Alive
    /\ \/ \E v \in Period : Put(v)
       \/ \E u \in Updater : Updates(u)
       \/ Broadcast
       \/ \E j \in All : Register(j) \/ StartJob(j) \/ Run(j) \/ RunEnds(j) \/ ConfigChange(j)

\* The goroutines go on, and reloadConfig comes again every minute.
Fairness ==
    /\ \A u \in Updater : WF_vars(Alive /\ Updates(u))
    /\ WF_vars(Alive /\ Broadcast)
    /\ \A j \in All :
          /\ SF_vars(Alive /\ Register(j)) /\ WF_vars(Alive /\ StartJob(j))
          /\ SF_vars(Alive /\ ConfigChange(j)) /\ WF_vars(Alive /\ RunEnds(j))

Spec == Init /\ [][Next]_vars /\ Fairness

-------------------------------------------------------------------------------
(***************************************************************************)
(* A configuration that stays stored becomes the one of the node, and      *)
(* every job comes to run at its period, although a job may be told before *)
(* globalConfig is set, or globalConfig be set to an older one by another  *)
(* updater: the next reload tells the jobs again.  Only a job that hangs   *)
(* (its channel fills the broadcaster, and updateConfig waits before it    *)
(* has set anything) or the end of the process prevents it.                *)
(***************************************************************************)
ConfigReaches ==
    \A v \in Period :
        <>[](stored = v) =>
            \/ <>(~Alive \/ \E j \in Job : pc[j] = "hung")
            \/ <>[](/\ global = v
                    /\ \A j \in All : period[j] = v /\ (v # 0 => ticker[j] = v))

(***************************************************************************)
(* A period that is too short ends the process only where the heartbeat    *)
(* starts with it.  A node that runs keeps its tickers when it is told of  *)
(* such a period; it is the restart that fails.                            *)
(***************************************************************************)
StartsDead == Alive /\ ~Alive' => pc[HB] = "sleep" /\ global = 0

DiesOnlyStarting == [][StartsDead]_vars

===============================================================================
