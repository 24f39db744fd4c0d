------------------------------ MODULE FrameClients ------------------------------
(***************************************************************************)
(* The pool of frame connections to another node (frames.go).  Requests    *)
(* look a client up by address and connect one if there is none; a timer   *)
(* of each client checks it again and again, pings it when it is quiet and *)
(* destroys it when it fails or was idle for too long.  Only the single    *)
(* map operations are under the lock.                                      *)
(*                                                                         *)
(* One address: different ones share nothing but the lock.  A client is    *)
(* numbered in the order of connecting.  Time counts in periods of the     *)
(* checks; data, in pieces that are sufficient for one check.              *)
(***************************************************************************)
EXTENDS Naturals, FiniteSets

CONSTANTS
    Request,       \* requests to the address
    MaxClients,    \* bound on connections
    MaxUses,       \* bound on the data moved on each
    MaxIdle        \* frameMaxIdle

FrameAssumption == {MaxClients, MaxUses, MaxIdle} \subseteq Nat /\ MaxClients > 0

Client == 1..MaxClients
None == 0
\* How long ago a time is that was never set.
Long == MaxIdle + 1

VARIABLES
    entry,         \* frameClients[addr]
    open,          \* the connections that are open
    made,          \* connections made so far
    checker,       \* clients whose checker is an armed timer
    loose,         \* armed timers that are no client's checker any more
    bytes, prev,   \* data moved on each, and as prevInfo has it
    idle,          \* time since lastActivity
    req,           \* requests: [pc, fc]
    check,         \* checks that run: [pc, fc, info]
    overwritten    \* history: clients whose entry another one replaced

vars == <<entry, open, made, checker, loose, bytes, prev, idle, req, check,
          overwritten>>

Off == [pc |-> "off", fc |-> None, info |-> 0]
ReqOff == [pc |-> "off", fc |-> None]

TypeOK ==
    /\ entry \in Client \cup {None} /\ made \in 0..MaxClients
    /\ open \subseteq Client /\ checker \subseteq Client /\ overwritten \subseteq Client
    /\ loose \in 0..MaxClients
    /\ bytes \in [Client -> 0..MaxUses] /\ prev \in [Client -> 0..MaxUses]
    /\ idle \in [Client -> 0..Long]
    /\ req \in [Request -> [pc : {"off", "dial", "use"}, fc : Client \cup {None}]]
    /\ check \in [Client -> [pc : {"off", "find", "look", "ping", "destroy", "arm"},
                             fc : Client \cup {None}, info : 0..MaxUses]]

Init ==
    /\ entry = None /\ open = {} /\ made = 0 /\ checker = {} /\ loose = 0
    /\ bytes = [c \in Client |-> 0] /\ prev = [c \in Client |-> 0]
    /\ idle = [c \in Client |-> Long]
    /\ req = [r \in Request |-> ReqOff]
    /\ check = [k \in Client |-> Off]
    /\ overwritten = {}

-------------------------------------------------------------------------------
(***************************************************************************)
(* getFrameClient: find, and connect if there is none.                     *)
(***************************************************************************)
FindExistingFrameClient(r) ==
    /\ req[r] = ReqOff
    /\ req' = [req EXCEPT ![r] =
                  IF entry = None THEN [pc |-> "dial", fc |-> None]
                  ELSE [pc |-> "use", fc |-> entry]]
    /\ UNCHANGED <<entry, open, made, checker, loose, bytes, prev, idle, check,
                   overwritten>>

\* connectNewFramesClient: the entry is set whatever it is by now.
ConnectNewFramesClient(r) ==
    /\ req[r].pc = "dial"
    /\ \/ /\ made < MaxClients
          /\ made' = made + 1 /\ entry' = made'
          /\ open' = open \cup {made'} /\ checker' = checker \cup {made'}
          /\ overwritten' = IF entry = None THEN overwritten
                            ELSE overwritten \cup {entry}
          /\ req' = [req EXCEPT ![r] = [pc |-> "use", fc |-> made']]
       \/ /\ req' = [req EXCEPT ![r] = ReqOff]       \* http.DefaultClient
          /\ UNCHANGED <<entry, open, made, checker, overwritten>>
    /\ UNCHANGED <<loose, bytes, prev, idle, check>>

\* The request, which fails on a connection that is closed.
UseOf(r, c, then) ==
    /\ req[r].pc = "use"
    /\ bytes' = IF c \in open /\ bytes[c] < MaxUses
                THEN [bytes EXCEPT ![c] = @ + 1] ELSE bytes
    /\ req' = [req EXCEPT ![r] = ReqOff]
    /\ entry' = then /\ open' = IF then = entry THEN open ELSE open \ {entry}
    /\ UNCHANGED <<made, checker, loose, prev, idle, check, overwritten>>

\* Mutant: a request that fails destroys the client of its address.
UseDestroys(r) == UseOf(r, req[r].fc, IF req[r].fc \in open THEN entry ELSE None)

Use(r) == UseOf(r, req[r].fc, entry)

-------------------------------------------------------------------------------
(***************************************************************************)
(* The timers.  Which client's timer fired does not matter to the check:   *)
(* it gets the address.                                                    *)
(***************************************************************************)
Fire(k) ==
    /\ check[k] = Off /\ \A j \in 1..(k - 1) : check[j] # Off
    /\ \/ \E c \in checker : checker' = checker \ {c} /\ UNCHANGED loose
       \/ loose > 0 /\ loose' = loose - 1 /\ UNCHANGED checker
    /\ check' = [check EXCEPT ![k].pc = "find"]
    /\ UNCHANGED <<entry, open, made, bytes, prev, idle, req, overwritten>>

Tick ==
    LET Older(t) == [c \in Client |-> IF c <= made /\ t[c] < Long THEN t[c] + 1 ELSE t[c]] IN
    /\ idle' = Older(idle)
    /\ UNCHANGED <<entry, open, made, checker, loose, bytes, prev, req, check, overwritten>>

CheckFind(k) ==
    /\ check[k].pc = "find"
    /\ check' = [check EXCEPT ![k] =
                    IF entry = None THEN Off ELSE [pc |-> "look", fc |-> entry, info |-> 0]]
    /\ UNCHANGED <<entry, open, made, checker, loose, bytes, prev, idle, req,
                   overwritten>>

\* checkFrameClient up to the ping.
CheckLook(k) ==
    LET c == check[k].fc
        sufficient == bytes[c] > prev[c]
        since == IF sufficient THEN 0 ELSE idle[c] IN
    /\ check[k].pc = "look"
    /\ idle' = [idle EXCEPT ![c] = since]
    /\ check' = [check EXCEPT ![k] =
                    [@ EXCEPT !.info = bytes[c],
                              !.pc = IF since > MaxIdle THEN "destroy"
                                     ELSE IF sufficient THEN "arm" ELSE "ping"]]
    /\ UNCHANGED <<entry, open, made, checker, loose, bytes, prev, req, overwritten>>

\* The answer, an error, or no answer in time; an error if it is closed.
Ping(k) ==
    /\ check[k].pc = "ping"
    /\ \/ check[k].fc \in open /\ check' = [check EXCEPT ![k].pc = "arm"]
       \/ check' = [check EXCEPT ![k].pc = "destroy"]
    /\ UNCHANGED <<entry, open, made, checker, loose, bytes, prev, idle, req,
                   overwritten>>

\* destroyFrameClient: what is in the map by now.
Destroy(k, closed, then) ==
    /\ check[k].pc = "destroy"
    /\ entry' = None
    /\ open' = open \ closed /\ checker' = checker \ {entry}
    /\ check' = [check EXCEPT ![k] = then]
    /\ UNCHANGED <<made, loose, bytes, prev, idle, req, overwritten>>

\* Mutant: the connection is not closed.
DestroyLeaves(k) == Destroy(k, {}, Off)

DestroyFrameClient(k) == Destroy(k, {entry}, Off)

\* The end of the check: the next one is set up for the same client.
Arm(k) ==
    LET c == check[k].fc IN
    /\ check[k].pc = "arm"
    /\ prev' = [prev EXCEPT ![c] = check[k].info]
    /\ checker' = checker \cup {c}
    /\ loose' = IF c \in checker THEN loose + 1 ELSE loose
    /\ check' = [check EXCEPT ![k] = Off]
    /\ UNCHANGED <<entry, open, made, bytes, idle, req, overwritten>>

-------------------------------------------------------------------------------
Checks(k) ==
    CheckFind(k) \/ CheckLook(k) \/ Ping(k) \/ DestroyFrameClient(k) \/ Arm(k)

Requests(r) == FindExistingFrameClient(r) \/ ConnectNewFramesClient(r) \/ Use(r)

Next ==
    \/ \E r \in Request : Requests(r)
    \/ \E k \in Client : Fire(k) \/ Checks(k)
    \/ Tick

\* Timers fire, checks run on, and time passes.
Fairness ==
    /\ WF_vars(\E k \in Client : Fire(k)) /\ WF_vars(Tick)
    /\ \A k \in Client : WF_vars(Checks(k))

Spec == Init /\ [][Next]_vars /\ Fairness

-------------------------------------------------------------------------------
(***************************************************************************)
(* A connection that is open and not in the map will never be closed.      *)
(* Only one whose entry was replaced by a concurrent connect is like that. *)
(***************************************************************************)
LeakOnlyThere == open \subseteq {entry} \cup overwritten

Busy == {k \in Client : check[k] # Off}

(***************************************************************************)
(* At most one timer or check is under way for the address; each connect   *)
(* that replaced an entry may add one, although checks set timers up that  *)
(* nobody can stop any more and find clients that are not theirs.          *)
(***************************************************************************)
OneChain ==
    Cardinality(checker) + loose + Cardinality(Busy)
        <= 1 + Cardinality(overwritten)

(***************************************************************************)
(* A client is destroyed only by a check that looked at this very client,  *)
(* although the check destroys by address and pings for up to a minute in  *)
(* between; except after a connect that replaced an entry.                 *)
(***************************************************************************)
ChecksFirst ==
    \A c \in open \ open' :
        \/ overwritten # {}
        \/ \E k \in Client : check[k].pc = "destroy" /\ check[k].fc = c

DestroysChecked == [][ChecksFirst]_vars

(***************************************************************************)
(* Once there are no more requests, the client of the address is closed,   *)
(* although the pings keep its connection alive.                           *)
(***************************************************************************)
IdleClosed ==
    <>[](\A r \in Request : req[r] = ReqOff) => <>[](entry = None)

-------------------------------------------------------------------------------
(***************************************************************************)
(* What makes the properties inductive: without an entry there is no timer *)
(* or check but those that a replaced entry left, the entry is the newest  *)
(* client, and as long as none was replaced a check is about the entry.    *)
(***************************************************************************)
ChainInv ==
    Cardinality(checker) + loose + Cardinality(Busy)
        <= (IF entry = None THEN 0 ELSE 1) + Cardinality(overwritten)

EntryInv ==
    /\ entry \in {None, made} /\ entry \notin overwritten
    /\ overwritten \subseteq 1..made

CheckInv ==
    \A k \in Client : check[k].pc \in {"look", "ping", "destroy", "arm"} =>
        /\ check[k].fc # None
        /\ overwritten = {} => check[k].fc = entry

Inv == TypeOK /\ LeakOnlyThere /\ ChainInv /\ EntryInv /\ CheckInv

===============================================================================
