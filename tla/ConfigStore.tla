------------------------------ MODULE ConfigStore ------------------------------
(***************************************************************************)
(* The configuration of the cluster: a document that an administrator      *)
(* changes one parameter at a time by reading it through a node, setting   *)
(* the parameter and writing all of it back (client/conf.go, http_api.go,  *)
(* conf.go, config/config.go).                                             *)
(*                                                                         *)
(* A configuration gives every parameter a value.  A document may have     *)
(* fewer names, or names that this version does not know, when a node of   *)
(* another version stored it.                                              *)
(***************************************************************************)
EXTENDS Naturals

CONSTANTS
    Param, Val,
    Default,       \* DefaultConfig
    Strange,       \* a name this version does not know
    Foreign,       \* documents that nodes of other versions store
    Node, Admin,
    NoDoc,         \* there is no document
    MaxEdits       \* bound on documents stored by other versions and on edits

Conf == [Param -> Val]
Docs == UNION {[D -> Val] : D \in SUBSET (Param \cup {Strange})}

ConfigAssumption ==
    /\ Default \in Conf /\ Strange \notin Param /\ Foreign \subseteq Docs
    /\ NoDoc \notin Docs /\ Admin \cap Param = {} /\ MaxEdits \in Nat

VARIABLES
    stored,        \* the document
    global,        \* globalConfig of each node
    admin,         \* setconf commands: [pc, at, param, val, conf]
    edits,
    known,         \* history: the configurations ever stored, and the default
    intent,        \* history: the last value each parameter was to be set to
    stale          \* history: commands whose copy was read before another
                   \*   write of the document, and parameters not kept since

vars == <<stored, global, admin, edits, known, intent, stale>>

Off == [pc |-> "off"]

TypeOK ==
    /\ stored = NoDoc \/ stored \in Docs
    /\ global \in [Node -> Conf]
    /\ admin \in [Admin -> {Off} \cup [pc : {"put", "read"}, at : Node, param : Param,
                                       val : Val, conf : Conf]]
    /\ known \subseteq Conf /\ intent \in Conf
    /\ stale \subseteq Admin \cup Param /\ edits \in 0..MaxEdits

Init ==
    /\ stored = NoDoc /\ global = [n \in Node |-> Default]
    /\ admin = [a \in Admin |-> Off]
    /\ edits = 0 /\ known = {Default} /\ intent = Default /\ stale = {}

-------------------------------------------------------------------------------
(***************************************************************************)
(* UnmarshalJSON: the defaults, and over them what the document has; the   *)
(* names come in any order, and the first one that is not known ends it    *)
(* with an error and what has been set until then.                         *)
(***************************************************************************)
OverDefaults(d, S) == [p \in Param |-> IF p \in S THEN d[p] ELSE Default[p]]

Decoded(d) ==
    IF Strange \in DOMAIN d
    THEN {[ok |-> FALSE, conf |-> OverDefaults(d, S)] : S \in SUBSET (DOMAIN d \cap Param)}
    ELSE {[ok |-> TRUE, conf |-> OverDefaults(d, DOMAIN d)]}

\* updateConfig: what could not be read changes nothing.
UpdateConfig(n, d) ==
    IF d = NoDoc THEN UNCHANGED global
    ELSE \E r \in Decoded(d) :
            global' = IF r.ok THEN [global EXCEPT ![n] = r.conf] ELSE global

\* reloadConfig, and doGetConfig.
Reload(n) ==
    /\ UpdateConfig(n, stored)
    /\ UNCHANGED <<stored, admin, edits, known, intent, stale>>

(***************************************************************************)
(* SetConfigParam.  The node that is asked tries to bring its own copy up  *)
(* to date and answers with it; the parameter is set in the answer; all of *)
(* it is put, and stored whatever is there by now.                         *)
(***************************************************************************)
GetConfig(a, n, p, v) ==
    /\ admin[a] = Off /\ edits < MaxEdits /\ edits' = edits + 1
    /\ UpdateConfig(n, stored)
    /\ admin' = [admin EXCEPT ![a] =
                    [pc |-> "put", at |-> n, param |-> p, val |-> v, conf |-> global'[n]]]
    /\ stale' = IF stored # NoDoc /\ global'[n] # stored
                THEN stale \cup {a} ELSE stale \ {a}
    /\ UNCHANGED <<stored, known, intent>>

\* A node that cannot read the database answers with what it has.
GetOldConfig(a, n, p, v) ==
    /\ admin[a] = Off /\ edits < MaxEdits /\ edits' = edits + 1
    /\ admin' = [admin EXCEPT ![a] =
                    [pc |-> "put", at |-> n, param |-> p, val |-> v, conf |-> global[n]]]
    /\ stale' = IF stored # NoDoc /\ global[n] # stored
                THEN stale \cup {a} ELSE stale \ {a}
    /\ UNCHANGED <<stored, global, known, intent>>

\* Every other command that has read holds an old copy from now on.
Holding(a) == {b \in Admin \ {a} : admin[b] # Off}

Stores(a, conf) ==
    LET p == admin[a].param IN
    /\ stored' = conf
    /\ known' = known \cup {conf}
    /\ intent' = [intent EXCEPT ![p] = admin[a].val]
    /\ stale' = ((IF a \in stale THEN (stale \cup Param) \ {a} ELSE stale)
                    \cup Holding(a)) \ {p}

SetParam(a, conf) ==
    /\ admin[a] # Off /\ admin[a].pc = "put"
    /\ Stores(a, conf)
    /\ admin' = [admin EXCEPT ![a].pc = "read"]
    /\ UNCHANGED <<global, edits>>

\* Mutant: what is put begins from the defaults.
SetConfigParamAnew(a) ==
    /\ admin[a] # Off
    /\ SetParam(a, [Default EXCEPT ![admin[a].param] = admin[a].val])

SetConfigParam(a) ==
    /\ admin[a] # Off
    /\ SetParam(a, [admin[a].conf EXCEPT ![admin[a].param] = admin[a].val])

\* The end of putConfig.
PutUpdate(a) ==
    /\ admin[a] # Off /\ admin[a].pc = "read"
    /\ UpdateConfig(admin[a].at, stored)
    /\ admin' = [admin EXCEPT ![a] = Off]
    /\ UNCHANGED <<stored, edits, known, intent, stale>>

\* A node of another version stores the document with more or fewer names.
OtherVersion(d) ==
    /\ edits < MaxEdits /\ edits' = edits + 1
    /\ stored' = d
    /\ known' = IF Strange \in DOMAIN d THEN known
                ELSE known \cup {OverDefaults(d, DOMAIN d)}
    /\ stale' = stale \cup Param \cup {a \in Admin : admin[a] # Off}
    /\ UNCHANGED <<global, admin, intent>>

-------------------------------------------------------------------------------
Gets(a) ==
    \E n \in Node, p \in Param, v \in Val : GetConfig(a, n, p, v) \/ GetOldConfig(a, n, p, v)

Next ==
    \/ \E n \in Node : Reload(n)
    \/ \E a \in Admin : Gets(a) \/ SetConfigParam(a) \/ PutUpdate(a)
    \/ \E d \in Foreign : OtherVersion(d)

Spec == Init /\ [][Next]_vars

-------------------------------------------------------------------------------
(***************************************************************************)
(* A node never runs with a configuration that nobody stored: one decoded  *)
(* halfway, up to a name it does not know, is not used by a node nor       *)
(* written back by an administrator.                                       *)
(***************************************************************************)
ConfWhole == \A n \in Node : global[n] \in known

(***************************************************************************)
(* A parameter has the value it was last set to, unless another version    *)
(* wrote the document or a command wrote back a copy it read before        *)
(* another write (or from a node that could not read the database).        *)
(***************************************************************************)
LostOnlyThere ==
    \A p \in Param \ stale : stored # NoDoc => p \in DOMAIN stored /\ stored[p] = intent[p]

-------------------------------------------------------------------------------
(***************************************************************************)
(* What makes them inductive: a document without a strange name is one     *)
(* that is known, all is as at the start until there is a document, and a  *)
(* copy that is not stale is the document.                                 *)
(***************************************************************************)
DocKnown ==
    stored # NoDoc /\ Strange \notin DOMAIN stored =>
        OverDefaults(stored, DOMAIN stored) \in known

AtFirst ==
    stored = NoDoc => /\ intent = Default /\ \A n \in Node : global[n] = Default
                      /\ \A a \in Admin : admin[a] # Off => admin[a].conf = Default

CopyIsDoc ==
    \A a \in Admin \ stale :
        admin[a] # Off /\ admin[a].pc = "put" /\ stored # NoDoc => admin[a].conf = stored

Inv == TypeOK /\ ConfWhole /\ LostOnlyThere /\ DocKnown /\ AtFirst /\ CopyIsDoc

===============================================================================
