-------------------------------- MODULE MCNode --------------------------------
(***************************************************************************)
(* Parts of a node's process that share no state: an upload with its       *)
(* second copy (TeeUpload), the registry of nodes (NodeRegistry), and the  *)
(* connections to one other node (FrameClients).  Each is explored by      *)
(* itself: "part" is the one that runs, and the others stay in an initial  *)
(* state.                                                                  *)
(***************************************************************************)
EXTENDS UploadPart, RegistryPart, FramesPart

VARIABLE part

nodeVars == <<part, tvars, rvars, fvars>>

-------------------------------------------------------------------------------
TOff == alt = FALSE /\ hashin = "none"

Init ==
    /\ part \in {"upload", "registry", "frames"}
    /\ (part = "upload" \/ TOff) /\ T!Init
    /\ R!Init /\ F!Init

Next ==
    \/ part = "upload" /\ T!Next /\ UNCHANGED <<part, rvars, fvars>>
    \/ part = "registry" /\ R!Next /\ UNCHANGED <<part, tvars, fvars>>
    \/ part = "frames" /\ F!Next /\ UNCHANGED <<part, tvars, rvars>>

\* The fairness of the part that runs.
UploadFairness ==
    /\ WF_tvars(part = "upload" /\ T!TeeRead) /\ WF_tvars(part = "upload" /\ T!TeeWrite)
    /\ WF_tvars(part = "upload" /\ T!TeeTimeout) /\ WF_tvars(part = "upload" /\ T!TeeSend)
    /\ WF_tvars(part = "upload" /\ tee \in {"eof", "err"} /\ T!PostRawBlob)
    /\ WF_tvars(part = "upload" /\ T!DoAnswered) /\ WF_tvars(part = "upload" /\ T!SendAgain)
    /\ WF_tvars(part = "upload" /\ T!Copy) /\ WF_tvars(part = "upload" /\ T!Finish)
    /\ WF_tvars(part = "upload" /\ T!Record) /\ WF_tvars(part = "upload" /\ T!Collect)
    /\ WF_tvars(part = "upload" /\ T!StoreMeta)
    /\ WF_tvars(part = "upload" /\ pc = "crashed" /\ T!CleanTmpFiles)

RegistryFairness ==
    /\ \A n \in Node :
          /\ WF_rvars(part = "registry" /\ R!Beat(n))
          /\ WF_rvars(part = "registry" /\ n \notin up /\ R!Age(n))
          /\ SF_rvars(part = "registry" /\ \E m \in Node, c \in Cleaner :
                          R!CheckStaleNodes(m, n, c))
          /\ SF_rvars(part = "registry" /\ R!UpdateNodeSizes(n))
    /\ WF_rvars(part = "registry" /\ R!SetInNodeRegistry)
    /\ \A c \in Cleaner : WF_rvars(part = "registry" /\ R!Cleans(c))

FramesFairness ==
    /\ WF_fvars(part = "frames" /\ \E k \in F!Client : F!Fire(k))
    /\ WF_fvars(part = "frames" /\ F!Tick)
    /\ \A k \in F!Client : WF_fvars(part = "frames" /\ F!Checks(k))

Spec ==
    /\ Init /\ [][Next]_nodeVars
    /\ UploadFairness /\ RegistryFairness /\ FramesFairness

-------------------------------------------------------------------------------
\* TeeUpload, NodeRegistry and FrameClients: an upload is answered and leaves
\* nothing behind; a node that runs is found, and one that stays down is
\* forgotten once its blobs have enough owners; an idle connection is closed.
NodeSettles ==
    /\ part = "upload" => T!UploadEnds
    /\ part = "registry" => R!Findable /\ R!CleanedUp
    /\ part = "frames" => F!IdleClosed

===============================================================================
