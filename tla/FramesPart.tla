------------------------------ MODULE FramesPart ------------------------------
(***************************************************************************)
(* The connections to one other node (FrameClients), as a part of a node.  *)
(***************************************************************************)
EXTENDS Naturals

CONSTANTS Request, MaxClients, MaxUses, MaxIdle

VARIABLES entry, open, made, checker, loose, bytes, prev, idle, req, check, overwritten

fvars == <<entry, open, made, checker, loose, bytes, prev, idle, req, check,
           overwritten>>

F == INSTANCE FrameClients

ASSUME FramesAssumption == F!FrameAssumption

-------------------------------------------------------------------------------
\* FrameClients: an address has one timer or check, and a connection is left
\* open for ever only when a concurrent connect took its place in the map.
ConnectionsRight == F!TypeOK /\ F!OneChain /\ F!LeakOnlyThere

\* FrameClients: a client is destroyed by a check of this very client.
DestroysChecked == [][F!ChecksFirst]_fvars

===============================================================================
