----------------------------- MODULE RegistryPart -----------------------------
(***************************************************************************)
(* The registry of nodes (NodeRegistry), as a part of a node.              *)
(***************************************************************************)
EXTENDS Naturals

CONSTANTS Node, Frail, Cleaner, Keys, MaxRows, MaxFaults, Lost

VARIABLES up, hb, rows, short, index, reg, clean, upd, faults, removed, late

rvars == <<up, hb, rows, short, index, reg, clean, upd, faults, removed, late>>

R == INSTANCE NodeRegistry

ASSUME RegistryAssumption == R!KeysAssumption

-------------------------------------------------------------------------------
\* NodeRegistry: a pass that ends well has every node in every document, and
\* registrations that no cleanup sees are left only by a node before its first
\* heartbeat, or while a cleanup was about to delete its record.
RegistryRight == R!TypeOK /\ R!UpdateComplete /\ R!OrphansOnlyThere

===============================================================================
