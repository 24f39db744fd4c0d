------------------------------ MODULE ConfigPart ------------------------------
(***************************************************************************)
(* The stored configuration (ConfigStore), and how it reaches the jobs of  *)
(* a node (ConfigBroadcast), which sees only its node's configuration.     *)
(***************************************************************************)
EXTENDS Naturals

CONSTANTS
    Server, Admin, Param, Val, Default, Strange, Foreign, NoDoc, MaxEdits, \* ConfigStore
    Job, HB, Updater, Period, Day, Cap, MaxPuts                            \* ConfigBroadcast

VARIABLES
    \* ConfigStore:
    document, globals, admin, edits, known, intent, stale,
    \* ConfigBroadcast:
    stored, global, puts, updating, input, todo, jobs, period, ticker

svars == <<document, globals, admin, edits, known, intent, stale>>
bvars == <<stored, global, puts, updating, input, todo, jobs, period, ticker>>

S == INSTANCE ConfigStore WITH Node <- Server, stored <- document, global <- globals
B == INSTANCE ConfigBroadcast WITH upd <- updating, pc <- jobs

ASSUME ConfigAssumption == S!ConfigAssumption /\ B!PeriodAssumption

-------------------------------------------------------------------------------
\* ConfigStore: a node runs with a configuration that somebody stored, and the
\* value of a parameter is lost only to another version of the program or to a
\* command that writes back an older copy.
ConfigRight == S!TypeOK /\ B!TypeOK /\ S!ConfWhole /\ S!LostOnlyThere

===============================================================================
