---------------------------- MODULE BridgeContract ----------------------------
(***************************************************************************)
(* What every Android capability and bridge shares: the commands in        *)
(* flight, and the result a capability answers with.  A bridge raises or   *)
(* answers; a capability turns both into a CapabilityResult.               *)
(***************************************************************************)
EXTENDS Integers, Sequences

CONSTANTS
    Commands,   \* commands, which also name the entries they create (uuid4)
    None        \* Python's None: no result, no such entry

ASSUME BridgeAssumption == None \notin Commands

=============================================================================
