------------------------------- MODULE EventLoop -------------------------------
(***************************************************************************)
(* What the services of the kernel share: the calls that are in flight on  *)
(* the one event loop.                                                     *)
(***************************************************************************)
EXTENDS Integers, Sequences, FiniteSets

CONSTANTS
    Calls,      \* concurrent calls, each made once
    None        \* Python's None

ASSUME EventLoopAssumption == None \notin Calls

=============================================================================
