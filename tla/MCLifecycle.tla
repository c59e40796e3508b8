------------------------------ MODULE MCLifecycle ------------------------------
(***************************************************************************)
(* Small instances of LifecycleOrchestrator for TLC.  A behaviour looks at *)
(* the manager in one of three ways, so that each can have the inputs that *)
(* matter to it:                                                           *)
(*   "phases"  one call on every registry that can be built;               *)
(*   "serial"  two calls, the registry changing between them;              *)
(*   "moving"  one call, the registry changing while it is under way.      *)
(* The last two have a chain of three components.                          *)
(***************************************************************************)
EXTENDS LifecycleOrchestrator

CONSTANTS
    config, logging, bus,    \* component names
    first, second            \* calls

VARIABLE focus

MCNameOrder == [n \in Names |-> IF n = bus THEN 1 ELSE IF n = config THEN 2 ELSE 3]

Component(n, deps, priority) ==
    [name |-> n, dependencies |-> deps, priority |-> priority, enabled |-> TRUE, critical |-> TRUE]

\* The chain, with an optional part in the middle.
Chain ==
    {Component(config, {}, 1),
     [Component(logging, {config}, 2) EXCEPT !.critical = FALSE],
     Component(bus, {logging}, 3)}

\* Chains, diamonds, circles, a component that waits for itself, broken graphs, and
\* optional and disabled parts, with priorities that agree or disagree.
Graphs ==
    {Component(config, {}, 2),
     Component(config, {bus}, 1),
     Component(config, {config}, 0),
     Component(logging, {config}, 1),
     Component(logging, {bus}, 0),
     [Component(logging, {config}, 1) EXCEPT !.critical = FALSE],
     [Component(logging, {}, 1) EXCEPT !.enabled = FALSE],
     Component(bus, {config, logging}, 0),
     Component(bus, {config}, 1),
     Component(bus, {}, 1)}

\* A part that takes the name of one of the chain while a phase runs.
Newcomer == [Component(logging, {bus}, 0) EXCEPT !.critical = FALSE]

MCRegistrations == Chain \cup Graphs \cup {Newcomer}

Inputs ==
    [phases |-> Graphs, serial |-> Chain, moving |-> Chain \cup {Newcomer}]

MCInit == Init /\ focus \in DOMAIN Inputs

MCNext ==
    /\ Next
    /\ UNCHANGED focus
    /\ \A n \in Names : components'[n] \in Inputs[focus] \cup {None}
    /\ pc'[second] # "idle" => focus = "serial" /\ pc[first] = "returned"
    /\ components' # components =>
          \/ focus = "phases" /\ pc[first] = "idle"
          \/ focus = "serial" /\ pc[second] = "idle" /\ Free
          \/ focus = "moving" /\ pc[first] # "returned"
          \/ Registered = {} /\ Free

MCSpec == MCInit /\ [][MCNext]_<<vars, focus>>
MCFairSpec == MCSpec /\ \A t \in Calls : WF_vars(HookStep(t))
=============================================================================
