--------------------------- MODULE GuardedExecution ---------------------------
(***************************************************************************)
(* What ExecutionService.execute promises its caller                       *)
(* (core/execution/contracts.py): a command is accepted, then permitted or *)
(* denied, only a permitted command reaches a capability, it does so at    *)
(* most once, and the answer tells what happened.  At any point before the *)
(* answer the call may raise instead.                                      *)
(***************************************************************************)
CONSTANTS Commands, None

VARIABLES
    phase,    \* how far the command got
    answer    \* the status of the outcome execute returned

GuardedInit ==
    /\ phase = [c \in Commands |-> "new"]
    /\ answer = [c \in Commands |-> None]

Move(c, from, to) ==
    /\ phase[c] = from
    /\ phase' = [phase EXCEPT ![c] = to]

Accept(c) == Move(c, "new", "pending") /\ UNCHANGED answer
Permit(c) == Move(c, "pending", "permitted") /\ UNCHANGED answer
Run(c) == Move(c, "permitted", "running") /\ UNCHANGED answer

\* A denial comes from a command that was never permitted, a success from one
\* whose capability ran; a failure needs a permit, but not a run: the capability
\* may have left the registry.
Answer(c) ==
    \/ Move(c, "pending", "done") /\ answer' = [answer EXCEPT ![c] = "DENIED"]
    \/ Move(c, "permitted", "done") /\ answer' = [answer EXCEPT ![c] = "FAILED"]
    \/ /\ Move(c, "running", "done")
       /\ \E status \in {"SUCCEEDED", "FAILED"} : answer' = [answer EXCEPT ![c] = status]

Raise(c) ==
    /\ phase[c] \notin {"done", "raised"}
    /\ phase' = [phase EXCEPT ![c] = "raised"]
    /\ UNCHANGED answer

GuardedNext ==
    \E c \in Commands : Accept(c) \/ Permit(c) \/ Run(c) \/ Answer(c) \/ Raise(c)

GuardedSpec == GuardedInit /\ [][GuardedNext]_<<phase, answer>>
=============================================================================
