---------------------------- MODULE SharedInstances ----------------------------
(***************************************************************************)
(* What the container promises of singletons (core/container/lifetime.py): *)
(* an instance is made the first time somebody needs it, by one call while *)
(* the others wait; when that call fails another one may try; once made it *)
(* stays and nobody makes it again.  A resolve returns only what there is: *)
(* of a shared service the instance that was made.  All this of a service  *)
(* as long as it keeps its registration and the container is open.         *)
(***************************************************************************)
CONSTANTS Services, Calls, None

VARIABLES
    cell,      \* the service: absent, unshared, empty, ready, or released from the promise
    builders,  \* the calls that are making its instance
    wanted,    \* what a call resolves
    answer     \* how the call ended

instances == <<cell, builders>>
calls == <<wanted, answer>>

Exceptions == {"circular", "missing", "runtime", "failed"}

SharedInit ==
    /\ cell \in [Services -> {"absent", "unshared", "empty"}]
    /\ builders = [s \in Services |-> {}]
    /\ wanted = [c \in Calls |-> None]
    /\ answer = [c \in Calls |-> None]

\* The container may be shut: the call ends at once.
Want(c, s) ==
    /\ wanted[c] = None /\ answer[c] = None
    /\ wanted' = [wanted EXCEPT ![c] = s]
    /\ \E a \in {None, "runtime"} : answer' = [answer EXCEPT ![c] = a]

Busy(c) == wanted[c] # None /\ answer[c] = None

\* A call that has ended makes nothing.
Answer(c, a) ==
    /\ Busy(c)
    /\ answer' = [answer EXCEPT ![c] = a]
    /\ \A s \in Services : c \notin builders'[s]
    /\ a = "returned" => cell'[wanted[c]] \in {"unshared", "ready", "released"}
    /\ UNCHANGED wanted

Begin(c, s) ==
    /\ Busy(c) /\ cell[s] = "empty" /\ builders[s] = {}
    /\ builders' = [builders EXCEPT ![s] = {c}]
    /\ UNCHANGED cell

Fail(c, s) ==
    /\ Busy(c) /\ cell[s] = "empty" /\ builders[s] = {c}
    /\ builders' = [builders EXCEPT ![s] = {}]
    /\ UNCHANGED cell

Finish(c, s) ==
    /\ Busy(c) /\ cell[s] = "empty" /\ builders[s] = {c}
    /\ cell' = [cell EXCEPT ![s] = "ready"]
    /\ builders' = [builders EXCEPT ![s] = {}]

Release(S) ==
    /\ cell' = [s \in Services |-> IF s \in S THEN "released" ELSE cell[s]]
    /\ builders' = [s \in Services |-> IF s \in S THEN {} ELSE builders[s]]

SharedNext ==
    \/ UNCHANGED calls /\ \E S \in SUBSET Services : Release(S)
    \/ \E c \in Calls, a \in Exceptions \cup {"returned"} : Answer(c, a) /\ UNCHANGED instances
    \/ \E c \in Calls, s \in Services :
          \/ Want(c, s) /\ UNCHANGED instances
          \/ Begin(c, s) /\ UNCHANGED calls
          \/ Finish(c, s) /\ (UNCHANGED calls \/ Answer(c, "returned"))
          \/ Fail(c, s) /\ (UNCHANGED calls \/ \E e \in Exceptions : Answer(c, e))

SharedSpec == SharedInit /\ [][SharedNext]_<<instances, calls>>
=============================================================================
