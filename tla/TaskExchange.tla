----------------------------- MODULE TaskExchange -----------------------------
(***************************************************************************)
(* What the workflow engine promises about the tasks that are submitted    *)
(* (core/workflow/contracts.py): a call hands in one task and is given at  *)
(* most one, any of those that wait.  A task is given out once and         *)
(* executed once, by the call that was given it, and a call answers        *)
(* COMPLETED only with the result of a task it was given and whose         *)
(* execution succeeded.  A call may fail or raise at any point.            *)
(***************************************************************************)
CONSTANTS Calls, None

VARIABLES
    task,    \* how far the task of each call got
    given,   \* the task a call was given
    answer   \* what a call returned or raised, and the task whose result it carries

NoAnswer == [status |-> None, from |-> None]

ExchangeInit ==
    /\ task = [t \in Calls |-> "new"]
    /\ given = [c \in Calls |-> None]
    /\ answer = [c \in Calls |-> NoAnswer]

Open(c) == answer[c] = NoAnswer

HandIn(c) ==
    /\ Open(c) /\ task[c] = "new"
    /\ task' = [task EXCEPT ![c] = "waiting"]
    /\ UNCHANGED <<given, answer>>

\* Other code takes a task away before a call is given it.
Drop(t) ==
    /\ task[t] = "waiting"
    /\ task' = [task EXCEPT ![t] = "dropped"]
    /\ UNCHANGED <<given, answer>>

Give(c, t) ==
    /\ Open(c) /\ task[c] # "new" /\ given[c] = None
    /\ task[t] = "waiting"
    /\ task' = [task EXCEPT ![t] = "given"]
    /\ given' = [given EXCEPT ![c] = t]
    /\ UNCHANGED answer

Execute(c) ==
    /\ Open(c) /\ given[c] # None /\ task[given[c]] = "given"
    /\ \E end \in {"succeeded", "failed"} : task' = [task EXCEPT ![given[c]] = end]
    /\ UNCHANGED <<given, answer>>

Return(c) ==
    /\ Open(c) /\ task[c] # "new"
    /\ \/ answer' = [answer EXCEPT ![c] = [status |-> "FAILED", from |-> None]]
       \/ /\ given[c] # None /\ task[given[c]] = "succeeded"
          /\ answer' = [answer EXCEPT ![c] = [status |-> "COMPLETED", from |-> given[c]]]
    /\ UNCHANGED <<task, given>>

Raise(c) ==
    /\ Open(c)
    /\ answer' = [answer EXCEPT ![c] = [status |-> "RAISED", from |-> None]]
    /\ UNCHANGED <<task, given>>

ExchangeNext ==
    \E c \in Calls :
        \/ HandIn(c) \/ Drop(c) \/ Execute(c) \/ Return(c) \/ Raise(c)
        \/ \E t \in Calls : Give(c, t)

ExchangeSpec == ExchangeInit /\ [][ExchangeNext]_<<task, given, answer>>
=============================================================================
