---------------------------- MODULE WorkflowEngine ----------------------------
(***************************************************************************)
(* The workflow engine (core/workflow): concurrent calls of                *)
(* WorkflowManager.submit that share one task queue and one status table,  *)
(* and the cancel, pause and resume calls that write the same table.       *)
(*                                                                         *)
(* One action is what a call does from one await to the next.  A call      *)
(* schedules exactly one task, so a task is named after the call that      *)
(* enqueued it.  The execution service is the environment here: its        *)
(* outcome is any of the three it can return, or an exception.             *)
(***************************************************************************)
EXTENDS Naturals, Sequences, FiniteSets

CONSTANTS
    Calls,               \* calls of submit
    WorkflowIds,
    Controls,            \* which of cancel, pause and resume are called
    QueueShared,         \* whether other code removes tasks from the queue
    MiddlewareMayRaise,  \* whether an event-bus middleware may raise
    None

Tasks == Calls

WorkflowStatus == {"PENDING", "RUNNING", "PAUSED", "COMPLETED", "FAILED", "CANCELLED"}
Outcomes == {"SUCCEEDED", "DENIED", "FAILED", "RAISED"}

ASSUME WorkflowAssumption ==
    /\ None \notin Calls \cup WorkflowIds \cup WorkflowStatus \cup Outcomes
    /\ Controls \subseteq {"cancel", "pause", "resume"}
    /\ QueueShared \in BOOLEAN
    /\ MiddlewareMayRaise \in BOOLEAN

VARIABLES
    started,    \* _started
    statuses,   \* _statuses
    queue,      \* _queue of the task queue
    lookup,     \* keys of the queue's _lookup
    pc,         \* the await each call is suspended in
    workflow,   \* request.workflow_id
    running,    \* task_to_run
    reply,      \* the WorkflowResult: status and the task whose result it carries
    outcome,    \* history: what the execution service answered for a task
    removed     \* history: tasks taken out of the queue by other code

vars == <<started, statuses, queue, lookup, pc, workflow, running, reply, outcome, removed>>

Waits == {"idle", "queued", "announced", "task_started", "dispatching", "task_completed",
          "completing", "failing", "returned", "raised"}
NoReply == [status |-> None, from |-> None]

TypeOK ==
    /\ started \in BOOLEAN
    /\ statuses \in [WorkflowIds -> WorkflowStatus \cup {None}]
    /\ queue \in Seq(Tasks)
    /\ lookup \subseteq Tasks
    /\ pc \in [Calls -> Waits]
    /\ workflow \in [Calls -> WorkflowIds \cup {None}]
    /\ running \in [Calls -> Tasks \cup {None}]
    /\ reply \in [Calls -> [status : {"COMPLETED", "FAILED", None}, from : Tasks \cup {None}]]
    /\ outcome \in [Tasks -> Outcomes \cup {None}]
    /\ removed \subseteq Tasks

Init ==
    /\ started = FALSE
    /\ statuses = [w \in WorkflowIds |-> None]
    /\ queue = << >>
    /\ lookup = {}
    /\ pc = [c \in Calls |-> "idle"]
    /\ workflow = [c \in Calls |-> None]
    /\ running = [c \in Calls |-> None]
    /\ reply = [c \in Calls |-> NoReply]
    /\ outcome = [t \in Tasks |-> None]
    /\ removed = {}

-----------------------------------------------------------------------------
Goto(c, wait) == pc' = [pc EXCEPT ![c] = wait]
SetStatus(w, s) == statuses' = [statuses EXCEPT ![w] = s]

\* submit's exception handler: FAILED is recorded, then WorkflowFailed is awaited.
Fail(c) == Goto(c, "failing") /\ SetStatus(workflow[c], "FAILED")

-----------------------------------------------------------------------------
(***************************************************************************)
(* InMemoryWorkflowQueue                                                   *)
(***************************************************************************)
\* Mutant: the lookup table is keyed by workflow.
Enqueue_KeyedByWorkflow(t) ==
    /\ queue' = Append(queue, t)
    /\ lookup' = lookup \cup {workflow'[t]}

Enqueue(t) ==
    /\ queue' = Append(queue, t)
    /\ lookup' = lookup \cup {t}

\* Mutant: the oldest task is read but left in the queue.
Dequeue_Peeks == UNCHANGED <<queue, lookup>>

\* Mutant: the lookup entry outlives the task.
Dequeue_KeepsLookup == queue' = Tail(queue) /\ UNCHANGED lookup

Dequeue ==
    /\ queue' = Tail(queue)
    /\ lookup' = lookup \ {Head(queue)}

\* The list comprehension of remove(): what it has kept after i elements.
Kept(q, t) ==
    LET K[i \in 0..Len(q)] ==
            IF i = 0 THEN << >> ELSE IF q[i] = t THEN K[i - 1] ELSE Append(K[i - 1], q[i])
    IN K

\* remove(), called by other code that holds the queue.
Remove(t) ==
    /\ QueueShared
    /\ t \in lookup
    /\ queue' = Kept(queue, t)[Len(queue)]
    /\ lookup' = lookup \ {t}
    /\ removed' = removed \cup {t}
    /\ UNCHANGED <<started, statuses, pc, workflow, running, reply, outcome>>

-----------------------------------------------------------------------------
(***************************************************************************)
(* WorkflowManagerImpl.submit                                              *)
(***************************************************************************)
\* PENDING, schedule, enqueue, and the await of TaskQueued.
Submit(c) ==
    /\ pc[c] = "idle"
    /\ \E w \in WorkflowIds :
           /\ workflow' = [workflow EXCEPT ![c] = w]
           /\ Enqueue(c)
           /\ SetStatus(w, "PENDING")
    /\ Goto(c, "queued")
    /\ UNCHANGED <<started, running, reply, outcome, removed>>

\* A request of another type is refused with WorkflowValidationError.
SubmitInvalid(c) ==
    /\ pc[c] = "idle"
    /\ Goto(c, "raised")
    /\ UNCHANGED <<started, statuses, queue, lookup, workflow, running, reply, outcome, removed>>

AnnounceStarted(c) ==
    /\ pc[c] = "queued"
    /\ Goto(c, "announced")
    /\ UNCHANGED <<started, statuses, queue, lookup, workflow, running, reply, outcome, removed>>

\* RUNNING, the dequeue and the await of TaskStarted: the task is the oldest one,
\* whoever enqueued it.
TakeTask(c) ==
    /\ pc[c] = "announced"
    /\ queue # << >>
    /\ running' = [running EXCEPT ![c] = Head(queue)]
    /\ Dequeue
    /\ SetStatus(workflow[c], "RUNNING")
    /\ Goto(c, "task_started")
    /\ UNCHANGED <<started, workflow, reply, outcome, removed>>

\* Mutant: dequeue waits for the next task, as asyncio.Queue.get does.
QueueEmpty_Waits(c) ==
    /\ pc[c] = "announced"
    /\ queue = << >>
    /\ UNCHANGED vars

\* "Queue empty immediately after enqueue."
QueueEmpty(c) ==
    /\ pc[c] = "announced"
    /\ queue = << >>
    /\ Fail(c)
    /\ UNCHANGED <<started, queue, lookup, workflow, running, reply, outcome, removed>>

DispatchTask(c) ==
    /\ pc[c] = "task_started"
    /\ Goto(c, "dispatching")
    /\ UNCHANGED <<started, statuses, queue, lookup, workflow, running, reply, outcome, removed>>

\* Mutant: a denied outcome is taken for a result.
DispatchReturns_IgnoresDenial(c) ==
    /\ pc[c] = "dispatching"
    /\ \E o \in Outcomes :
           /\ outcome' = [outcome EXCEPT ![running[c]] = o]
           /\ IF o \in {"SUCCEEDED", "DENIED"} THEN Goto(c, "task_completed") /\ UNCHANGED statuses ELSE Fail(c)
    /\ UNCHANGED <<started, queue, lookup, workflow, running, reply, removed>>

\* DefaultWorkflowExecutor.dispatch: anything but SUCCEEDED is a TaskExecutionError.
DispatchReturns(c) ==
    /\ pc[c] = "dispatching"
    /\ \E o \in Outcomes :
           /\ outcome' = [outcome EXCEPT ![running[c]] = o]
           /\ IF o = "SUCCEEDED" THEN Goto(c, "task_completed") /\ UNCHANGED statuses ELSE Fail(c)
    /\ UNCHANGED <<started, queue, lookup, workflow, running, reply, removed>>

AnnounceCompleted(c) ==
    /\ pc[c] = "task_completed"
    /\ Goto(c, "completing")
    /\ UNCHANGED <<started, statuses, queue, lookup, workflow, running, reply, outcome, removed>>

\* Mutant: the reply is filled in from the task that was submitted.
Complete_AsSubmitted(c) ==
    /\ pc[c] = "completing"
    /\ SetStatus(workflow[c], "COMPLETED")
    /\ reply' = [reply EXCEPT ![c] = [status |-> "COMPLETED", from |-> c]]
    /\ Goto(c, "returned")
    /\ UNCHANGED <<started, queue, lookup, workflow, running, outcome, removed>>

Complete(c) ==
    /\ pc[c] = "completing"
    /\ SetStatus(workflow[c], "COMPLETED")
    /\ reply' = [reply EXCEPT ![c] = [status |-> "COMPLETED", from |-> running[c]]]
    /\ Goto(c, "returned")
    /\ UNCHANGED <<started, queue, lookup, workflow, running, outcome, removed>>

\* An await of a publish inside submit's try block ends in an exception of a middleware.
PublishRaises(c) ==
    /\ MiddlewareMayRaise
    /\ pc[c] \in {"queued", "announced", "task_started", "task_completed", "completing"}
    /\ Fail(c)
    /\ UNCHANGED <<started, queue, lookup, workflow, running, reply, outcome, removed>>

FailReturns(c) ==
    /\ pc[c] = "failing"
    /\ reply' = [reply EXCEPT ![c] = [status |-> "FAILED", from |-> None]]
    /\ Goto(c, "returned")
    /\ UNCHANGED <<started, statuses, queue, lookup, workflow, running, outcome, removed>>

\* The publish of WorkflowFailed is outside the try block: its exception leaves submit.
FailRaises(c) ==
    /\ MiddlewareMayRaise
    /\ pc[c] = "failing"
    /\ Goto(c, "raised")
    /\ UNCHANGED <<started, statuses, queue, lookup, workflow, running, reply, outcome, removed>>

-----------------------------------------------------------------------------
(***************************************************************************)
(* The control calls: each writes the status and publishes one event.      *)
(***************************************************************************)
Control(op, w, s) ==
    /\ op \in Controls
    /\ statuses[w] # None
    /\ SetStatus(w, s)
    /\ UNCHANGED <<started, queue, lookup, pc, workflow, running, reply, outcome, removed>>

Cancel(w) == Control("cancel", w, "CANCELLED")
Pause(w) == Control("pause", w, "PAUSED")
Resume(w) == statuses[w] = "PAUSED" /\ Control("resume", w, "RUNNING")

\* start() and shutdown() change a flag that submit does not look at.
StartOrShutdown ==
    /\ started' = ~ started
    /\ UNCHANGED <<statuses, queue, lookup, pc, workflow, running, reply, outcome, removed>>

-----------------------------------------------------------------------------
\* What a call does by itself, once the bus has delivered.
OwnStep(c) ==
    \/ AnnounceStarted(c) \/ TakeTask(c) \/ QueueEmpty(c) \/ DispatchTask(c)
    \/ AnnounceCompleted(c) \/ Complete(c) \/ FailReturns(c)

SubmitStep(c) == OwnStep(c) \/ DispatchReturns(c) \/ PublishRaises(c) \/ FailRaises(c)

Next ==
    \/ \E c \in Calls : Submit(c) \/ SubmitInvalid(c) \/ SubmitStep(c)
    \/ \E t \in Tasks : Remove(t)
    \/ \E w \in WorkflowIds : Cancel(w) \/ Pause(w) \/ Resume(w)
    \/ StartOrShutdown

Spec == Init /\ [][Next]_vars

\* The event loop runs every ready call.  The execution service need not answer: it
\* asks a user for confirmation without a timeout (execution/confirmation.py).
FairSpec == Spec /\ \A c \in Calls : WF_vars(OwnStep(c))
-----------------------------------------------------------------------------
(***************************************************************************)
(* What must hold.                                                         *)
(***************************************************************************)
Enqueued(t) == workflow[t] # None
Queued(t) == \E i \in DOMAIN queue : queue[i] = t
Takers(t) == {c \in Calls : running[c] = t}

\* The queue's list and its lookup table always hold the same tasks, each once
\* (queue.py:17-38).
QueueIndexed ==
    /\ lookup = {t \in Tasks : Queued(t)}
    /\ \A i, j \in DOMAIN queue : queue[i] = queue[j] => i = j

\* A submitted task is in exactly one place: still queued, removed by other code,
\* or taken by exactly one call. No interleaving loses a task or runs it twice.
TaskConservation ==
    \A t \in Tasks :
        /\ Enqueued(t) => (Queued(t) \/ t \in removed \/ Takers(t) # {})
        /\ \A c, d \in Takers(t) : c = d
        /\ Takers(t) # {} => (Enqueued(t) /\ ~ Queued(t) /\ t \notin removed)

\* A COMPLETED reply carries the result of a task the execution service answered
\* SUCCEEDED; a denied, failed or raising execution is never a success.
HonestReply ==
    \A c \in Calls :
        reply[c].status = "COMPLETED" =>
            reply[c].from # None /\ outcome[reply[c].from] = "SUCCEEDED"

Ended(c) == pc[c] \in {"returned", "raised"}

\* Every call of submit returns or raises, or waits for ever for the one task it has
\* given to the execution service: not for a queue that other code has emptied, and not
\* for another call whose user never answers (manager.py:80-121).
CallsSettle == \A c \in Calls : pc[c] # "idle" ~> (Ended(c) \/ [](pc[c] = "dispatching"))

\* How far a task got, and how a call ended, as its callers see it.
taskBar ==
    [t \in Calls |->
        IF workflow[t] = None THEN "new"
        ELSE IF t \in lookup THEN "waiting"
        ELSE IF t \in removed THEN "dropped"
        ELSE IF outcome[t] = None THEN "given"
        ELSE IF outcome[t] = "SUCCEEDED" THEN "succeeded" ELSE "failed"]
answerBar ==
    [c \in Calls |-> IF pc[c] = "raised" THEN [status |-> "RAISED", from |-> None] ELSE reply[c]]

Exchange == INSTANCE TaskExchange WITH task <- taskBar, given <- running, answer <- answerBar

\* The engine implements the exchange of tasks: whatever the interleaving, a task is
\* given out once, executed once by the call that has it, and only then does that call
\* answer with its result (manager.py:70-121, queue.py:17-38).
ImplementsExchange == Exchange!ExchangeSpec

(***************************************************************************)
(* What the repository says and the code does not do.                      *)
(***************************************************************************)

\* WorkflowResult is "The final result of a workflow execution" (models.py): the
\* result data a call returns for its workflow is that of the task it submitted.
ResultIsOwn == \A c \in Calls : reply[c].from \in {None, c}

\* cancel is "Cancel a running or pending workflow." (contracts.py): a workflow that was
\* cancelled while it was submitted does not go on to run or complete; only a new
\* submit may begin again with PENDING, and a failure may still be recorded.
CancelledStays ==
    [][\A w \in WorkflowIds : statuses[w] = "CANCELLED" => statuses'[w] \notin {"RUNNING", "COMPLETED"}]_vars
=============================================================================
