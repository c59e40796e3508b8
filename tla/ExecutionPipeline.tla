-------------------------- MODULE ExecutionPipeline --------------------------
(***************************************************************************)
(* How a command becomes (or does not become) the execution of a           *)
(* capability: ExecutionService, ProtectedDispatcher, the permission       *)
(* kernel and the mutation lifecycle, for several commands in flight on    *)
(* one asyncio event loop.                                                 *)
(*                                                                         *)
(* One action is what a command's coroutine does from one await to the     *)
(* next; pc[c] names the await command c is suspended in.  Between two     *)
(* actions of a command any other command, the capability registry and the *)
(* policy store may move.  An await of EventBus.publish delivers the event *)
(* and, when a middleware may raise, may also fail (subscriber failures    *)
(* are isolated by the bus and never reach the publisher).                 *)
(***************************************************************************)
EXTENDS CapabilityRegistry, PermissionPolicy

CONSTANTS
    Commands,            \* calls of ExecutionService.execute
    TrustValues,         \* values of metadata["trust_level"]; others than TrustLevel are invalid
    Injections,          \* the optional collaborators a container may provide
    SupportedLevels,     \* confirmation levels some provider supports
    Sinks,               \* registered audit sinks
    ReliableSinks,       \* the sinks whose record never raises (InMemoryAuditSink)
    MiddlewareMayRaise   \* whether an event-bus middleware may raise

ASSUME PipelineAssumption ==
    /\ None \notin {"SUCCEEDED", "DENIED", "FAILED", "READ", "MUTATION"}
    /\ Injections \subseteq SUBSET {"MutationManager", "ConfirmationManager"}
    /\ SupportedLevels \subseteq ConfirmationLevel \ {"NONE"}
    /\ ReliableSinks \subseteq Sinks
    /\ MiddlewareMayRaise \in BOOLEAN

VARIABLES
    injected,   \* the optional collaborators the service was built with
    pc,         \* the await each command is suspended in
    cap,        \* command.capability_id
    trust,      \* the trust level read from command.metadata
    route,      \* the classifier's answer
    held,       \* the capability object process_mutation looked up
    confirmed,  \* the confirmation provider agreed to the mutation
    decision,   \* the PermissionResult's state
    approved,   \* the user gave the approval security asked for
    target,     \* the capability object the dispatcher looked up
    ran,        \* history: the object whose execute was called
    result,     \* what execute returned
    undone,     \* history: the object whose rollback was called
    outcome,    \* status of the ExecutionOutcome
    published,  \* history: the events published for the command
    trail       \* the audit records each sink holds for the command

inputs == <<injected, cap, trust>>
lifecycle == <<route, held, confirmed>>
permission == <<decision, approved>>
runtime == <<target, ran, result>>
commandVars == <<pc, inputs, lifecycle, permission, runtime, undone, outcome, published, trail>>
vars == <<registry, policies, commandVars>>

Waits ==
    {"idle", "requested", "mutation_requested", "confirming", "confirmed", "rejected",
     "started", "permission_requested", "policy_evaluated", "permission_deny",
     "permission_decided", "approving", "authorized", "dispatched", "dispatch_error",
     "executing", "denied", "failed", "succeeded", "rolling_back", "rolled_back",
     "rollback_error", "rollback_failed", "auditing", "audited", "completed",
     "returned", "raised"}

Events ==
    {"ExecutionRequested", "ExecutionAuthorized", "ExecutionDispatched",
     "ExecutionSucceeded", "ExecutionDenied", "ExecutionFailed",
     "PermissionRequested", "PolicyEvaluationCompleted", "PermissionGranted",
     "PermissionDenied", "MutationRequested", "MutationConfirmed",
     "MutationRejected", "MutationStarted", "MutationCompleted",
     "MutationRolledBack", "RollbackFailed", "AuditRecorded"}

ExecutionOutcomeStatus == {"SUCCEEDED", "DENIED", "FAILED"}
MaybeCapability == Capabilities \cup {None}

TypeOK ==
    /\ RegistryTypeOK
    /\ PolicyTypeOK
    /\ injected \in Injections
    /\ pc \in [Commands -> Waits]
    /\ cap \in [Commands -> CapabilityIds \cup {None}]
    /\ trust \in [Commands -> TrustLevel]
    /\ route \in [Commands -> {"READ", "MUTATION", None}]
    /\ held \in [Commands -> MaybeCapability]
    /\ confirmed \in [Commands -> BOOLEAN]
    /\ decision \in [Commands -> PermissionState \cup {"PENDING"}]
    /\ approved \in [Commands -> BOOLEAN]
    /\ target \in [Commands -> MaybeCapability]
    /\ ran \in [Commands -> MaybeCapability]
    /\ result \in [Commands -> {"success", "unsuccessful", None}]
    /\ undone \in [Commands -> MaybeCapability]
    /\ outcome \in [Commands -> ExecutionOutcomeStatus \cup {None}]
    /\ published \in [Commands -> SUBSET Events]
    /\ trail \in [Sinks -> [Commands -> Seq({"COMPLETED", "REJECTED", "FAILED"})]]

Init ==
    /\ RegistryInit
    /\ PolicyInit
    /\ injected \in Injections
    /\ pc = [c \in Commands |-> "idle"]
    /\ cap = [c \in Commands |-> None]
    /\ trust = [c \in Commands |-> "UNTRUSTED"]
    /\ route = [c \in Commands |-> None]
    /\ held = [c \in Commands |-> None]
    /\ confirmed = [c \in Commands |-> FALSE]
    /\ decision = [c \in Commands |-> "PENDING"]
    /\ approved = [c \in Commands |-> FALSE]
    /\ target = [c \in Commands |-> None]
    /\ ran = [c \in Commands |-> None]
    /\ result = [c \in Commands |-> None]
    /\ undone = [c \in Commands |-> None]
    /\ outcome = [c \in Commands |-> None]
    /\ published = [c \in Commands |-> {}]
    /\ trail = [s \in Sinks |-> [c \in Commands |-> << >>]]

-----------------------------------------------------------------------------
(***************************************************************************)
(* Steps shared by the handlers.                                           *)
(***************************************************************************)
Goto(c, wait) == pc' = [pc EXCEPT ![c] = wait]

\* await event_bus.publish(e): the coroutine goes on to "next", or to "handler"
\* when a middleware raises, before or after passing the event on.
Publish(c, e, next, handler) ==
    \/ /\ Goto(c, next)
       /\ published' = [published EXCEPT ![c] = @ \cup {e}]
    \/ /\ MiddlewareMayRaise
       /\ Goto(c, handler)
       /\ \E delivered \in SUBSET {e} :
              published' = [published EXCEPT ![c] = @ \cup delivered]

Meta(c) == Mutation[held[c]]

\* classify(): an unknown capability counts as READ.
Classify(k) ==
    IF Lookup(k) # None /\ Mutation[Lookup(k)].is_mutation THEN "MUTATION" ELSE "READ"

\* Mutant: an invalid trust level is passed on.
AsTrustLevel_Unchecked(v) == v

\* dispatch(), the reading of metadata["trust_level"].
AsTrustLevel(v) == IF v \in TrustLevel THEN v ELSE "UNTRUSTED"

-----------------------------------------------------------------------------
(***************************************************************************)
(* DefaultExecutionService.execute                                         *)
(***************************************************************************)
Submit(c) ==
    /\ pc[c] = "idle"
    /\ \E k \in CapabilityIds, v \in TrustValues :
           /\ cap' = [cap EXCEPT ![c] = k]
           /\ trust' = [trust EXCEPT ![c] = AsTrustLevel(v)]
    /\ Publish(c, "ExecutionRequested", "requested", "raised")
    /\ UNCHANGED <<registry, policies, injected, lifecycle, permission, runtime, undone, outcome, trail>>

\* A command without ids is refused with ExecutionValidationError.
SubmitInvalid(c) ==
    /\ pc[c] = "idle"
    /\ Goto(c, "raised")
    /\ UNCHANGED <<registry, policies, inputs, lifecycle, permission, runtime, undone, outcome,
                   published, trail>>

\* A mutation: process_mutation runs up to its first await within the same step.
RouteMutation(c) ==
    /\ pc[c] = "requested"
    /\ Classify(cap[c]) = "MUTATION"
    /\ "MutationManager" \in injected
    /\ route' = [route EXCEPT ![c] = "MUTATION"]
    /\ held' = [held EXCEPT ![c] = Lookup(cap[c])]
    /\ Publish(c, "MutationRequested", "mutation_requested", "raised")
    /\ UNCHANGED <<registry, policies, inputs, confirmed, permission, runtime, undone, outcome, trail>>

\* Without a MutationManager a mutation ends in ExecutionRuntimeError.
RouteMutationRefused(c) ==
    /\ pc[c] = "requested"
    /\ Classify(cap[c]) = "MUTATION"
    /\ "MutationManager" \notin injected
    /\ Goto(c, "raised")
    /\ UNCHANGED <<registry, policies, inputs, lifecycle, permission, runtime, undone, outcome,
                   published, trail>>

\* check_permission up to its first await; a raising publish ends in _deny.
RequestPermission(c) ==
    Publish(c, "PermissionRequested", "permission_requested", "permission_deny")

RouteRead(c) ==
    /\ pc[c] = "requested"
    /\ Classify(cap[c]) = "READ"
    /\ route' = [route EXCEPT ![c] = "READ"]
    /\ RequestPermission(c)
    /\ UNCHANGED <<registry, policies, inputs, held, confirmed, permission, runtime, undone,
                   outcome, trail>>

-----------------------------------------------------------------------------
(***************************************************************************)
(* DefaultMutationManager.process_mutation, up to the delegate             *)
(***************************************************************************)
RejectMutation(c) == Publish(c, "MutationRejected", "rejected", "raised")

\* ConfirmationManager.request_confirmation waits for the first provider that
\* supports the level.
AskConfirmation(c) ==
    /\ pc[c] = "mutation_requested"
    /\ Meta(c).confirmation_level \in SupportedLevels
    /\ Goto(c, "confirming")
    /\ UNCHANGED <<registry, policies, inputs, lifecycle, permission, runtime, undone, outcome,
                   published, trail>>

\* No provider supports the level: the mutation is rejected.
ConfirmationUnsupported(c) ==
    /\ pc[c] = "mutation_requested"
    /\ Meta(c).confirmation_level \notin SupportedLevels \cup {"NONE"}
    /\ RejectMutation(c)
    /\ UNCHANGED <<registry, policies, inputs, lifecycle, permission, runtime, undone, outcome, trail>>

\* The provider's answer; a provider that raises counts as a refusal.
AnswerConfirmation(c) ==
    /\ pc[c] = "confirming"
    /\ \E ok \in BOOLEAN :
           /\ confirmed' = [confirmed EXCEPT ![c] = ok]
           /\ IF ok THEN Publish(c, "MutationConfirmed", "confirmed", "raised")
                    ELSE RejectMutation(c)
    /\ UNCHANGED <<registry, policies, inputs, route, held, permission, runtime, undone, outcome, trail>>

\* Mutant: the mutation starts without waiting for the confirmation.
StartMutation_Unconfirmed(c) ==
    /\ pc[c] \in {"confirmed", "mutation_requested"}
    /\ Publish(c, "MutationStarted", "started", "raised")
    /\ UNCHANGED <<registry, policies, inputs, lifecycle, permission, runtime, undone, outcome, trail>>

StartMutation(c) ==
    /\ \/ pc[c] = "confirmed"
       \/ pc[c] = "mutation_requested" /\ Meta(c).confirmation_level = "NONE"
    /\ Publish(c, "MutationStarted", "started", "raised")
    /\ UNCHANGED <<registry, policies, inputs, lifecycle, permission, runtime, undone, outcome, trail>>

\* The delegate: ProtectedDispatcher.dispatch up to its first await.
DelegateExecution(c) ==
    /\ pc[c] = "started"
    /\ RequestPermission(c)
    /\ UNCHANGED <<registry, policies, inputs, lifecycle, permission, runtime, undone, outcome, trail>>

\* Mutant: a rejected mutation is not audited.
FinishRejected_Unaudited(c) ==
    /\ pc[c] = "rejected"
    /\ outcome' = [outcome EXCEPT ![c] = "DENIED"]
    /\ Goto(c, "returned")
    /\ UNCHANGED <<registry, policies, inputs, lifecycle, permission, runtime, undone, published, trail>>

FinishRejected(c) ==
    /\ pc[c] = "rejected"
    /\ outcome' = [outcome EXCEPT ![c] = "DENIED"]
    /\ Goto(c, IF Meta(c).audit_required THEN "auditing" ELSE "returned")
    /\ UNCHANGED <<registry, policies, inputs, lifecycle, permission, runtime, undone, published, trail>>

-----------------------------------------------------------------------------
(***************************************************************************)
(* SecurityManager.check_permission                                        *)
(***************************************************************************)
\* Mutant: the permission kernel is locked while a user is being asked.
EvaluatePolicy_BehindUsers(c) ==
    /\ pc[c] = "permission_requested"
    /\ \A d \in Commands : pc[d] \notin {"confirming", "approving"}
    /\ decision' = [decision EXCEPT ![c] = Evaluate(cap[c], trust[c])]
    /\ Publish(c, "PolicyEvaluationCompleted", "policy_evaluated", "permission_deny")
    /\ UNCHANGED <<registry, policies, inputs, lifecycle, approved, runtime, undone, outcome, trail>>

EvaluatePolicy(c) ==
    /\ pc[c] = "permission_requested"
    /\ decision' = [decision EXCEPT ![c] = Evaluate(cap[c], trust[c])]
    /\ Publish(c, "PolicyEvaluationCompleted", "policy_evaluated", "permission_deny")
    /\ UNCHANGED <<registry, policies, inputs, lifecycle, approved, runtime, undone, outcome, trail>>

\* REQUIRES_APPROVAL is not granted, and is announced as PermissionDenied.
AuthorizePermission(c) ==
    /\ pc[c] = "policy_evaluated"
    /\ Publish(c, IF decision[c] = "GRANTED" THEN "PermissionGranted" ELSE "PermissionDenied",
               "permission_decided", "permission_deny")
    /\ UNCHANGED <<registry, policies, inputs, lifecycle, permission, runtime, undone, outcome, trail>>

\* _deny(): any exception in the permission pipeline is a denial.
DenyPermission(c) ==
    /\ pc[c] = "permission_deny"
    /\ decision' = [decision EXCEPT ![c] = "DENIED"]
    /\ Publish(c, "PermissionDenied", "permission_decided", "raised")
    /\ UNCHANGED <<registry, policies, inputs, lifecycle, approved, runtime, undone, outcome, trail>>

-----------------------------------------------------------------------------
(***************************************************************************)
(* DefaultProtectedDispatcher.dispatch                                     *)
(***************************************************************************)
PublishAuthorized(c) == Publish(c, "ExecutionAuthorized", "authorized", "raised")
PublishDenial(c) == Publish(c, "ExecutionDenied", "denied", "raised")
PublishFailure(c) == Publish(c, "ExecutionFailed", "failed", "raised")

\* Security approval is asked of the same ConfirmationManager, at level USER.
CanAskApproval == "ConfirmationManager" \in injected /\ "USER" \in SupportedLevels

\* Mutant: only the REQUIRES_APPROVAL case is looked at.
EnforceDecision_IgnoresDenial(c) ==
    /\ pc[c] = "permission_decided"
    /\ \/ decision[c] \in {"GRANTED", "DENIED"} /\ PublishAuthorized(c)
       \/ decision[c] = "REQUIRES_APPROVAL" /\ PublishDenial(c)
    /\ UNCHANGED <<registry, policies, inputs, lifecycle, permission, runtime, undone, outcome, trail>>

EnforceDecision(c) ==
    /\ pc[c] = "permission_decided"
    /\ \/ decision[c] = "GRANTED" /\ PublishAuthorized(c)
       \/ decision[c] = "DENIED" /\ PublishDenial(c)
       \/ decision[c] = "REQUIRES_APPROVAL" /\ ~ CanAskApproval /\ PublishDenial(c)
       \/ decision[c] = "REQUIRES_APPROVAL" /\ CanAskApproval /\ Goto(c, "approving")
              /\ UNCHANGED published
    /\ UNCHANGED <<registry, policies, inputs, lifecycle, permission, runtime, undone, outcome, trail>>

AnswerApproval(c) ==
    /\ pc[c] = "approving"
    /\ \E ok \in BOOLEAN :
           /\ approved' = [approved EXCEPT ![c] = ok]
           /\ IF ok THEN PublishAuthorized(c) ELSE PublishDenial(c)
    /\ UNCHANGED <<registry, policies, inputs, lifecycle, decision, runtime, undone, outcome, trail>>

\* The registry is looked up again, after the awaits of the permission check.
Dispatch(c) ==
    /\ pc[c] = "authorized"
    /\ Lookup(cap[c]) # None
    /\ target' = [target EXCEPT ![c] = Lookup(cap[c])]
    /\ Publish(c, "ExecutionDispatched", "dispatched", "dispatch_error")
    /\ UNCHANGED <<registry, policies, inputs, lifecycle, permission, ran, result, undone, outcome, trail>>

\* Mutant: an unknown capability fails without an event.
DispatchUnknown_Silent(c) ==
    /\ pc[c] = "authorized"
    /\ Lookup(cap[c]) = None
    /\ Goto(c, "failed")
    /\ UNCHANGED <<registry, policies, inputs, lifecycle, permission, runtime, undone, outcome,
                   published, trail>>

DispatchUnknown(c) ==
    /\ pc[c] = "authorized"
    /\ Lookup(cap[c]) = None
    /\ PublishFailure(c)
    /\ UNCHANGED <<registry, policies, inputs, lifecycle, permission, runtime, undone, outcome, trail>>

Execute(c) ==
    /\ pc[c] = "dispatched"
    /\ ran' = [ran EXCEPT ![c] = target[c]]
    /\ Goto(c, "executing")
    /\ UNCHANGED <<registry, policies, inputs, lifecycle, permission, target, result, undone, outcome,
                   published, trail>>

\* execute() returns; an Android capability reports its failures in the result.
ExecuteReturns(c) ==
    /\ pc[c] = "executing"
    /\ \E r \in {"success"} \cup (IF ran[c] \in ReportsFailure THEN {"unsuccessful"} ELSE {}) :
           result' = [result EXCEPT ![c] = r]
    /\ Publish(c, "ExecutionSucceeded", "succeeded", "raised")
    /\ UNCHANGED <<registry, policies, inputs, lifecycle, permission, target, ran, undone, outcome, trail>>

\* The exception handler around dispatch and execute.
ExecuteRaises(c) ==
    /\ \/ pc[c] = "executing" /\ ran[c] \notin ReportsFailure
       \/ pc[c] = "dispatch_error"
    /\ PublishFailure(c)
    /\ UNCHANGED <<registry, policies, inputs, lifecycle, permission, runtime, undone, outcome, trail>>

-----------------------------------------------------------------------------
(***************************************************************************)
(* The outcome: returned to the caller, or to process_mutation, which      *)
(* rolls back, audits and completes.                                       *)
(***************************************************************************)
\* Mutant: a runtime failure is reported as a denial.
StatusOf_FailedAsDenied(wait) == IF wait = "succeeded" THEN "SUCCEEDED" ELSE "DENIED"

StatusOf(wait) ==
    CASE wait = "denied" -> "DENIED"
      [] wait = "failed" -> "FAILED"
      [] wait = "succeeded" -> "SUCCEEDED"

Complete(c, status) ==
    IF status = "SUCCEEDED" THEN Publish(c, "MutationCompleted", "completed", "raised")
                            ELSE Goto(c, "returned") /\ UNCHANGED published

\* Mutant: audit_required is not looked at.
AuditThenComplete_Always(c, status) == Goto(c, "auditing") /\ UNCHANGED published

AuditThenComplete(c, status) ==
    IF Meta(c).audit_required THEN Goto(c, "auditing") /\ UNCHANGED published
                              ELSE Complete(c, status)

\* Mutant: any outcome is rolled back.
RollsBack_AnyOutcome(c, status) == Meta(c).supports_rollback /\ held[c] \in CanRollBack

RollsBack(c, status) ==
    status = "FAILED" /\ Meta(c).supports_rollback /\ held[c] \in CanRollBack

DispatchReturns(c) ==
    /\ pc[c] \in {"denied", "failed", "succeeded"}
    /\ LET status == StatusOf(pc[c])
       IN  /\ outcome' = [outcome EXCEPT ![c] = status]
           /\ \/ route[c] = "READ" /\ Goto(c, "returned") /\ UNCHANGED <<published, undone>>
              \/ route[c] = "MUTATION" /\ RollsBack(c, status) /\ Goto(c, "rolling_back")
                     /\ undone' = [undone EXCEPT ![c] = held[c]] /\ UNCHANGED published
              \/ route[c] = "MUTATION" /\ ~ RollsBack(c, status) /\ AuditThenComplete(c, status)
                     /\ UNCHANGED undone
    /\ UNCHANGED <<registry, policies, inputs, lifecycle, permission, runtime, trail>>

\* A middleware that raises on MutationRolledBack is handled as a failed rollback.
RollbackReturns(c) ==
    /\ pc[c] = "rolling_back"
    /\ Publish(c, "MutationRolledBack", "rolled_back", "rollback_error")
    /\ UNCHANGED <<registry, policies, inputs, lifecycle, permission, runtime, undone, outcome, trail>>

\* Mutant: a failed rollback is only logged.
RollbackRaises_Silent(c) ==
    /\ pc[c] \in {"rolling_back", "rollback_error"}
    /\ Goto(c, "rollback_failed")
    /\ UNCHANGED <<registry, policies, inputs, lifecycle, permission, runtime, undone, outcome,
                   published, trail>>

RollbackRaises(c) ==
    /\ pc[c] \in {"rolling_back", "rollback_error"}
    /\ Publish(c, "RollbackFailed", "rollback_failed", "raised")
    /\ UNCHANGED <<registry, policies, inputs, lifecycle, permission, runtime, undone, outcome, trail>>

AfterRollback(c) ==
    /\ pc[c] \in {"rolled_back", "rollback_failed"}
    /\ AuditThenComplete(c, outcome[c])
    /\ UNCHANGED <<registry, policies, inputs, lifecycle, permission, runtime, undone, outcome, trail>>

\* _map_outcome_to_state()
MutationStateOf(status) ==
    CASE status = "SUCCEEDED" -> "COMPLETED"
      [] status = "DENIED" -> "REJECTED"
      [] status = "FAILED" -> "FAILED"

\* _record_audit() and AuditManager.record(): each sink may fail on its own; only
\* when all fail is there an AuditError, which is logged and dropped.
RecordAudit(c) ==
    /\ pc[c] = "auditing"
    /\ \E failing \in SUBSET (Sinks \ ReliableSinks) :
           /\ trail' = [s \in Sinks |->
                  IF s \in failing THEN trail[s]
                  ELSE [trail[s] EXCEPT ![c] = Append(@, MutationStateOf(outcome[c]))]]
           /\ IF failing = Sinks /\ Sinks # {}
              THEN Goto(c, "audited") /\ UNCHANGED published
              ELSE Publish(c, "AuditRecorded", "audited", "audited")
    /\ UNCHANGED <<registry, policies, inputs, lifecycle, permission, runtime, undone, outcome>>

AfterAudit(c) ==
    /\ pc[c] = "audited"
    /\ Complete(c, outcome[c])
    /\ UNCHANGED <<registry, policies, inputs, lifecycle, permission, runtime, undone, outcome, trail>>

MutationReturns(c) ==
    /\ pc[c] = "completed"
    /\ Goto(c, "returned")
    /\ UNCHANGED <<registry, policies, inputs, lifecycle, permission, runtime, undone, outcome,
                   published, trail>>

-----------------------------------------------------------------------------
RegisterCapability(o) == Register(o) /\ UNCHANGED <<policies, commandVars>>
UnregisterCapability(k) == Unregister(k) /\ UNCHANGED <<policies, commandVars>>
LoadSecurityPolicy(p) == LoadPolicy(p) /\ UNCHANGED <<registry, commandVars>>

\* The answers of users, through the confirmation providers.
UserStep(c) == AnswerConfirmation(c) \/ AnswerApproval(c)

\* Everything else command c's coroutine does once it has been submitted.
KernelStep(c) ==
    \/ RouteMutation(c) \/ RouteMutationRefused(c) \/ RouteRead(c)
    \/ AskConfirmation(c) \/ ConfirmationUnsupported(c) \/ StartMutation(c)
    \/ DelegateExecution(c) \/ FinishRejected(c)
    \/ EvaluatePolicy(c) \/ AuthorizePermission(c) \/ DenyPermission(c)
    \/ EnforceDecision(c) \/ Dispatch(c) \/ DispatchUnknown(c)
    \/ Execute(c) \/ ExecuteReturns(c) \/ ExecuteRaises(c)
    \/ DispatchReturns(c) \/ RollbackReturns(c) \/ RollbackRaises(c)
    \/ AfterRollback(c) \/ RecordAudit(c) \/ AfterAudit(c) \/ MutationReturns(c)

CommandStep(c) == Submit(c) \/ SubmitInvalid(c) \/ UserStep(c) \/ KernelStep(c)

Next ==
    \/ \E o \in Capabilities : RegisterCapability(o)
    \/ \E k \in CapabilityIds : UnregisterCapability(k)
    \/ \E p \in Policies : LoadSecurityPolicy(p)
    \/ \E c \in Commands : CommandStep(c)

Spec == Init /\ [][Next]_vars

(***************************************************************************)
(* The event loop runs every ready coroutine, and capabilities, rollbacks  *)
(* and sinks answer; nothing obliges a user to.                            *)
(***************************************************************************)
FairSpec == Spec /\ \A c \in Commands : WF_vars(KernelStep(c))
-----------------------------------------------------------------------------
(***************************************************************************)
(* What must hold.                                                         *)
(***************************************************************************)

\* No capability object runs for a command unless the permission kernel granted
\* it, or asked for the user's approval and the user gave it, and the
\* authorization was announced before (dispatch(), service.py:92-151).
AuthorizedExecution ==
    \A c \in Commands :
        ran[c] # None =>
            /\ decision[c] = "GRANTED" \/ (decision[c] = "REQUIRES_APPROVAL" /\ approved[c])
            /\ {"ExecutionAuthorized", "ExecutionDispatched"} \subseteq published[c]

\* A command answered DENIED touched nothing: no capability was looked up for it,
\* executed or rolled back, whether security or a confirmation provider refused.
DenialIsInert ==
    \A c \in Commands :
        outcome[c] = "DENIED" =>
            /\ target[c] = None /\ ran[c] = None /\ undone[c] = None
            /\ "ExecutionAuthorized" \notin published[c]

\* On the mutation path nothing runs, and nothing is rolled back, before the
\* provider confirmed what the capability held by process_mutation asks to have
\* confirmed, and before MutationStarted (manager.py:99-136).
ConfirmedMutation ==
    \A c \in Commands :
        (route[c] = "MUTATION" /\ (ran[c] # None \/ undone[c] # None)) =>
            /\ Meta(c).confirmation_level = "NONE" \/ confirmed[c]
            /\ "MutationStarted" \in published[c]

\* A rollback undoes a failure only, on the object whose metadata the lifecycle
\* was run with; a command whose capability succeeded is never rolled back.
RollbackOnlyOfFailure ==
    \A c \in Commands :
        undone[c] # None =>
            /\ undone[c] = held[c] /\ route[c] = "MUTATION"
            /\ "ExecutionFailed" \in published[c]
            /\ {"ExecutionSucceeded", "MutationCompleted"} \cap published[c] = {}

\* An answered mutation that failed and supports rollback was rolled back or its
\* rollback was reported to have failed (manager.py:139-165), and unless an event
\* was lost on the bus it is not reported as both.
RollbackReported ==
    \A c \in Commands :
        (pc[c] = "returned" /\ route[c] = "MUTATION" /\ RollsBack(c, outcome[c])) =>
            LET reports == published[c] \cap {"MutationRolledBack", "RollbackFailed"}
            IN  reports # {} /\ (~ MiddlewareMayRaise => \E r \in reports : reports = {r})

\* Every sink holds at most one record of a command, of an audited mutation only,
\* with the state that matches the outcome; and AuditRecorded is announced only of
\* a record that some sink holds.
AuditTrail ==
    \A c \in Commands :
        /\ \A s \in Sinks :
              trail[s][c] # << >> =>
                  /\ route[c] = "MUTATION" /\ Meta(c).audit_required
                  /\ trail[s][c] = <<MutationStateOf(outcome[c])>>
        /\ ("AuditRecorded" \in published[c] /\ Sinks # {}) => \E s \in Sinks : trail[s][c] # << >>

\* An answered mutation that must be audited, whatever its end (rejected, denied by
\* security, failed, rolled back or completed), is in every sink that does not fail.
MutationsAudited ==
    \A c \in Commands :
        (pc[c] = "returned" /\ route[c] = "MUTATION" /\ Meta(c).audit_required) =>
            \A s \in ReliableSinks : trail[s][c] = <<MutationStateOf(outcome[c])>>

\* The outcome an answered command carries is the one subscribers were told of:
\* exactly one of the four closing events was published, and it is the matching one.
OutcomeMatchesEvents ==
    \A c \in Commands :
        pc[c] = "returned" =>
            LET closing == published[c] \cap {"ExecutionSucceeded", "ExecutionFailed",
                                              "ExecutionDenied", "MutationRejected"}
            IN  \/ outcome[c] = "SUCCEEDED" /\ closing = {"ExecutionSucceeded"}
                \/ outcome[c] = "FAILED" /\ closing = {"ExecutionFailed"}
                \/ outcome[c] = "DENIED" /\ closing \in {{"ExecutionDenied"}, {"MutationRejected"}}

\* Loading a policy under a new id never changes the verdict on a capability that
\* an earlier policy covers, stricter or not: only reloading an id does
\* (policy.py:30-33 and 82-87).
EarlierPolicyWins ==
    [][\A k \in CapabilityIds, t \in TrustLevel :
           (Len(policies') > Len(policies) /\ Covered(k)) => Evaluate(k, t)' = Evaluate(k, t)]_vars

\* A submitted command is answered, raises, or waits for a user who has not
\* answered: no other command, registry change or policy change can hold it up.
CommandsSettle ==
    \A c \in Commands :
        pc[c] # "idle" ~>
            pc[c] \in {"returned", "raised", "confirming", "approving"}

(***************************************************************************)
(* The pipeline implements GuardedExecution.                               *)
(***************************************************************************)
phaseBar ==
    [c \in Commands |->
        IF pc[c] = "idle" THEN "new"
        ELSE IF pc[c] = "returned" THEN "done"
        ELSE IF pc[c] = "raised" THEN "raised"
        ELSE IF ran[c] # None THEN "running"
        ELSE IF "ExecutionAuthorized" \in published[c] THEN "permitted"
        ELSE "pending"]

answerBar == [c \in Commands |-> IF pc[c] = "returned" THEN outcome[c] ELSE None]

Guarded == INSTANCE GuardedExecution WITH phase <- phaseBar, answer <- answerBar

\* The pipeline implements the promise of ExecutionService.execute: permitted
\* before run, run at most once, answered with what happened.
ImplementsGuardedExecution == Guarded!GuardedSpec

(***************************************************************************)
(* What the repository's documents say and the code does not do.           *)
(***************************************************************************)

\* "routes mutations to the MutationManager, ensuring the mutation lifecycle
\* cannot be bypassed" (service.py:218-220): a capability that declares itself a
\* mutation runs on the mutation path only.
LifecycleCannotBeBypassed ==
    \A c \in Commands :
        (ran[c] # None /\ Mutation[ran[c]].declared) => route[c] = "MUTATION"

\* "Produce an immutable audit trail of all mutations" (ADR-0017:11): when the call
\* is over, an executed mutation that must be audited is in some sink.
AllMutationsAudited ==
    \A c \in Commands :
        (/\ pc[c] \in {"returned", "raised"} /\ route[c] = "MUTATION" /\ ran[c] # None
         /\ Meta(c).audit_required)
        => \E s \in Sinks : trail[s][c] # << >>
=============================================================================
