----------------------- MODULE ExecutionPipelineProofs -----------------------
(***************************************************************************)
(* Proofs about ExecutionPipeline, for every set of commands, capabilities *)
(* and policies, with or without a raising middleware.                     *)
(*                                                                         *)
(* The inductive invariant says, for each await a command may be suspended *)
(* in, which closing event has been published, who authorized it and what  *)
(* the mutation lifecycle has established.                                 *)
(***************************************************************************)
EXTENDS ExecutionPipeline, WellFoundedInduction, TLAPS

-----------------------------------------------------------------------------
(***************************************************************************)
(* The inductive invariant, per command.                                   *)
(***************************************************************************)
Undecided ==
    {"idle", "requested", "mutation_requested", "confirming", "confirmed", "started",
     "permission_requested", "policy_evaluated", "permission_deny", "permission_decided",
     "approving"}
Permitted == {"authorized", "dispatched", "dispatch_error", "executing"}
RollingBack == {"rolling_back", "rolled_back", "rollback_error", "rollback_failed"}
Closing == {"ExecutionSucceeded", "ExecutionFailed", "ExecutionDenied", "MutationRejected"}

StillOpen(c) == outcome[c] = None /\ \A e \in Closing : e \notin published[c]
ClosedBy(c, event) == \A e \in Closing : e \in published[c] <=> e = event

\* The closing event of every wait, and of every outcome.
ClosingInv(c) ==
    /\ pc[c] \in Undecided \cup Permitted => StillOpen(c)
    /\ pc[c] = "rejected" => outcome[c] = None /\ ClosedBy(c, "MutationRejected")
    /\ pc[c] = "denied" => outcome[c] = None /\ ClosedBy(c, "ExecutionDenied")
    /\ pc[c] = "failed" => outcome[c] = None /\ ClosedBy(c, "ExecutionFailed")
    /\ pc[c] = "succeeded" => outcome[c] = None /\ ClosedBy(c, "ExecutionSucceeded")
    /\ pc[c] \in RollingBack => outcome[c] = "FAILED"
    /\ pc[c] = "completed" => outcome[c] = "SUCCEEDED"
    /\ pc[c] \in {"auditing", "audited", "returned"} => outcome[c] # None
    /\ outcome[c] = "SUCCEEDED" => ClosedBy(c, "ExecutionSucceeded")
    /\ outcome[c] = "FAILED" => ClosedBy(c, "ExecutionFailed")
    /\ outcome[c] = "DENIED" =>
           /\ ClosedBy(c, "ExecutionDenied") \/ ClosedBy(c, "MutationRejected")
           /\ pc[c] \in {"auditing", "audited", "returned"}
    /\ "MutationCompleted" \in published[c] => outcome[c] = "SUCCEEDED"

Granted(c) == decision[c] = "GRANTED" \/ (decision[c] = "REQUIRES_APPROVAL" /\ approved[c])

\* A command has touched no capability before it was authorized.
AuthorityInv(c) ==
    /\ (pc[c] \in Undecided \cup {"rejected", "denied"} \/ outcome[c] = "DENIED") =>
           target[c] = None /\ ran[c] = None /\ "ExecutionAuthorized" \notin published[c]
    /\ pc[c] = "approving" => decision[c] = "REQUIRES_APPROVAL"
    /\ pc[c] \in Permitted => Granted(c) /\ "ExecutionAuthorized" \in published[c]
    /\ pc[c] \in {"dispatched", "executing"} => "ExecutionDispatched" \in published[c]
    /\ ran[c] # None =>
           Granted(c) /\ {"ExecutionAuthorized", "ExecutionDispatched"} \subseteq published[c]

InMutation ==
    {"mutation_requested", "confirming", "confirmed", "rejected", "started", "auditing",
     "audited", "completed"} \cup RollingBack

Unstarted == {"mutation_requested", "confirming", "confirmed", "rejected"}

Started(c) ==
    /\ Meta(c).confirmation_level = "NONE" \/ confirmed[c]
    /\ "MutationStarted" \in published[c]

\* What process_mutation has established.
LifecycleInv(c) ==
    /\ pc[c] \notin {"idle", "raised"} => cap[c] \in CapabilityIds
    /\ pc[c] \in {"idle", "requested"} => route[c] = None
    /\ route[c] = "MUTATION" => held[c] \in Capabilities
    /\ pc[c] \in InMutation => route[c] = "MUTATION"
    /\ pc[c] = "confirmed" => confirmed[c]
    /\ (route[c] = "MUTATION"
        /\ pc[c] \in Waits \ (Unstarted \cup {"auditing", "audited", "completed", "returned", "raised"}))
           => Started(c)
    /\ (route[c] = "MUTATION" /\ (ran[c] # None \/ undone[c] # None)) => Started(c)
    /\ undone[c] # None =>
           undone[c] = held[c] /\ route[c] = "MUTATION" /\ outcome[c] = "FAILED"

CommandInv(c) == ClosingInv(c) /\ AuthorityInv(c) /\ LifecycleInv(c)
IInv == TypeOK /\ \A c \in Commands : CommandInv(c)

-----------------------------------------------------------------------------
(***************************************************************************)
(* One publish.                                                            *)
(***************************************************************************)

\* A publish moves one command, to one of two waits, and adds its event to what
\* was published for that command, at the latest when the publish succeeds.
LEMMA PublishEffect ==
    ASSUME TypeOK, NEW c \in Commands, NEW e \in Events,
           NEW next \in Waits, NEW handler \in Waits, Publish(c, e, next, handler)
    PROVE  /\ pc' \in [Commands -> Waits]
           /\ published' \in [Commands -> SUBSET Events]
           /\ pc'[c] = next \/ pc'[c] = handler
           /\ \A d \in Commands \ {c} : pc'[d] = pc[d] /\ published'[d] = published[d]
           /\ \A f \in published[c] : f \in published'[c]
           /\ \A f \in published'[c] : f \in published[c] \/ f = e
           /\ (pc'[c] = next /\ next # handler) => e \in published'[c]
  <1>1. CASE Goto(c, next) /\ published' = [published EXCEPT ![c] = @ \cup {e}]
    BY <1>1 DEF TypeOK, Goto
  <1>2. CASE /\ Goto(c, handler)
             /\ \E delivered \in SUBSET {e} :
                    published' = [published EXCEPT ![c] = @ \cup delivered]
    <2>1. PICK delivered \in SUBSET {e} : published' = [published EXCEPT ![c] = @ \cup delivered]
      BY <1>2
    <2> QED
      BY <1>2, <2>1 DEF TypeOK, Goto
  <1> QED
    BY <1>1, <1>2 DEF Publish

-----------------------------------------------------------------------------
(***************************************************************************)
(* Type correctness.                                                       *)
(***************************************************************************)

\* A step that moves command c to a wait, publishes events for it and leaves the
\* other commands where they are.
MovesWell(c) ==
    /\ pc' \in [Commands -> Waits]
    /\ published' \in [Commands -> SUBSET Events]
    /\ \A d \in Commands \ {c} : pc'[d] = pc[d] /\ published'[d] = published[d]

\* Every await an action of ExecutionPipeline leaves a command in is one of Waits.
LEMMA WaitNames ==
    /\ "idle" \in Waits /\ "requested" \in Waits
    /\ "mutation_requested" \in Waits /\ "confirming" \in Waits
    /\ "confirmed" \in Waits /\ "rejected" \in Waits
    /\ "started" \in Waits /\ "permission_requested" \in Waits
    /\ "policy_evaluated" \in Waits /\ "permission_deny" \in Waits
    /\ "permission_decided" \in Waits /\ "approving" \in Waits
    /\ "authorized" \in Waits /\ "dispatched" \in Waits
    /\ "dispatch_error" \in Waits /\ "executing" \in Waits
    /\ "denied" \in Waits /\ "failed" \in Waits
    /\ "succeeded" \in Waits /\ "rolling_back" \in Waits
    /\ "rolled_back" \in Waits /\ "rollback_error" \in Waits
    /\ "rollback_failed" \in Waits /\ "auditing" \in Waits
    /\ "audited" \in Waits /\ "completed" \in Waits
    /\ "returned" \in Waits /\ "raised" \in Waits
  BY DEF Waits

\* Every event an action publishes is one of Events.
LEMMA EventNames ==
    /\ "ExecutionRequested" \in Events /\ "ExecutionAuthorized" \in Events
    /\ "ExecutionDispatched" \in Events /\ "ExecutionSucceeded" \in Events
    /\ "ExecutionDenied" \in Events /\ "ExecutionFailed" \in Events
    /\ "PermissionRequested" \in Events /\ "PolicyEvaluationCompleted" \in Events
    /\ "PermissionGranted" \in Events /\ "PermissionDenied" \in Events
    /\ "MutationRequested" \in Events /\ "MutationConfirmed" \in Events
    /\ "MutationRejected" \in Events /\ "MutationStarted" \in Events
    /\ "MutationCompleted" \in Events /\ "MutationRolledBack" \in Events
    /\ "RollbackFailed" \in Events /\ "AuditRecorded" \in Events
  BY DEF Events

\* A step that only goes to another wait moves well.
LEMMA GotoMoves ==
    ASSUME TypeOK, NEW c \in Commands, NEW wait \in Waits, Goto(c, wait), UNCHANGED published
    PROVE  MovesWell(c)
  BY DEF TypeOK, Goto, MovesWell

\* A publish moves well, whether it succeeds or raises.
LEMMA PublishMoves ==
    ASSUME TypeOK, NEW c \in Commands, NEW e \in Events,
           NEW next \in Waits, NEW handler \in Waits, Publish(c, e, next, handler)
    PROVE  MovesWell(c)
  BY PublishEffect DEF MovesWell

\* So does the end of process_mutation, whatever is left of it to do.
LEMMA CompleteMoves ==
    ASSUME TypeOK, NEW c \in Commands, NEW status,
           Complete(c, status) \/ AuditThenComplete(c, status)
    PROVE  MovesWell(c)
  <1>1. CASE Publish(c, "MutationCompleted", "completed", "raised")
    BY <1>1, PublishMoves, WaitNames, EventNames
  <1>2. CASE Goto(c, "returned") /\ UNCHANGED published
    BY <1>2, GotoMoves, WaitNames
  <1>3. CASE Goto(c, "auditing") /\ UNCHANGED published
    BY <1>3, GotoMoves, WaitNames
  <1> QED
    BY <1>1, <1>2, <1>3 DEF Complete, AuditThenComplete

\* Every step of a command, however it ends, moves it to a wait and publishes events.
LEMMA MovesWellTyped ==
    ASSUME TypeOK, NEW c \in Commands, CommandStep(c)
    PROVE  MovesWell(c)
  <1>1. CASE Submit(c)
    BY <1>1, PublishMoves, WaitNames, EventNames DEF Submit
  <1>2. CASE SubmitInvalid(c)
    BY <1>2, GotoMoves, WaitNames DEF SubmitInvalid
  <1>3. CASE RouteMutation(c)
    BY <1>3, PublishMoves, WaitNames, EventNames DEF RouteMutation
  <1>4. CASE RouteMutationRefused(c)
    BY <1>4, GotoMoves, WaitNames DEF RouteMutationRefused
  <1>5. CASE RouteRead(c)
    BY <1>5, PublishMoves, WaitNames, EventNames DEF RouteRead, RequestPermission
  <1>6. CASE AskConfirmation(c)
    BY <1>6, GotoMoves, WaitNames DEF AskConfirmation
  <1>7. CASE ConfirmationUnsupported(c)
    BY <1>7, PublishMoves, WaitNames, EventNames
       DEF ConfirmationUnsupported, RejectMutation
  <1>8. CASE AnswerConfirmation(c)
    BY <1>8, PublishMoves, WaitNames, EventNames DEF AnswerConfirmation, RejectMutation
  <1>9. CASE StartMutation(c)
    BY <1>9, PublishMoves, WaitNames, EventNames DEF StartMutation
  <1>10. CASE DelegateExecution(c)
    BY <1>10, PublishMoves, WaitNames, EventNames
       DEF DelegateExecution, RequestPermission
  <1>11. CASE FinishRejected(c)
    BY <1>11, GotoMoves, WaitNames DEF FinishRejected
  <1>12. CASE EvaluatePolicy(c)
    BY <1>12, PublishMoves, WaitNames, EventNames DEF EvaluatePolicy
  <1>13. CASE AuthorizePermission(c)
    BY <1>13, PublishMoves, WaitNames, EventNames DEF AuthorizePermission
  <1>14. CASE DenyPermission(c)
    BY <1>14, PublishMoves, WaitNames, EventNames DEF DenyPermission
  <1>15. CASE EnforceDecision(c)
    <2>1. CASE PublishAuthorized(c)
      BY <2>1, PublishMoves, WaitNames, EventNames DEF PublishAuthorized
    <2>2. CASE PublishDenial(c)
      BY <2>2, PublishMoves, WaitNames, EventNames DEF PublishDenial
    <2>3. CASE Goto(c, "approving") /\ UNCHANGED published
      BY <2>3, GotoMoves, WaitNames
    <2> QED
      BY <1>15, <2>1, <2>2, <2>3 DEF EnforceDecision
  <1>16. CASE AnswerApproval(c)
    BY <1>16, PublishMoves, WaitNames, EventNames
       DEF AnswerApproval, PublishAuthorized, PublishDenial
  <1>17. CASE Dispatch(c)
    BY <1>17, PublishMoves, WaitNames, EventNames DEF Dispatch
  <1>18. CASE DispatchUnknown(c)
    BY <1>18, PublishMoves, WaitNames, EventNames DEF DispatchUnknown, PublishFailure
  <1>19. CASE Execute(c)
    BY <1>19, GotoMoves, WaitNames DEF Execute
  <1>20. CASE ExecuteReturns(c)
    BY <1>20, PublishMoves, WaitNames, EventNames DEF ExecuteReturns
  <1>21. CASE ExecuteRaises(c)
    BY <1>21, PublishMoves, WaitNames, EventNames DEF ExecuteRaises, PublishFailure
  <1>22. CASE DispatchReturns(c)
    <2>1. CASE AuditThenComplete(c, StatusOf(pc[c]))
      BY <2>1, CompleteMoves
    <2>2. CASE Goto(c, "returned") /\ UNCHANGED published
      BY <2>2, GotoMoves, WaitNames
    <2>3. CASE Goto(c, "rolling_back") /\ UNCHANGED published
      BY <2>3, GotoMoves, WaitNames
    <2> QED
      BY <1>22, <2>1, <2>2, <2>3 DEF DispatchReturns
  <1>23. CASE RollbackReturns(c)
    BY <1>23, PublishMoves, WaitNames, EventNames DEF RollbackReturns
  <1>24. CASE RollbackRaises(c)
    BY <1>24, PublishMoves, WaitNames, EventNames DEF RollbackRaises
  <1>25. CASE AfterRollback(c)
    BY <1>25, CompleteMoves DEF AfterRollback
  <1>26. CASE RecordAudit(c)
    <2>1. CASE Goto(c, "audited") /\ UNCHANGED published
      BY <2>1, GotoMoves, WaitNames
    <2>2. CASE Publish(c, "AuditRecorded", "audited", "audited")
      BY <2>2, PublishMoves, WaitNames, EventNames
    <2> QED
      BY <1>26, <2>1, <2>2 DEF RecordAudit
  <1>27. CASE AfterAudit(c)
    BY <1>27, CompleteMoves DEF AfterAudit
  <1>28. CASE MutationReturns(c)
    BY <1>28, GotoMoves, WaitNames DEF MutationReturns
  <1> QED
    BY <1>1, <1>2, <1>3, <1>4, <1>5, <1>6, <1>7, <1>8, <1>9, <1>10, <1>11, <1>12, <1>13, <1>14,
       <1>15, <1>16, <1>17, <1>18, <1>19, <1>20, <1>21, <1>22, <1>23, <1>24, <1>25, <1>26, <1>27,
       <1>28
       DEF CommandStep, UserStep, KernelStep

\* The steps of a command that only move it and publish.
PublishOnly(c) ==
    \/ SubmitInvalid(c) \/ RouteMutationRefused(c) \/ AskConfirmation(c)
    \/ ConfirmationUnsupported(c) \/ StartMutation(c) \/ DelegateExecution(c)
    \/ AuthorizePermission(c) \/ EnforceDecision(c) \/ DispatchUnknown(c)
    \/ ExecuteRaises(c) \/ RollbackReturns(c) \/ RollbackRaises(c)
    \/ AfterRollback(c) \/ AfterAudit(c) \/ MutationReturns(c)

otherVars == <<registry, policies, inputs, lifecycle, permission, runtime, undone, outcome, trail>>

\* Those steps change nothing but where the command waits and what was published.
LEMMA PublishOnlyLeaves ==
    ASSUME NEW c \in Commands, PublishOnly(c)
    PROVE  UNCHANGED otherVars
  BY DEF PublishOnly, otherVars, SubmitInvalid, RouteMutationRefused, AskConfirmation,
         ConfirmationUnsupported, StartMutation, DelegateExecution, AuthorizePermission,
         EnforceDecision, DispatchUnknown, ExecuteRaises, RollbackReturns, RollbackRaises,
         AfterRollback, AfterAudit, MutationReturns

\* Every step of a command preserves types: an audited command has its outcome, and
\* a submitted command names a capability id.
LEMMA CommandTypeOK ==
    ASSUME TypeOK, NEW c \in Commands, CommandInv(c), CommandStep(c)
    PROVE  TypeOK'
  <1> USE DEF RegistryTypeOK, PolicyTypeOK
  <1>m. MovesWell(c)
    BY MovesWellTyped
  <1>1. CASE Submit(c)
    <2>1. \A v : AsTrustLevel(v) \in TrustLevel
      BY DEF AsTrustLevel, TrustLevel, TrustRank
    <2>2. PICK k \in CapabilityIds, v \in TrustValues :
              /\ cap' = [cap EXCEPT ![c] = k]
              /\ trust' = [trust EXCEPT ![c] = AsTrustLevel(v)]
      BY <1>1 DEF Submit
    <2>3. cap' \in [Commands -> CapabilityIds \cup {None}] /\ trust' \in [Commands -> TrustLevel]
      BY <2>1, <2>2 DEF TypeOK
    <2> QED
      BY <1>1, <1>m, <2>3 DEF Submit, TypeOK, MovesWell, lifecycle, permission, runtime
  <1>2. CASE RouteMutation(c)
    <2>1. Lookup(cap[c]) \in MaybeCapability
      BY <1>2 DEF RouteMutation, Lookup, TypeOK, MaybeCapability, CommandInv, LifecycleInv
    <2> QED
      BY <1>2, <1>m, <2>1 DEF RouteMutation, TypeOK, MovesWell, inputs, permission, runtime
  <1>3. CASE RouteRead(c)
    BY <1>3, <1>m DEF RouteRead, TypeOK, MovesWell, inputs, permission, runtime
  <1>4. CASE AnswerConfirmation(c)
    BY <1>4, <1>m DEF AnswerConfirmation, TypeOK, MovesWell, inputs, permission, runtime
  <1>5. CASE FinishRejected(c)
    BY <1>5, <1>m DEF FinishRejected, TypeOK, MovesWell, inputs, lifecycle, permission, runtime,
                      ExecutionOutcomeStatus
  <1>6. CASE EvaluatePolicy(c)
    <2>1. Evaluate(cap[c], trust[c]) \in PermissionState
      BY DEF Evaluate, PermissionState
    <2> QED
      BY <1>6, <1>m, <2>1 DEF EvaluatePolicy, TypeOK, MovesWell, inputs, lifecycle, runtime
  <1>7. CASE DenyPermission(c)
    BY <1>7, <1>m DEF DenyPermission, TypeOK, MovesWell, inputs, lifecycle, runtime, PermissionState
  <1>8. CASE AnswerApproval(c)
    BY <1>8, <1>m DEF AnswerApproval, TypeOK, MovesWell, inputs, lifecycle, runtime
  <1>9. CASE Dispatch(c)
    <2>1. Lookup(cap[c]) \in MaybeCapability
      BY <1>9 DEF Dispatch, Lookup, TypeOK, MaybeCapability, CommandInv, LifecycleInv
    <2> QED
      BY <1>9, <1>m, <2>1 DEF Dispatch, TypeOK, MovesWell, inputs, lifecycle, permission
  <1>10. CASE Execute(c)
    BY <1>10, <1>m DEF Execute, TypeOK, MovesWell, inputs, lifecycle, permission
  <1>11. CASE ExecuteReturns(c)
    BY <1>11, <1>m DEF ExecuteReturns, TypeOK, MovesWell, inputs, lifecycle, permission
  <1>12. CASE DispatchReturns(c)
    <2>1. StatusOf(pc[c]) \in ExecutionOutcomeStatus
      BY <1>12 DEF DispatchReturns, StatusOf, ExecutionOutcomeStatus
    <2> QED
      BY <1>12, <1>m, <2>1 DEF DispatchReturns, TypeOK, MovesWell, inputs, lifecycle, permission,
                               runtime
  <1>13. CASE RecordAudit(c)
    <2>1. MutationStateOf(outcome[c]) \in {"COMPLETED", "REJECTED", "FAILED"}
      BY <1>13
         DEF RecordAudit, CommandInv, ClosingInv, MutationStateOf, TypeOK, ExecutionOutcomeStatus
    <2>2. trail' \in [Sinks -> [Commands -> Seq({"COMPLETED", "REJECTED", "FAILED"})]]
      BY <1>13, <2>1 DEF RecordAudit, TypeOK
    <2> QED
      BY <1>13, <1>m, <2>2
         DEF RecordAudit, TypeOK, MovesWell, inputs, lifecycle, permission, runtime
  <1>14. CASE PublishOnly(c)
    BY <1>14, <1>m, PublishOnlyLeaves DEF otherVars, TypeOK, MovesWell, inputs, lifecycle,
                                          permission, runtime
  <1> QED
    BY <1>1, <1>2, <1>3, <1>4, <1>5, <1>6, <1>7, <1>8, <1>9, <1>10, <1>11, <1>12, <1>13, <1>14
       DEF CommandStep, UserStep, KernelStep, PublishOnly

-----------------------------------------------------------------------------
(***************************************************************************)
(* A step of one command leaves the invariant of the others alone.         *)
(***************************************************************************)
Untouched(d) ==
    /\ pc'[d] = pc[d] /\ published'[d] = published[d] /\ cap'[d] = cap[d]
    /\ route'[d] = route[d] /\ held'[d] = held[d] /\ confirmed'[d] = confirmed[d]
    /\ decision'[d] = decision[d] /\ approved'[d] = approved[d]
    /\ target'[d] = target[d] /\ ran'[d] = ran[d]
    /\ undone'[d] = undone[d] /\ outcome'[d] = outcome[d]

\* A command's coroutine writes only its own state: whatever step c takes, nothing of
\* another command d moves.
LEMMA OthersUntouched ==
    ASSUME TypeOK, NEW c \in Commands, NEW d \in Commands \ {c}, CommandStep(c)
    PROVE  Untouched(d)
  <1> USE DEF Untouched, inputs, lifecycle, permission, runtime
  <1>m. pc'[d] = pc[d] /\ published'[d] = published[d]
    BY MovesWellTyped DEF MovesWell
  <1>1. CASE Submit(c) \/ RouteMutation(c) \/ RouteRead(c) \/ AnswerConfirmation(c)
    BY <1>1, <1>m DEF Submit, RouteMutation, RouteRead, AnswerConfirmation, TypeOK
  <1>2. CASE EvaluatePolicy(c) \/ DenyPermission(c) \/ AnswerApproval(c) \/ FinishRejected(c)
    BY <1>2, <1>m DEF EvaluatePolicy, DenyPermission, AnswerApproval, FinishRejected, TypeOK
  <1>3. CASE Dispatch(c) \/ Execute(c) \/ ExecuteReturns(c) \/ RecordAudit(c)
    BY <1>3, <1>m DEF Dispatch, Execute, ExecuteReturns, RecordAudit, TypeOK
  <1>4. CASE DispatchReturns(c)
    BY <1>4, <1>m DEF DispatchReturns, TypeOK
  <1>5. CASE PublishOnly(c)
    BY <1>5, <1>m, PublishOnlyLeaves DEF otherVars
  <1> QED
    BY <1>1, <1>2, <1>3, <1>4, <1>5 DEF CommandStep, UserStep, KernelStep, PublishOnly

\* The invariant of a command depends only on that command's state.
LEMMA UntouchedInv ==
    ASSUME NEW d \in Commands, CommandInv(d), Untouched(d)
    PROVE  CommandInv(d)'
  BY DEF CommandInv, Untouched, ClosingInv, AuthorityInv, LifecycleInv, StillOpen, ClosedBy,
         Granted, Started, Meta

-----------------------------------------------------------------------------
(***************************************************************************)
(* A step of a command preserves its own invariant.                        *)
(***************************************************************************)
\* Each wait keeps its closing event, and the outcome follows from it.
LEMMA ClosingStep ==
    ASSUME TypeOK, NEW c \in Commands, CommandInv(c), CommandStep(c)
    PROVE  ClosingInv(c)'
  <1> USE DEF CommandInv, TypeOK, ClosingInv, StillOpen, ClosedBy, Closing, Undecided, Permitted, RollingBack
  <1>1. CASE Submit(c)
    BY <1>1, PublishEffect, WaitNames, EventNames DEF Submit
  <1>2. CASE SubmitInvalid(c)
    BY <1>2 DEF SubmitInvalid, Goto
  <1>3. CASE RouteMutation(c)
    BY <1>3, PublishEffect, WaitNames, EventNames DEF RouteMutation
  <1>4. CASE RouteMutationRefused(c)
    BY <1>4 DEF RouteMutationRefused, Goto
  <1>5. CASE RouteRead(c)
    BY <1>5, PublishEffect, WaitNames, EventNames DEF RouteRead, RequestPermission
  <1>6. CASE AskConfirmation(c)
    BY <1>6 DEF AskConfirmation, Goto
  <1>7. CASE ConfirmationUnsupported(c)
    BY <1>7, PublishEffect, WaitNames, EventNames DEF ConfirmationUnsupported, RejectMutation
  <1>8. CASE AnswerConfirmation(c)
    BY <1>8, PublishEffect, WaitNames, EventNames, SMTT(30) DEF AnswerConfirmation, RejectMutation
  <1>9. CASE StartMutation(c)
    BY <1>9, PublishEffect, WaitNames, EventNames DEF StartMutation
  <1>10. CASE DelegateExecution(c)
    BY <1>10, PublishEffect, WaitNames, EventNames DEF DelegateExecution, RequestPermission
  <1>11. CASE FinishRejected(c)
    BY <1>11 DEF FinishRejected, Goto
  <1>12. CASE EvaluatePolicy(c)
    BY <1>12, PublishEffect, WaitNames, EventNames DEF EvaluatePolicy
  <1>13. CASE AuthorizePermission(c)
    BY <1>13, PublishEffect, WaitNames, EventNames DEF AuthorizePermission
  <1>14. CASE DenyPermission(c)
    BY <1>14, PublishEffect, WaitNames, EventNames DEF DenyPermission
  <1>15. CASE EnforceDecision(c)
    BY <1>15, PublishEffect, WaitNames, EventNames, SMTT(30)
       DEF EnforceDecision, PublishAuthorized, PublishDenial, Goto
  <1>16. CASE AnswerApproval(c)
    BY <1>16, PublishEffect, WaitNames, EventNames
       DEF AnswerApproval, PublishAuthorized, PublishDenial
  <1>17. CASE Dispatch(c)
    <2>1. Publish(c, "ExecutionDispatched", "dispatched", "dispatch_error") /\ outcome' = outcome
      BY <1>17 DEF Dispatch
    <2>2. pc[c] = "authorized"
      BY <1>17 DEF Dispatch
    <2> QED
      BY <2>1, <2>2, PublishEffect, WaitNames, EventNames
  <1>18. CASE DispatchUnknown(c)
    BY <1>18, PublishEffect, WaitNames, EventNames DEF DispatchUnknown, PublishFailure
  <1>19. CASE Execute(c)
    BY <1>19 DEF Execute, Goto
  <1>20. CASE ExecuteReturns(c)
    BY <1>20, PublishEffect, WaitNames, EventNames DEF ExecuteReturns
  <1>21. CASE ExecuteRaises(c)
    <2>1. Publish(c, "ExecutionFailed", "failed", "raised") /\ outcome' = outcome
      BY <1>21 DEF ExecuteRaises, PublishFailure
    <2>2. pc[c] \in Permitted
      BY <1>21 DEF ExecuteRaises
    <2>3. /\ pc'[c] \in {"failed", "raised"}
          /\ pc'[c] = "failed" => "ExecutionFailed" \in published'[c]
          /\ \A f \in published'[c] : f \in published[c] \/ f = "ExecutionFailed"
      BY <2>1, PublishEffect, WaitNames, EventNames
    <2> QED
      BY <2>1, <2>2, <2>3, PipelineAssumption
  <1>22. CASE DispatchReturns(c)
    <2> DEFINE status == StatusOf(pc[c])
    <2>1. /\ outcome'[c] = status
          /\ status \in {"SUCCEEDED", "DENIED", "FAILED"}
          /\ status = "SUCCEEDED" => ClosedBy(c, "ExecutionSucceeded")
          /\ status = "FAILED" => ClosedBy(c, "ExecutionFailed")
          /\ status = "DENIED" => ClosedBy(c, "ExecutionDenied")
          /\ "MutationCompleted" \notin published[c]
      BY <1>22, PipelineAssumption DEF DispatchReturns, StatusOf
    <2>2. CASE status = "SUCCEEDED" /\ Publish(c, "MutationCompleted", "completed", "raised")
      BY <2>1, <2>2, PipelineAssumption, PublishEffect, WaitNames, EventNames
    <2>3. CASE /\ published' = published
               /\ \/ Goto(c, "returned") \/ Goto(c, "auditing")
                  \/ Goto(c, "rolling_back") /\ status = "FAILED"
      BY <2>1, <2>3, PipelineAssumption DEF Goto
    <2> QED
      BY <1>22, <2>2, <2>3 DEF DispatchReturns, RollsBack, AuditThenComplete, Complete
  <1>23. CASE RollbackReturns(c)
    BY <1>23, PublishEffect, WaitNames, EventNames DEF RollbackReturns
  <1>24. CASE RollbackRaises(c)
    BY <1>24, PublishEffect, WaitNames, EventNames, SMTT(30) DEF RollbackRaises
  <1>25. CASE AfterRollback(c)
    <2>1. outcome[c] = "FAILED" /\ outcome' = outcome
      BY <1>25 DEF AfterRollback
    <2>2. published' = published /\ (Goto(c, "auditing") \/ Goto(c, "returned"))
      BY <1>25, <2>1 DEF AfterRollback, AuditThenComplete, Complete
    <2> QED
      BY <2>1, <2>2, PipelineAssumption DEF Goto
  <1>26. CASE RecordAudit(c)
    BY <1>26, PublishEffect, WaitNames, EventNames, SMTT(30) DEF RecordAudit, Goto
  <1>27. CASE AfterAudit(c)
    BY <1>27, PublishEffect, WaitNames, EventNames, SMTT(30) DEF AfterAudit, Complete, Goto
  <1>28. CASE MutationReturns(c)
    BY <1>28, PipelineAssumption DEF MutationReturns, Goto
  <1> QED
    BY <1>1, <1>2, <1>3, <1>4, <1>5, <1>6, <1>7, <1>8, <1>9, <1>10, <1>11, <1>12, <1>13, <1>14,
       <1>15, <1>16, <1>17, <1>18, <1>19, <1>20, <1>21, <1>22, <1>23, <1>24, <1>25, <1>26, <1>27, <1>28
       DEF CommandStep, UserStep, KernelStep

\* Nothing is looked up or run before the authorization, and what authorized a
\* command stays as it was.
LEMMA AuthorityStep ==
    ASSUME TypeOK, NEW c \in Commands, CommandInv(c), CommandStep(c)
    PROVE  AuthorityInv(c)'
  <1> USE DEF CommandInv, TypeOK, AuthorityInv, ClosingInv, Granted, Undecided, Permitted, RollingBack, lifecycle, permission, runtime
  <1>1. CASE Submit(c)
    BY <1>1, PublishEffect, WaitNames, EventNames DEF Submit
  <1>2. CASE SubmitInvalid(c)
    BY <1>2 DEF SubmitInvalid, Goto
  <1>3. CASE RouteMutation(c)
    BY <1>3, PublishEffect, WaitNames, EventNames DEF RouteMutation
  <1>4. CASE RouteMutationRefused(c)
    BY <1>4 DEF RouteMutationRefused, Goto
  <1>5. CASE RouteRead(c)
    BY <1>5, PublishEffect, WaitNames, EventNames DEF RouteRead, RequestPermission
  <1>6. CASE AskConfirmation(c)
    BY <1>6 DEF AskConfirmation, Goto
  <1>7. CASE ConfirmationUnsupported(c)
    BY <1>7, PublishEffect, WaitNames, EventNames DEF ConfirmationUnsupported, RejectMutation
  <1>8. CASE AnswerConfirmation(c)
    BY <1>8, PublishEffect, WaitNames, EventNames DEF AnswerConfirmation, RejectMutation
  <1>9. CASE StartMutation(c)
    BY <1>9, PublishEffect, WaitNames, EventNames DEF StartMutation
  <1>10. CASE DelegateExecution(c)
    BY <1>10, PublishEffect, WaitNames, EventNames DEF DelegateExecution, RequestPermission
  <1>11. CASE FinishRejected(c)
    BY <1>11 DEF FinishRejected, Goto
  <1>12. CASE EvaluatePolicy(c)
    BY <1>12, PublishEffect, WaitNames, EventNames DEF EvaluatePolicy
  <1>13. CASE AuthorizePermission(c)
    BY <1>13, PublishEffect, WaitNames, EventNames DEF AuthorizePermission
  <1>14. CASE DenyPermission(c)
    BY <1>14, PublishEffect, WaitNames, EventNames DEF DenyPermission
  <1>15. CASE EnforceDecision(c)
    BY <1>15, PublishEffect, WaitNames, EventNames, SMTT(30)
       DEF EnforceDecision, PublishAuthorized, PublishDenial, Goto
  <1>16. CASE AnswerApproval(c)
    <2>1. PICK ok \in BOOLEAN :
              /\ approved' = [approved EXCEPT ![c] = ok]
              /\ IF ok THEN PublishAuthorized(c) ELSE PublishDenial(c)
      BY <1>16 DEF AnswerApproval
    <2>2. CASE ok
      BY <1>16, <2>1, <2>2, PublishEffect, WaitNames, EventNames
         DEF AnswerApproval, PublishAuthorized
    <2>3. CASE ~ ok
      BY <1>16, <2>1, <2>3, PublishEffect, WaitNames, EventNames DEF AnswerApproval, PublishDenial
    <2> QED
      BY <2>2, <2>3
  <1>17. CASE Dispatch(c)
    BY <1>17, PublishEffect, WaitNames, EventNames DEF Dispatch
  <1>18. CASE DispatchUnknown(c)
    BY <1>18, PublishEffect, WaitNames, EventNames DEF DispatchUnknown, PublishFailure
  <1>19. CASE Execute(c)
    BY <1>19 DEF Execute, Goto
  <1>20. CASE ExecuteReturns(c)
    BY <1>20, PublishEffect, WaitNames, EventNames DEF ExecuteReturns
  <1>21. CASE ExecuteRaises(c)
    BY <1>21, PublishEffect, WaitNames, EventNames, SMTT(30) DEF ExecuteRaises, PublishFailure
  <1>22. CASE DispatchReturns(c)
    BY <1>22, PublishEffect, WaitNames, EventNames, SMTT(30)
       DEF DispatchReturns, AuditThenComplete, Complete, StatusOf, RollsBack, Goto
  <1>23. CASE RollbackReturns(c)
    BY <1>23, PublishEffect, WaitNames, EventNames DEF RollbackReturns
  <1>24. CASE RollbackRaises(c)
    BY <1>24, PublishEffect, WaitNames, EventNames DEF RollbackRaises
  <1>25. CASE AfterRollback(c)
    BY <1>25, PublishEffect, WaitNames, EventNames
       DEF AfterRollback, AuditThenComplete, Complete, Goto
  <1>26. CASE RecordAudit(c)
    BY <1>26, PublishEffect, WaitNames, EventNames, SMTT(30) DEF RecordAudit, Goto
  <1>27. CASE AfterAudit(c)
    BY <1>27, PublishEffect, WaitNames, EventNames, SMTT(30) DEF AfterAudit, Complete, Goto
  <1>28. CASE MutationReturns(c)
    BY <1>28 DEF MutationReturns, Goto
  <1> QED
    BY <1>1, <1>2, <1>3, <1>4, <1>5, <1>6, <1>7, <1>8, <1>9, <1>10, <1>11, <1>12, <1>13, <1>14,
       <1>15, <1>16, <1>17, <1>18, <1>19, <1>20, <1>21, <1>22, <1>23, <1>24, <1>25, <1>26, <1>27, <1>28
       DEF CommandStep, UserStep, KernelStep

\* The mutation lifecycle keeps what it established.
LEMMA LifecycleStep ==
    ASSUME TypeOK, NEW c \in Commands, CommandInv(c), CommandStep(c)
    PROVE  LifecycleInv(c)'
  <1> USE DEF CommandInv, TypeOK, LifecycleInv, ClosingInv, StillOpen, AuthorityInv, Started, Meta, InMutation, Unstarted, Undecided, Permitted, RollingBack, inputs, lifecycle, runtime
  <1>1. CASE Submit(c)
    BY <1>1, PublishEffect, WaitNames, EventNames DEF Submit
  <1>2. CASE SubmitInvalid(c)
    BY <1>2 DEF SubmitInvalid, Goto
  <1>3. CASE RouteMutation(c)
    <2>1. held'[c] \in Capabilities /\ route'[c] = "MUTATION" /\ cap[c] \in CapabilityIds
      BY <1>3 DEF RouteMutation, Classify, Lookup, RegistryTypeOK
    <2>2. ran'[c] = None /\ undone'[c] = None /\ cap' = cap
      BY <1>3, PipelineAssumption DEF RouteMutation
    <2>3. pc'[c] \in {"mutation_requested", "raised"}
      BY <1>3, PublishEffect, WaitNames, EventNames DEF RouteMutation
    <2> QED
      BY <2>1, <2>2, <2>3
  <1>4. CASE RouteMutationRefused(c)
    BY <1>4 DEF RouteMutationRefused, Goto
  <1>5. CASE RouteRead(c)
    <2>1. route'[c] = "READ" /\ cap' = cap /\ undone'[c] = None
      BY <1>5, PipelineAssumption DEF RouteRead
    <2>2. pc'[c] \in {"permission_requested", "permission_deny"}
      BY <1>5, PublishEffect, WaitNames, EventNames DEF RouteRead, RequestPermission
    <2> QED
      BY <1>5, <2>1, <2>2 DEF RouteRead
  <1>6. CASE AskConfirmation(c)
    BY <1>6 DEF AskConfirmation, Goto
  <1>7. CASE ConfirmationUnsupported(c)
    BY <1>7, PublishEffect, WaitNames, EventNames, SMTT(30)
       DEF ConfirmationUnsupported, RejectMutation
  <1>8. CASE AnswerConfirmation(c)
    <2>1. ran'[c] = None /\ undone'[c] = None
      BY <1>8, PipelineAssumption DEF AnswerConfirmation
    <2>2. PICK ok \in BOOLEAN :
              /\ confirmed' = [confirmed EXCEPT ![c] = ok]
              /\ IF ok THEN Publish(c, "MutationConfirmed", "confirmed", "raised")
                       ELSE RejectMutation(c)
      BY <1>8 DEF AnswerConfirmation
    <2>3. pc'[c] \in {"confirmed", "rejected", "raised"} /\ (pc'[c] = "confirmed" => confirmed'[c])
      BY <2>2, PublishEffect, WaitNames, EventNames DEF RejectMutation
    <2> QED
      BY <1>8, <2>1, <2>3 DEF AnswerConfirmation
  <1>9. CASE StartMutation(c)
    BY <1>9, PublishEffect, WaitNames, EventNames DEF StartMutation
  <1>10. CASE DelegateExecution(c)
    BY <1>10, PublishEffect, WaitNames, EventNames DEF DelegateExecution, RequestPermission
  <1>11. CASE FinishRejected(c)
    BY <1>11, PipelineAssumption DEF FinishRejected, Goto
  <1>12. CASE EvaluatePolicy(c)
    BY <1>12, PublishEffect, WaitNames, EventNames DEF EvaluatePolicy
  <1>13. CASE AuthorizePermission(c)
    BY <1>13, PublishEffect, WaitNames, EventNames DEF AuthorizePermission
  <1>14. CASE DenyPermission(c)
    BY <1>14, PublishEffect, WaitNames, EventNames DEF DenyPermission
  <1>15. CASE EnforceDecision(c)
    <2>1. /\ pc'[c] \in {"authorized", "denied", "approving", "raised"}
          /\ \A e \in published[c] : e \in published'[c]
      BY <1>15, PublishEffect, WaitNames, EventNames, SMTT(30)
         DEF EnforceDecision, PublishAuthorized, PublishDenial, Goto
    <2> QED
      BY <1>15, <2>1, SMTT(30) DEF EnforceDecision
  <1>16. CASE AnswerApproval(c)
    BY <1>16, PublishEffect, WaitNames, EventNames
       DEF AnswerApproval, PublishAuthorized, PublishDenial
  <1>17. CASE Dispatch(c)
    BY <1>17, PublishEffect, WaitNames, EventNames DEF Dispatch
  <1>18. CASE DispatchUnknown(c)
    BY <1>18, PublishEffect, WaitNames, EventNames DEF DispatchUnknown, PublishFailure
  <1>19. CASE Execute(c)
    BY <1>19 DEF Execute, Goto
  <1>20. CASE ExecuteReturns(c)
    BY <1>20, PublishEffect, WaitNames, EventNames DEF ExecuteReturns
  <1>21. CASE ExecuteRaises(c)
    BY <1>21, PublishEffect, WaitNames, EventNames DEF ExecuteRaises, PublishFailure
  <1>22. CASE DispatchReturns(c)
    <2>1. cap' = cap /\ route' = route /\ held' = held /\ confirmed' = confirmed /\ ran' = ran
      BY <1>22 DEF DispatchReturns
    <2>2. undone[c] = None /\ outcome'[c] = StatusOf(pc[c])
      BY <1>22, PipelineAssumption DEF DispatchReturns
    <2>3. \A e \in published[c] : e \in published'[c]
      BY <1>22, PublishEffect, WaitNames, EventNames
         DEF DispatchReturns, AuditThenComplete, Complete
    <2>4. CASE route[c] = "READ"
      BY <1>22, <2>1, <2>2, <2>4, PipelineAssumption DEF DispatchReturns, Goto
    <2>5. CASE route[c] = "MUTATION" /\ RollsBack(c, StatusOf(pc[c]))
      BY <1>22, <2>1, <2>2, <2>3, <2>5 DEF DispatchReturns, Goto, RollsBack
    <2>6. CASE route[c] = "MUTATION" /\ ~ RollsBack(c, StatusOf(pc[c]))
      <3>1. pc'[c] \in {"auditing", "completed", "raised", "returned"} /\ undone'[c] = None
        BY <1>22, <2>2, <2>6, PublishEffect, WaitNames, EventNames
           DEF DispatchReturns, AuditThenComplete, Complete, Goto
      <3> QED
        BY <1>22, <2>1, <2>3, <2>6, <3>1 DEF DispatchReturns
    <2> QED
      BY <1>22, <2>4, <2>5, <2>6 DEF DispatchReturns
  <1>23. CASE RollbackReturns(c)
    BY <1>23, PublishEffect, WaitNames, EventNames DEF RollbackReturns
  <1>24. CASE RollbackRaises(c)
    BY <1>24, PublishEffect, WaitNames, EventNames DEF RollbackRaises
  <1>25. CASE AfterRollback(c)
    BY <1>25, PublishEffect, WaitNames, EventNames
       DEF AfterRollback, AuditThenComplete, Complete, Goto
  <1>26. CASE RecordAudit(c)
    BY <1>26, PublishEffect, WaitNames, EventNames, SMTT(30) DEF RecordAudit, Goto
  <1>27. CASE AfterAudit(c)
    <2>1. /\ pc'[c] \in {"completed", "raised", "returned"}
          /\ \A e \in published[c] : e \in published'[c]
      BY <1>27, PublishEffect, WaitNames, EventNames, SMTT(30) DEF AfterAudit, Complete, Goto
    <2> QED
      BY <1>27, <2>1 DEF AfterAudit
  <1>28. CASE MutationReturns(c)
    BY <1>28 DEF MutationReturns, Goto
  <1> QED
    BY <1>1, <1>2, <1>3, <1>4, <1>5, <1>6, <1>7, <1>8, <1>9, <1>10, <1>11, <1>12, <1>13, <1>14,
       <1>15, <1>16, <1>17, <1>18, <1>19, <1>20, <1>21, <1>22, <1>23, <1>24, <1>25, <1>26, <1>27, <1>28
       DEF CommandStep, UserStep, KernelStep


-----------------------------------------------------------------------------
(***************************************************************************)
(* The theorems.                                                           *)
(***************************************************************************)
\* Before the first call of ExecutionService.execute the invariant holds.
LEMMA InitInv == Init => IInv
  <1> SUFFICES ASSUME Init PROVE IInv
    OBVIOUS
  <1>1. TypeOK
    BY WaitNames
       DEF Init, TypeOK, RegistryInit, RegistryTypeOK, PolicyInit, PolicyTypeOK, TrustLevel,
                     TrustRank, MaybeCapability
  <1>2. ASSUME NEW c \in Commands PROVE CommandInv(c)
    BY PipelineAssumption
       DEF Init, CommandInv, ClosingInv, AuthorityInv, LifecycleInv, StillOpen, Undecided,
           Permitted, RollingBack, InMutation, Unstarted
  <1> QED
    BY <1>1, <1>2 DEF IInv

\* Registry and policy changes touch no command.
LEMMA EnvironmentStep ==
    ASSUME IInv, \/ \E o \in Capabilities : RegisterCapability(o)
                 \/ \E k \in CapabilityIds : UnregisterCapability(k)
                 \/ \E p \in Policies : LoadSecurityPolicy(p)
    PROVE  IInv'
  <1>1. UNCHANGED commandVars
    BY DEF RegisterCapability, UnregisterCapability, LoadSecurityPolicy
  <1>2. RegistryTypeOK'
    BY RegistryAssumption DEF IInv, TypeOK, RegistryTypeOK, RegisterCapability, Register,
       UnregisterCapability, Unregister, LoadSecurityPolicy
  <1>3. PolicyTypeOK'
    <2>1. policies \in Seq(Policies)
      BY DEF IInv, TypeOK, PolicyTypeOK
    <2>2. CASE UNCHANGED policies
      BY <2>1, <2>2 DEF PolicyTypeOK
    <2>3. ASSUME NEW p \in Policies, LoadPolicy(p) PROVE policies' \in Seq(Policies)
      <3>1. CASE policies' = Append(policies, p)
        BY <2>1, <3>1
      <3>2. CASE policies' = [i \in DOMAIN policies |->
                                 IF policies[i].policy_id = p.policy_id THEN p ELSE policies[i]]
        <4>1. DOMAIN policies = 1..Len(policies) /\ Len(policies) \in Nat
          BY <2>1
        <4>2. \A i \in 1..Len(policies) : policies'[i] \in Policies
          BY <2>1, <3>2, <4>1
        <4>3. policies' \in [1..Len(policies) -> Policies]
          BY <3>2, <4>1, <4>2
        <4> QED
          BY <4>1, <4>3, SMTT(30)
      <3> QED
        BY <2>3, <3>1, <3>2 DEF LoadPolicy
    <2> QED
      BY <2>2, <2>3 DEF PolicyTypeOK, RegisterCapability, UnregisterCapability, LoadSecurityPolicy
  <1>4. TypeOK'
    BY <1>1, <1>2, <1>3 DEF IInv, TypeOK, commandVars, inputs, lifecycle, permission, runtime
  <1>5. ASSUME NEW d \in Commands PROVE CommandInv(d)'
    BY <1>1, UntouchedInv DEF IInv, Untouched, commandVars, inputs, lifecycle, permission, runtime
  <1> QED
    BY <1>4, <1>5 DEF IInv

\* IInv is inductive.
LEMMA NextInv == IInv /\ [Next]_vars => IInv'
  <1> SUFFICES ASSUME IInv, [Next]_vars PROVE IInv'
    OBVIOUS
  <1>1. ASSUME NEW c \in Commands, CommandStep(c) PROVE IInv'
    <2>1. TypeOK'
      BY <1>1, CommandTypeOK DEF IInv
    <2>2. CommandInv(c)'
      BY <1>1, ClosingStep, AuthorityStep, LifecycleStep DEF IInv, CommandInv
    <2>3. ASSUME NEW d \in Commands \ {c} PROVE CommandInv(d)'
      BY <1>1, OthersUntouched, UntouchedInv DEF IInv
    <2> QED
      BY <2>1, <2>2, <2>3 DEF IInv
  <1>2. CASE UNCHANGED vars
    <2>1. TypeOK'
      BY <1>2 DEF IInv, TypeOK, RegistryTypeOK, PolicyTypeOK, vars, commandVars, inputs, lifecycle,
                  permission, runtime
    <2>2. ASSUME NEW d \in Commands PROVE CommandInv(d)'
      BY <1>2, UntouchedInv DEF IInv, Untouched, vars, commandVars, inputs, lifecycle, permission,
                                runtime
    <2> QED
      BY <2>1, <2>2 DEF IInv
  <1> QED
    BY <1>1, <1>2, EnvironmentStep DEF Next

\* The pipeline keeps its inductive invariant.
THEOREM Invariance == Spec => []IInv
  BY InitInv, NextInv, PTL DEF Spec

\* Every state of the pipeline is well typed (TypeOK), whatever the registry, the
\* policies and the other commands do.
THEOREM TypeCorrect == Spec => []TypeOK
  <1>1. IInv => TypeOK
    BY DEF IInv
  <1> QED
    BY <1>1, Invariance, PTL

\* ProtectedDispatcher.dispatch never executes a capability that the permission
\* kernel did not grant, or the user did not approve when it asked for approval.
THEOREM ExecutionIsAuthorized == Spec => []AuthorizedExecution
  <1>1. IInv => AuthorizedExecution
    BY DEF IInv, CommandInv, AuthorityInv, Granted, AuthorizedExecution
  <1> QED
    BY <1>1, Invariance, PTL

\* A command answered DENIED has had no effect on any capability.
THEOREM DenialHasNoEffect == Spec => []DenialIsInert
  <1>1. IInv => DenialIsInert
    BY PipelineAssumption DEF IInv, CommandInv, AuthorityInv, LifecycleInv, DenialIsInert
  <1> QED
    BY <1>1, Invariance, PTL

\* On the mutation path nothing runs or is rolled back before the confirmation the
\* held capability asks for, and before MutationStarted.
THEOREM MutationIsConfirmed == Spec => []ConfirmedMutation
  <1>1. IInv => ConfirmedMutation
    BY DEF IInv, CommandInv, LifecycleInv, Started, ConfirmedMutation
  <1> QED
    BY <1>1, Invariance, PTL

\* process_mutation rolls back failed executions only.
THEOREM OnlyFailuresAreRolledBack == Spec => []RollbackOnlyOfFailure
  <1>1. IInv => RollbackOnlyOfFailure
    BY DEF IInv, CommandInv, ClosingInv, ClosedBy, Closing, LifecycleInv, RollbackOnlyOfFailure
  <1> QED
    BY <1>1, Invariance, PTL

\* The outcome a caller gets is the one subscribers were told of.
THEOREM OutcomeIsAnnounced == Spec => []OutcomeMatchesEvents
  <1>1. IInv => OutcomeMatchesEvents
    <2> SUFFICES ASSUME IInv, NEW c \in Commands, pc[c] = "returned"
                 PROVE  LET closing == published[c] \cap Closing
                        IN  \/ outcome[c] = "SUCCEEDED" /\ closing = {"ExecutionSucceeded"}
                            \/ outcome[c] = "FAILED" /\ closing = {"ExecutionFailed"}
                            \/ /\ outcome[c] = "DENIED"
                               /\ closing \in {{"ExecutionDenied"}, {"MutationRejected"}}
      BY DEF OutcomeMatchesEvents, Closing
    <2>1. outcome[c] \in {"SUCCEEDED", "FAILED", "DENIED"}
      BY DEF IInv, TypeOK, ExecutionOutcomeStatus, CommandInv, ClosingInv
    <2>2. \A e \in Closing : ClosedBy(c, e) => published[c] \cap Closing = {e}
      BY DEF ClosedBy
    <2>3. \A e \in {"ExecutionSucceeded", "ExecutionFailed", "ExecutionDenied", "MutationRejected"} :
              e \in Closing
      BY DEF Closing
    <2> QED
      BY <2>1, <2>2, <2>3 DEF IInv, CommandInv, ClosingInv
  <1> QED
    BY <1>1, Invariance, PTL

-----------------------------------------------------------------------------
(***************************************************************************)
(* The waits before and after the outcome of a command is known.           *)
(***************************************************************************)
Decided == {"rejected", "denied", "failed", "succeeded"}
Answering == {"auditing", "audited", "completed", "returned"}
Reports == {"MutationRolledBack", "RollbackFailed"}

\* Until its outcome is known a command is not recorded and no rollback reported.
LEMMA EarlyStep ==
    ASSUME TypeOK, NEW c \in Commands, CommandStep(c),
           pc[c] \notin Decided \cup RollingBack \cup Answering
    PROVE  /\ pc[c] # "raised"
           /\ pc'[c] \notin RollingBack \cup Answering \cup {"idle"}
           /\ trail' = trail /\ outcome' = outcome
           /\ \A e \in published[c] : e \in published'[c]
           /\ \A e \in published'[c] : e \in published[c] \/ e \notin Reports \cup {"AuditRecorded"}
  <1> USE DEF Decided, RollingBack, Answering, Reports
  <1>1. CASE Submit(c) \/ RouteMutation(c) \/ RouteRead(c)
    BY <1>1, PublishEffect, WaitNames, EventNames DEF Submit, RouteMutation, RouteRead, RequestPermission
  <1>2. CASE SubmitInvalid(c) \/ RouteMutationRefused(c) \/ AskConfirmation(c) \/ Execute(c)
    BY <1>2 DEF SubmitInvalid, RouteMutationRefused, AskConfirmation, Execute, Goto, TypeOK
  <1>3. CASE ConfirmationUnsupported(c) \/ StartMutation(c) \/ DelegateExecution(c)
    BY <1>3, PublishEffect, WaitNames, EventNames
       DEF ConfirmationUnsupported, RejectMutation, StartMutation, DelegateExecution, RequestPermission
  <1>4. CASE AnswerConfirmation(c)
    BY <1>4, PublishEffect, WaitNames, EventNames DEF AnswerConfirmation, RejectMutation
  <1>5. CASE EvaluatePolicy(c) \/ AuthorizePermission(c) \/ DenyPermission(c)
    BY <1>5, PublishEffect, WaitNames, EventNames DEF EvaluatePolicy, AuthorizePermission, DenyPermission
  <1>6. CASE EnforceDecision(c)
    <2>1. CASE PublishAuthorized(c) \/ PublishDenial(c)
      BY <1>6, <2>1, PublishEffect, WaitNames, EventNames DEF EnforceDecision, PublishAuthorized, PublishDenial
    <2>2. CASE Goto(c, "approving") /\ UNCHANGED published
      BY <1>6, <2>2 DEF EnforceDecision, Goto, TypeOK
    <2> QED BY <1>6, <2>1, <2>2 DEF EnforceDecision
  <1>7. CASE AnswerApproval(c)
    BY <1>7, PublishEffect, WaitNames, EventNames DEF AnswerApproval, PublishAuthorized, PublishDenial
  <1>8. CASE Dispatch(c) \/ DispatchUnknown(c)
    BY <1>8, PublishEffect, WaitNames, EventNames DEF Dispatch, DispatchUnknown, PublishFailure
  <1>9. CASE ExecuteReturns(c) \/ ExecuteRaises(c)
    BY <1>9, PublishEffect, WaitNames, EventNames DEF ExecuteReturns, ExecuteRaises, PublishFailure
  <1>10. ~ (\/ FinishRejected(c) \/ DispatchReturns(c) \/ RollbackReturns(c) \/ RollbackRaises(c)
            \/ AfterRollback(c) \/ RecordAudit(c) \/ AfterAudit(c) \/ MutationReturns(c))
    BY DEF FinishRejected, DispatchReturns, RollbackReturns, RollbackRaises, AfterRollback, RecordAudit,
           AfterAudit, MutationReturns
  <1> QED
    BY <1>1, <1>2, <1>3, <1>4, <1>5, <1>6, <1>7, <1>8, <1>9, <1>10 DEF CommandStep, UserStep, KernelStep

\* The steps of a command whose outcome is known, or about to be.
LEMMA LateStep ==
    ASSUME NEW c \in Commands, CommandStep(c), pc[c] \in Decided \cup RollingBack \cup Answering
    PROVE  \/ FinishRejected(c) \/ DispatchReturns(c) \/ RollbackReturns(c) \/ RollbackRaises(c)
           \/ AfterRollback(c) \/ RecordAudit(c) \/ AfterAudit(c) \/ MutationReturns(c)
  BY DEF Decided, RollingBack, Answering, CommandStep, UserStep, KernelStep, Submit, SubmitInvalid,
         RouteMutation, RouteMutationRefused, RouteRead, AskConfirmation, ConfirmationUnsupported,
         StartMutation, DelegateExecution, AnswerConfirmation, EvaluatePolicy, AuthorizePermission,
         DenyPermission, EnforceDecision, AnswerApproval, Dispatch, DispatchUnknown, Execute,
         ExecuteReturns, ExecuteRaises

\* How a decided command goes on, whatever it has still to be recorded or published.
LEMMA CompleteEffect ==
    ASSUME TypeOK, NEW c \in Commands, NEW status, Complete(c, status)
    PROVE  /\ pc'[c] \in {"completed", "returned", "raised"}
           /\ \A e \in published[c] : e \in published'[c]
           /\ \A e \in published'[c] : e \in published[c] \/ e = "MutationCompleted"
  <1>1. CASE Publish(c, "MutationCompleted", "completed", "raised")
    BY <1>1, PublishEffect, WaitNames, EventNames
  <1>2. CASE Goto(c, "returned") /\ UNCHANGED published
    BY <1>2 DEF Goto, TypeOK
  <1> QED BY <1>1, <1>2 DEF Complete

LEMMA AuditEffect ==
    ASSUME TypeOK, NEW c \in Commands, NEW status, AuditThenComplete(c, status)
    PROVE  /\ pc'[c] \in {"auditing", "completed", "returned", "raised"}
           /\ pc'[c] = "auditing" => Meta(c).audit_required
           /\ pc'[c] \in {"completed", "returned"} => ~ Meta(c).audit_required
           /\ \A e \in published[c] : e \in published'[c]
           /\ \A e \in published'[c] : e \in published[c] \/ e = "MutationCompleted"
  <1>1. CASE Meta(c).audit_required
    BY <1>1 DEF AuditThenComplete, Goto, TypeOK
  <1>2. CASE ~ Meta(c).audit_required
    BY <1>2, CompleteEffect DEF AuditThenComplete
  <1> QED BY <1>1, <1>2

\* The four ways on of a command whose dispatch has ended.
LEMMA DispatchReturnsEffect ==
    ASSUME TypeOK, NEW c \in Commands, DispatchReturns(c)
    PROVE  /\ outcome'[c] = StatusOf(pc[c]) /\ trail' = trail /\ route' = route /\ held' = held
           /\ \A e \in published[c] : e \in published'[c]
           /\ \A e \in published'[c] : e \in published[c] \/ e = "MutationCompleted"
           /\ pc'[c] \in {"rolling_back", "auditing", "completed", "returned", "raised"}
           /\ pc'[c] = "auditing" => route[c] = "MUTATION" /\ Meta(c).audit_required
           /\ (pc'[c] \in {"completed", "returned"} /\ route[c] = "MUTATION") => ~ Meta(c).audit_required
           /\ (pc'[c] \in Answering /\ route[c] = "MUTATION") => ~ RollsBack(c, StatusOf(pc[c]))
  <1>1. /\ outcome'[c] = StatusOf(pc[c])
        /\ trail' = trail /\ route' = route /\ held' = held
    BY DEF DispatchReturns, lifecycle, TypeOK
  <1>2. CASE route[c] = "READ" /\ Goto(c, "returned") /\ UNCHANGED published
    BY <1>1, <1>2 DEF Goto, TypeOK
  <1>3. CASE Goto(c, "rolling_back") /\ UNCHANGED published
    BY <1>1, <1>3 DEF Goto, TypeOK, Answering
  <1>4. CASE route[c] = "MUTATION" /\ ~ RollsBack(c, StatusOf(pc[c])) /\ AuditThenComplete(c, StatusOf(pc[c]))
    BY <1>1, <1>4, AuditEffect
  <1> QED BY <1>1, <1>2, <1>3, <1>4 DEF DispatchReturns

-----------------------------------------------------------------------------
(***************************************************************************)
(* The audit trail.                                                        *)
(***************************************************************************)
Audited == {"audited", "completed", "returned", "raised"}
Record(c) == <<MutationStateOf(outcome[c])>>

\* A sink holds nothing of a command before "auditing" is over, and from then on
\* the record of the outcome, which no longer changes.
AuditInv(c) ==
    /\ \A s \in Sinks : trail[s][c] # << >> =>
          /\ pc[c] \in Audited
          /\ route[c] = "MUTATION" /\ Meta(c).audit_required
          /\ trail[s][c] = Record(c)
    /\ "AuditRecorded" \in published[c] =>
          pc[c] \in Audited /\ (Sinks # {} => \E s \in Sinks : trail[s][c] # << >>)
    /\ pc[c] \in {"auditing", "audited"} => Meta(c).audit_required
    /\ (pc[c] \in {"audited", "completed", "returned"} /\ route[c] = "MUTATION" /\ Meta(c).audit_required) =>
          \A s \in ReliableSinks : trail[s][c] = Record(c)

\* A step that leaves the trail alone, before the command is recorded.
LEMMA UnrecordedKeeps ==
    ASSUME NEW c \in Commands, AuditInv(c), pc[c] \notin Audited,
           trail' = trail,
           \A e \in published'[c] : e \in published[c] \/ e # "AuditRecorded",
           pc'[c] \in {"auditing", "audited"} => Meta(c)'.audit_required,
           (pc'[c] \in {"audited", "completed", "returned"} /\ route'[c] = "MUTATION") => ~ Meta(c)'.audit_required
    PROVE  AuditInv(c)'
  <1>1. \A s \in Sinks : trail'[s][c] = << >>
    BY DEF AuditInv
  <1>2. "AuditRecorded" \notin published'[c]
    BY DEF AuditInv
  <1> QED BY <1>1, <1>2 DEF AuditInv

\* A step that leaves the trail and the outcome alone, after the command is recorded.
LEMMA RecordedKeeps ==
    ASSUME NEW c \in Commands, AuditInv(c), pc[c] \in Audited \ {"raised"}, pc'[c] \in Audited \ {"audited"},
           UNCHANGED <<trail, outcome, route, held>>,
           \A e \in published'[c] : e \in published[c] \/ e # "AuditRecorded"
    PROVE  AuditInv(c)'
  <1>1. Record(c)' = Record(c) /\ Meta(c)' = Meta(c)
    BY DEF Record, Meta, MutationStateOf
  <1>2. \A s \in Sinks : trail'[s][c] = trail[s][c]
    OBVIOUS
  <1>3. pc[c] \in {"audited", "completed", "returned"}
    BY DEF Audited
  <1> QED BY <1>1, <1>2, <1>3 DEF AuditInv, Audited

LEMMA AuditStep ==
    ASSUME TypeOK, NEW c \in Commands, CommandInv(c), AuditInv(c), CommandStep(c)
    PROVE  AuditInv(c)'
  <1> USE DEF Decided, RollingBack, Answering, Audited, Reports
  <1>1. CASE pc[c] \notin Decided \cup RollingBack \cup Answering
    BY <1>1, EarlyStep, UnrecordedKeeps
  <1>2. CASE FinishRejected(c)
    <2>1. /\ trail' = trail /\ published' = published /\ Meta(c)' = Meta(c) /\ pc[c] = "rejected"
          /\ pc'[c] = IF Meta(c).audit_required THEN "auditing" ELSE "returned"
      BY <1>2 DEF FinishRejected, Goto, TypeOK, lifecycle, Meta
    <2> QED BY <2>1, UnrecordedKeeps
  <1>3. CASE DispatchReturns(c)
    <2>1. Meta(c)' = Meta(c)
      BY <1>3, DispatchReturnsEffect DEF Meta
    <2>2. pc[c] \in {"denied", "failed", "succeeded"}
      BY <1>3 DEF DispatchReturns
    <2> QED BY <1>3, <2>1, <2>2, DispatchReturnsEffect, UnrecordedKeeps
  <1>4. CASE RollbackReturns(c) \/ RollbackRaises(c)
    <2>1. /\ pc[c] \in RollingBack /\ pc'[c] \in RollingBack \cup {"raised"} /\ trail' = trail
          /\ \A e \in published'[c] : e \in published[c] \/ e \in Reports
      BY <1>4, PublishEffect, WaitNames, EventNames DEF RollbackReturns, RollbackRaises
    <2> QED BY <2>1, UnrecordedKeeps
  <1>5. CASE AfterRollback(c)
    <2>1. trail' = trail /\ Meta(c)' = Meta(c) /\ pc[c] \in RollingBack
      BY <1>5 DEF AfterRollback, lifecycle, Meta
    <2>2. /\ pc'[c] \in {"auditing", "completed", "returned", "raised"}
          /\ pc'[c] = "auditing" => Meta(c).audit_required
          /\ pc'[c] \in {"completed", "returned"} => ~ Meta(c).audit_required
          /\ \A e \in published'[c] : e \in published[c] \/ e = "MutationCompleted"
      BY <1>5, AuditEffect DEF AfterRollback
    <2> QED BY <2>1, <2>2, UnrecordedKeeps
  <1>6. CASE RecordAudit(c)
    <2>1. PICK failing \in SUBSET (Sinks \ ReliableSinks) :
              /\ trail' = [s \in Sinks |->
                     IF s \in failing THEN trail[s]
                     ELSE [trail[s] EXCEPT ![c] = Append(@, MutationStateOf(outcome[c]))]]
              /\ IF failing = Sinks /\ Sinks # {}
                 THEN Goto(c, "audited") /\ UNCHANGED published
                 ELSE Publish(c, "AuditRecorded", "audited", "audited")
      BY <1>6 DEF RecordAudit
    <2>2. pc[c] = "auditing" /\ UNCHANGED <<outcome, route, held>>
      BY <1>6 DEF RecordAudit, lifecycle
    <2>3. Record(c)' = Record(c) /\ Meta(c)' = Meta(c)
      BY <2>2 DEF Record, Meta, MutationStateOf
    <2>4. \A s \in Sinks : trail[s][c] = << >>
      BY <2>2 DEF AuditInv
    <2>5. \A s \in Sinks : trail'[s][c] = IF s \in failing THEN << >> ELSE Record(c)
      <3>1. \A s \in Sinks : trail[s] \in [Commands -> Seq({"COMPLETED", "REJECTED", "FAILED"})]
        BY DEF TypeOK
      <3>2. \A x : Append(<< >>, x) = <<x>>
        OBVIOUS
      <3>3. ASSUME NEW s \in Sinks, s \notin failing
            PROVE  trail'[s][c] = Append(trail[s][c], MutationStateOf(outcome[c]))
        BY <2>1, <3>1, <3>3
      <3>4. ASSUME NEW s \in Sinks, s \in failing PROVE trail'[s][c] = << >>
        BY <2>1, <2>4, <3>4
      <3>5. ASSUME NEW s \in Sinks, s \notin failing PROVE trail'[s][c] = Record(c)
        BY <2>4, <3>2, <3>3, <3>5 DEF Record
      <3> QED BY <3>4, <3>5
    <2>6. Record(c) # << >>
      BY DEF Record
    <2>7. route[c] = "MUTATION" /\ Meta(c).audit_required /\ "AuditRecorded" \notin published[c]
      BY <2>2 DEF AuditInv, CommandInv, LifecycleInv, InMutation
    <2>8. pc'[c] = "audited"
      BY <2>1, PublishEffect, WaitNames, EventNames DEF Goto, TypeOK
    <2>9. "AuditRecorded" \in published'[c] => ~ (failing = Sinks /\ Sinks # {})
      BY <2>1, <2>7
    <2>10. ReliableSinks \subseteq Sinks /\ failing \cap ReliableSinks = {} /\ failing \subseteq Sinks
      BY PipelineAssumption
    <2> HIDE DEF Record
    <2>11. \A s \in Sinks : trail'[s][c] # << >> =>
               /\ pc'[c] \in Audited /\ route'[c] = "MUTATION" /\ Meta(c)'.audit_required
               /\ trail'[s][c] = Record(c)'
      BY <2>2, <2>3, <2>5, <2>7, <2>8
    <2>12. "AuditRecorded" \in published'[c] => (Sinks # {} => \E s \in Sinks : trail'[s][c] # << >>)
      BY <2>5, <2>6, <2>9, <2>10
    <2>13. \A s \in ReliableSinks : trail'[s][c] = Record(c)'
      BY <2>3, <2>5, <2>10
    <2> QED BY <2>2, <2>3, <2>7, <2>8, <2>11, <2>12, <2>13 DEF AuditInv
  <1>7. CASE AfterAudit(c)
    <2>1. pc[c] = "audited" /\ UNCHANGED <<trail, outcome, route, held>>
      BY <1>7 DEF AfterAudit, lifecycle
    <2>2. /\ pc'[c] \in {"completed", "returned", "raised"}
          /\ \A e \in published'[c] : e \in published[c] \/ e = "MutationCompleted"
      BY <1>7, CompleteEffect DEF AfterAudit
    <2> QED BY <2>1, <2>2, RecordedKeeps
  <1>8. CASE MutationReturns(c)
    <2>1. /\ pc[c] = "completed" /\ pc'[c] = "returned" /\ published' = published
          /\ UNCHANGED <<trail, outcome, route, held>>
      BY <1>8 DEF MutationReturns, lifecycle, Goto, TypeOK
    <2> QED BY <2>1, RecordedKeeps
  <1>9. (pc[c] \in Decided \cup RollingBack \cup Answering) =>
            \/ FinishRejected(c) \/ DispatchReturns(c) \/ RollbackReturns(c) \/ RollbackRaises(c)
            \/ AfterRollback(c) \/ RecordAudit(c) \/ AfterAudit(c) \/ MutationReturns(c)
    BY LateStep
  <1> QED BY <1>1, <1>2, <1>3, <1>4, <1>5, <1>6, <1>7, <1>8, <1>9

-----------------------------------------------------------------------------
(***************************************************************************)
(* The report of a rollback.                                               *)
(***************************************************************************)
Reported(c) == \E e \in Reports : e \in published[c]
ReportedOnce(c) == \A e, f \in Reports : {e, f} \subseteq published[c] => e = f

\* The waits that follow the report of a rollback.
Reporting == {"rolled_back", "rollback_failed"}

\* A rollback is reported before the coroutine goes on; on a bus that loses nothing
\* it is reported once, for nothing is reported before.
RollbackInv(c) ==
    /\ pc[c] \in Reporting => Reported(c)
    /\ (pc[c] \in Answering /\ route[c] = "MUTATION" /\ RollsBack(c, outcome[c])) => Reported(c)
    /\ ~ MiddlewareMayRaise => ReportedOnce(c)
    /\ (~ MiddlewareMayRaise /\ pc[c] \notin Reporting \cup Answering \cup {"raised"}) => ~ Reported(c)

\* Without a middleware that raises a publish only moves forward.
LEMMA PublishIsReliable ==
    ASSUME TypeOK, ~ MiddlewareMayRaise, NEW c \in Commands, NEW e, NEW next, NEW handler,
           Publish(c, e, next, handler)
    PROVE  pc'[c] = next
  BY DEF Publish, Goto, TypeOK

\* A step that reports nothing and is not owed a report.
LEMMA UnreportedKeeps ==
    ASSUME NEW c \in Commands, RollbackInv(c),
           \A e \in Reports : e \in published'[c] <=> e \in published[c],
           pc'[c] \notin Reporting,
           (pc'[c] \in Answering /\ route'[c] = "MUTATION" /\ RollsBack(c, outcome[c])') => Reported(c),
           pc[c] \in Reporting \cup Answering \cup {"raised"} => pc'[c] \in Answering \cup {"raised"}
    PROVE  RollbackInv(c)'
  <1>1. Reported(c)' <=> Reported(c)
    BY DEF Reported
  <1>2. ReportedOnce(c)' <=> ReportedOnce(c)
    BY DEF ReportedOnce
  <1>3. Reports' = Reports /\ Answering' = Answering /\ Reporting' = Reporting
    BY DEF Reports, Answering, Reporting
  <1> HIDE DEF Reports, Answering, Reporting
  <1> QED BY <1>1, <1>2, <1>3 DEF RollbackInv

LEMMA RollbackStep ==
    ASSUME TypeOK, NEW c \in Commands, CommandInv(c), RollbackInv(c), CommandStep(c)
    PROVE  RollbackInv(c)'
  <1> USE DEF Decided, RollingBack, Answering, Reporting
  <1>1. CASE pc[c] \notin Decided \cup RollingBack \cup Answering
    <2>1. \A e \in Reports : e \in published'[c] <=> e \in published[c]
      BY <1>1, EarlyStep
    <2> QED BY <1>1, <2>1, EarlyStep, UnreportedKeeps
  <1>2. CASE FinishRejected(c)
    <2>1. /\ published' = published /\ pc[c] = "rejected" /\ pc'[c] \in {"auditing", "returned"}
          /\ outcome'[c] = "DENIED"
      BY <1>2 DEF FinishRejected, Goto, TypeOK
    <2>2. ~ RollsBack(c, outcome[c])'
      BY <2>1 DEF RollsBack
    <2> QED BY <2>1, <2>2, UnreportedKeeps
  <1>3. CASE DispatchReturns(c)
    <2>1. pc[c] \in {"denied", "failed", "succeeded"}
      BY <1>3 DEF DispatchReturns
    <2>2. RollsBack(c, outcome[c])' <=> RollsBack(c, StatusOf(pc[c]))
      BY <1>3, DispatchReturnsEffect DEF RollsBack, Meta
    <2>3. \A e \in Reports : e \in published'[c] <=> e \in published[c]
      BY <1>3, DispatchReturnsEffect DEF Reports
    <2> QED BY <1>3, <2>1, <2>2, <2>3, DispatchReturnsEffect, UnreportedKeeps
  <1>4. CASE RollbackReturns(c)
    <2>1. /\ pc[c] = "rolling_back" /\ Publish(c, "MutationRolledBack", "rolled_back", "rollback_error")
          /\ UNCHANGED <<outcome, route, held>>
      BY <1>4 DEF RollbackReturns, lifecycle
    <2>2. /\ pc'[c] \in {"rolled_back", "rollback_error"}
          /\ pc'[c] = "rolled_back" => "MutationRolledBack" \in published'[c]
          /\ \A e \in published'[c] : e \in published[c] \/ e = "MutationRolledBack"
          /\ ~ MiddlewareMayRaise => pc'[c] = "rolled_back"
      BY <2>1, PublishEffect, PublishIsReliable, WaitNames, EventNames
    <2>3. pc'[c] \in Reporting => Reported(c)'
      BY <2>2 DEF Reported, Reports
    <2>4. ~ MiddlewareMayRaise => ReportedOnce(c)'
      BY <2>1, <2>2 DEF RollbackInv, Reported, ReportedOnce, Reports
    <2>5. ~ MiddlewareMayRaise => pc'[c] \in Reporting
      BY <2>2
    <2> QED BY <2>2, <2>3, <2>4, <2>5 DEF RollbackInv
  <1>5. CASE RollbackRaises(c)
    <2>1. /\ pc[c] \in {"rolling_back", "rollback_error"}
          /\ Publish(c, "RollbackFailed", "rollback_failed", "raised")
      BY <1>5 DEF RollbackRaises
    <2>2. /\ pc'[c] \in {"rollback_failed", "raised"}
          /\ pc'[c] = "rollback_failed" => "RollbackFailed" \in published'[c]
          /\ \A e \in published'[c] : e \in published[c] \/ e = "RollbackFailed"
      BY <2>1, PublishEffect, WaitNames, EventNames
    <2>3. pc'[c] \in Reporting => Reported(c)'
      BY <2>2 DEF Reported, Reports
    <2>4. ~ MiddlewareMayRaise => ReportedOnce(c)'
      BY <2>1, <2>2 DEF RollbackInv, Reported, ReportedOnce, Reports
    <2> QED BY <2>2, <2>3, <2>4 DEF RollbackInv
  <1>6. CASE AfterRollback(c)
    <2>1. pc[c] \in Reporting
      BY <1>6 DEF AfterRollback
    <2>2. /\ pc'[c] \in {"auditing", "completed", "returned", "raised"}
          /\ \A e \in Reports : e \in published'[c] <=> e \in published[c]
      BY <1>6, AuditEffect DEF AfterRollback, Reports
    <2>3. Reported(c)
      BY <2>1 DEF RollbackInv
    <2> QED BY <2>1, <2>2, <2>3, UnreportedKeeps
  <1>7. CASE RecordAudit(c) \/ AfterAudit(c) \/ MutationReturns(c)
    <2>1. /\ pc[c] \in {"auditing", "audited", "completed"}
          /\ UNCHANGED <<outcome, route, held>>
      BY <1>7 DEF RecordAudit, AfterAudit, MutationReturns, lifecycle
    <2>2. /\ pc'[c] \in Answering \cup {"raised"}
          /\ \A e \in Reports : e \in published'[c] <=> e \in published[c]
      <3>1. CASE RecordAudit(c)
        BY <3>1, PublishEffect, WaitNames, EventNames DEF RecordAudit, Goto, TypeOK, Reports
      <3>2. CASE AfterAudit(c)
        BY <3>2, CompleteEffect DEF AfterAudit, Reports
      <3>3. CASE MutationReturns(c)
        BY <3>3 DEF MutationReturns, Goto, TypeOK, Reports
      <3> QED BY <1>7, <3>1, <3>2, <3>3
    <2>3. RollsBack(c, outcome[c])' <=> RollsBack(c, outcome[c])
      BY <2>1 DEF RollsBack, Meta
    <2>4. (route[c] = "MUTATION" /\ RollsBack(c, outcome[c])) => Reported(c)
      BY <2>1 DEF RollbackInv
    <2> QED BY <2>1, <2>2, <2>3, <2>4, UnreportedKeeps
  <1>8. (pc[c] \in Decided \cup RollingBack \cup Answering) =>
            \/ FinishRejected(c) \/ DispatchReturns(c) \/ RollbackReturns(c) \/ RollbackRaises(c)
            \/ AfterRollback(c) \/ RecordAudit(c) \/ AfterAudit(c) \/ MutationReturns(c)
    BY LateStep
  <1> QED BY <1>1, <1>2, <1>3, <1>4, <1>5, <1>6, <1>7, <1>8

-----------------------------------------------------------------------------
(***************************************************************************)
(* The phase of a command.                                                 *)
(***************************************************************************)
Authorized(c) == "ExecutionAuthorized" \in published[c]

\* A capability runs between "dispatched" and "executing", after the authorization
\* was announced; a failure was authorized, a success has run.
PhaseInv(c) ==
    /\ pc[c] \in {"authorized", "dispatched", "dispatch_error"} => ran[c] = None
    /\ pc[c] = "dispatched" => target[c] # None
    /\ pc[c] \in {"executing", "succeeded"} => ran[c] # None
    /\ pc[c] = "failed" => Authorized(c)
    /\ outcome[c] = "FAILED" => Authorized(c)
    /\ outcome[c] = "SUCCEEDED" => ran[c] # None

\* Where a step of a command may leave it, and what it changes for the caller.
\* Before the dispatch has ended.
LEMMA PhaseStepEarly ==
    ASSUME TypeOK, NEW c \in Commands, CommandInv(c), PhaseInv(c), CommandStep(c),
           pc[c] \notin Decided \cup RollingBack \cup Answering
    PROVE  PhaseInv(c)'
  <1> USE DEF Decided, RollingBack, Answering, PhaseInv, Authorized, Permitted, Undecided,
              CommandInv, AuthorityInv, lifecycle, permission, runtime
  <1>o. outcome' = outcome /\ \A e \in published[c] : e \in published'[c]
    BY EarlyStep
  <1>u. pc[c] \in Undecided \cup Permitted
    BY EarlyStep DEF TypeOK, Waits
  <1>n. outcome[c] = None
    BY <1>u DEF ClosingInv, StillOpen
  <1>q. outcome'[c] = None /\ None \notin {"FAILED", "SUCCEEDED"}
    BY <1>o, <1>n, PipelineAssumption DEF TypeOK
  <1>1. CASE Submit(c) \/ RouteMutation(c) \/ RouteRead(c)
    BY <1>1, <1>q, PublishEffect, WaitNames, EventNames
       DEF Submit, RouteMutation, RouteRead, RequestPermission
  <1>2. CASE SubmitInvalid(c) \/ RouteMutationRefused(c) \/ AskConfirmation(c)
    BY <1>2, <1>q DEF SubmitInvalid, RouteMutationRefused, AskConfirmation, Goto, TypeOK
  <1>3. CASE ConfirmationUnsupported(c) \/ StartMutation(c) \/ DelegateExecution(c)
    BY <1>3, <1>q, PublishEffect, WaitNames, EventNames
       DEF ConfirmationUnsupported, RejectMutation, StartMutation, DelegateExecution, RequestPermission
  <1>4. CASE AnswerConfirmation(c)
    BY <1>4, <1>q, PublishEffect, WaitNames, EventNames DEF AnswerConfirmation, RejectMutation
  <1>5. CASE EvaluatePolicy(c) \/ AuthorizePermission(c) \/ DenyPermission(c)
    BY <1>5, <1>q, PublishEffect, WaitNames, EventNames
       DEF EvaluatePolicy, AuthorizePermission, DenyPermission
  <1>6. CASE EnforceDecision(c)
    <2>1. ran[c] = None /\ ran' = ran
      BY <1>6 DEF EnforceDecision
    <2>2. CASE PublishAuthorized(c) \/ PublishDenial(c)
      BY <2>1, <2>2, <1>q, PublishEffect, WaitNames, EventNames DEF PublishAuthorized, PublishDenial
    <2>3. CASE Goto(c, "approving")
      BY <2>1, <2>3, <1>q DEF Goto, TypeOK
    <2> QED BY <1>6, <2>2, <2>3 DEF EnforceDecision
  <1>7. CASE AnswerApproval(c)
    BY <1>7, <1>q, PublishEffect, WaitNames, EventNames DEF AnswerApproval, PublishAuthorized, PublishDenial
  <1>8. CASE Dispatch(c)
    <2>1. target'[c] # None /\ ran' = ran /\ ran[c] = None
      BY <1>8 DEF Dispatch, TypeOK
    <2>2. pc'[c] \in {"dispatched", "dispatch_error"}
      BY <1>8, PublishEffect, WaitNames, EventNames DEF Dispatch
    <2> QED BY <2>1, <2>2, <1>q
  <1>9. CASE DispatchUnknown(c) \/ ExecuteRaises(c)
    <2>1. Authorized(c)' /\ pc'[c] \in {"failed", "raised"}
      BY <1>9, <1>o, PublishEffect, WaitNames, EventNames DEF DispatchUnknown, ExecuteRaises, PublishFailure
    <2> QED BY <2>1, <1>q
  <1>10. CASE Execute(c)
    <2>1. ran'[c] = target[c] /\ target[c] # None /\ pc'[c] = "executing"
      BY <1>10 DEF Execute, Goto, TypeOK
    <2> QED BY <2>1, <1>q
  <1>11. CASE ExecuteReturns(c)
    <2>1. ran'[c] = ran[c] /\ ran[c] # None /\ pc'[c] \in {"succeeded", "raised"}
      BY <1>11, PublishEffect, WaitNames, EventNames DEF ExecuteReturns
    <2> QED BY <2>1, <1>q
  <1>12. ~ (\/ FinishRejected(c) \/ DispatchReturns(c) \/ RollbackReturns(c) \/ RollbackRaises(c)
            \/ AfterRollback(c) \/ RecordAudit(c) \/ AfterAudit(c) \/ MutationReturns(c))
    BY DEF FinishRejected, DispatchReturns, RollbackReturns, RollbackRaises, AfterRollback, RecordAudit,
           AfterAudit, MutationReturns
  <1> QED
    BY <1>1, <1>2, <1>3, <1>4, <1>5, <1>6, <1>7, <1>8, <1>9, <1>10, <1>11, <1>12
       DEF CommandStep, UserStep, KernelStep

\* After the outcome is known nothing runs and nothing is authorized any more.
LEMMA LateEffect ==
    ASSUME TypeOK, NEW c \in Commands, CommandStep(c), pc[c] \in Decided \cup RollingBack \cup Answering
    PROVE  /\ ran' = ran /\ pc'[c] \in RollingBack \cup Answering \cup {"raised"}
           /\ Authorized(c)' <=> Authorized(c)
           /\ pc[c] \in RollingBack \cup Answering => outcome' = outcome
  <1> USE DEF RollingBack, Answering, Authorized, runtime
  <1>1. CASE FinishRejected(c)
    BY <1>1 DEF FinishRejected, Goto, TypeOK
  <1>2. CASE DispatchReturns(c)
    <2>1. ran' = ran /\ pc[c] \notin RollingBack \cup Answering
      BY <1>2 DEF DispatchReturns
    <2> QED BY <1>2, <2>1, DispatchReturnsEffect
  <1>3. CASE RollbackReturns(c) \/ RollbackRaises(c)
    BY <1>3, PublishEffect, WaitNames, EventNames DEF RollbackReturns, RollbackRaises
  <1>4. CASE AfterRollback(c)
    BY <1>4, AuditEffect DEF AfterRollback
  <1>5. CASE RecordAudit(c)
    BY <1>5, PublishEffect, WaitNames, EventNames DEF RecordAudit, Goto, TypeOK
  <1>6. CASE AfterAudit(c)
    BY <1>6, CompleteEffect DEF AfterAudit
  <1>7. CASE MutationReturns(c)
    BY <1>7 DEF MutationReturns, Goto, TypeOK
  <1> QED BY LateStep, <1>1, <1>2, <1>3, <1>4, <1>5, <1>6, <1>7

LEMMA PhaseStep ==
    ASSUME TypeOK, NEW c \in Commands, CommandInv(c), PhaseInv(c), CommandStep(c)
    PROVE  PhaseInv(c)'
  <1>1. CASE pc[c] \notin Decided \cup RollingBack \cup Answering
    BY <1>1, PhaseStepEarly
  <1>2. CASE pc[c] \in Decided \cup RollingBack \cup Answering
    <2>1. /\ outcome'[c] = "FAILED" => Authorized(c)
          /\ outcome'[c] = "SUCCEEDED" => ran[c] # None
      <3>1. CASE FinishRejected(c)
        BY <3>1 DEF FinishRejected, TypeOK
      <3>2. CASE DispatchReturns(c)
        <4>1. outcome'[c] = StatusOf(pc[c]) /\ pc[c] \in {"denied", "failed", "succeeded"}
          BY <3>2, DispatchReturnsEffect DEF DispatchReturns
        <4> QED BY <4>1 DEF StatusOf, PhaseInv
      <3>3. CASE outcome' = outcome
        BY <3>3 DEF PhaseInv
      <3> QED
        BY <1>2, <3>1, <3>2, <3>3, LateStep DEF RollbackReturns, RollbackRaises, AfterRollback, RecordAudit,
           AfterAudit, MutationReturns
    <2> QED BY <1>2, <2>1, LateEffect DEF PhaseInv, RollingBack, Answering
  <1> QED BY <1>1, <1>2

-----------------------------------------------------------------------------
(***************************************************************************)
(* The invariant.                                                          *)
(***************************************************************************)
AnswerInv == IInv /\ \A c \in Commands : AuditInv(c) /\ RollbackInv(c) /\ PhaseInv(c)

LEMMA OthersKeep ==
    ASSUME NEW d \in Commands, Untouched(d), \A s \in Sinks : trail'[s][d] = trail[s][d],
           AuditInv(d), RollbackInv(d), PhaseInv(d)
    PROVE  AuditInv(d)' /\ RollbackInv(d)' /\ PhaseInv(d)'
  <1>1. Record(d)' = Record(d) /\ Meta(d)' = Meta(d)
    BY DEF Untouched, Record, Meta, MutationStateOf
  <1>2. AuditInv(d)'
    BY <1>1, PipelineAssumption DEF Untouched, AuditInv, Audited
  <1>3. RollbackInv(d)'
    BY <1>1 DEF Untouched, RollbackInv, RollsBack, Reported, ReportedOnce, Reports, Answering, Reporting
  <1>4. PhaseInv(d)'
    BY DEF Untouched, PhaseInv, Authorized
  <1> QED BY <1>2, <1>3, <1>4

LEMMA TrailOfOthers ==
    ASSUME TypeOK, NEW c \in Commands, CommandStep(c), NEW d \in Commands \ {c}, NEW s \in Sinks
    PROVE  trail'[s][d] = trail[s][d]
  <1>1. CASE pc[c] \notin Decided \cup RollingBack \cup Answering
    BY <1>1, EarlyStep
  <1>2. CASE RecordAudit(c)
    <2>1. trail[s] \in [Commands -> Seq({"COMPLETED", "REJECTED", "FAILED"})]
      BY DEF TypeOK
    <2> QED BY <1>2, <2>1 DEF RecordAudit
  <1>3. CASE \/ FinishRejected(c) \/ DispatchReturns(c) \/ RollbackReturns(c) \/ RollbackRaises(c)
             \/ AfterRollback(c) \/ AfterAudit(c) \/ MutationReturns(c)
    BY <1>3 DEF FinishRejected, DispatchReturns, RollbackReturns, RollbackRaises, AfterRollback, AfterAudit,
                MutationReturns
  <1> QED BY <1>1, <1>2, <1>3, LateStep

LEMMA AnswerInit == Init => AnswerInv
  <1> SUFFICES ASSUME Init PROVE AnswerInv
    OBVIOUS
  <1>1. ASSUME NEW c \in Commands PROVE AuditInv(c) /\ RollbackInv(c) /\ PhaseInv(c)
    BY PipelineAssumption
       DEF Init, AuditInv, RollbackInv, PhaseInv, Reported, ReportedOnce, Reporting, Answering, Authorized
  <1> QED BY <1>1, InitInv DEF AnswerInv

LEMMA AnswerStep == AnswerInv /\ [Next]_vars => AnswerInv'
  <1> SUFFICES ASSUME AnswerInv, [Next]_vars PROVE AnswerInv'
    OBVIOUS
  <1>1. IInv' /\ TypeOK
    BY NextInv DEF AnswerInv, IInv
  <1>2. ASSUME NEW c \in Commands, CommandStep(c), NEW d \in Commands
        PROVE  AuditInv(d)' /\ RollbackInv(d)' /\ PhaseInv(d)'
    <2>1. CASE d = c
      BY <1>1, <1>2, <2>1, AuditStep, RollbackStep, PhaseStep DEF AnswerInv, IInv
    <2>2. CASE d # c
      BY <1>1, <1>2, <2>2, OthersUntouched, TrailOfOthers, OthersKeep DEF AnswerInv
    <2> QED BY <2>1, <2>2
  <1>3. ASSUME UNCHANGED commandVars, NEW d \in Commands
        PROVE  AuditInv(d)' /\ RollbackInv(d)' /\ PhaseInv(d)'
    BY <1>3, OthersKeep DEF AnswerInv, commandVars, inputs, lifecycle, permission, runtime, Untouched
  <1> QED
    BY <1>1, <1>2, <1>3 DEF Next, RegisterCapability, UnregisterCapability, LoadSecurityPolicy, vars, AnswerInv

LEMMA AnswerInvHolds == Spec => []AnswerInv
  BY AnswerInit, AnswerStep, PTL DEF Spec

-----------------------------------------------------------------------------
(***************************************************************************)
(* The order of policies.                                                  *)
(***************************************************************************)
LEMMA HasLeast ==
    ASSUME NEW S \in SUBSET Nat, S # {}
    PROVE  \E n \in S : \A m \in S : n <= m
  <1> DEFINE Less == {p \in Nat \X Nat : p[1] < p[2]}
  <1>1. IsWellFoundedOn(Less, Nat)
    BY NatLessThanWellFounded DEF OpToRel
  <1>2. PICK n \in S : \A m \in S : ~ (<<m, n>> \in Less)
    BY <1>1, WFMin
  <1>3. \A m \in S : ~ (m < n) /\ m \in Nat /\ n \in Nat
    BY <1>2
  <1> QED BY <1>3

\* The first policy that names a capability stays the first when others are added
\* behind it.
LEMMA LeastOfLonger ==
    ASSUME NEW n \in Nat, NEW S \in SUBSET (1..n), S # {}, NEW T \in SUBSET {n + 1}
    PROVE  Least(S \cup T) = Least(S) /\ Least(S) \in S
  <1>1. PICK k \in S : \A m \in S : k <= m
    BY HasLeast
  <1>2. \A m \in T : k <= m
    BY <1>1
  <1>3. \A j \in S : (\A m \in S : j <= m) => j = k
    BY <1>1
  <1>4. \A j \in S \cup T : (\A m \in S \cup T : j <= m) => j = k
    BY <1>1, <1>2
  <1>5. Least(S) = k
    BY <1>1, <1>3 DEF Least
  <1>6. Least(S \cup T) = k
    BY <1>1, <1>2, <1>4 DEF Least
  <1> QED BY <1>5, <1>6

LEMMA AppendedPolicy ==
    ASSUME policies \in Seq(Policies), NEW p \in Policies, policies' = Append(policies, p),
           NEW k \in CapabilityIds, Covered(k)
    PROVE  \A t \in TrustLevel : Evaluate(k, t)' = Evaluate(k, t)
  <1> DEFINE n == Len(policies)
             S == {i \in DOMAIN policies : Matches(i, k) # {}}
             T == {i \in {n + 1} : Matches(i, k)' # {}}
  <1>1. /\ n \in Nat /\ DOMAIN policies = 1..n /\ DOMAIN policies' = 1..(n + 1)
        /\ \A i \in 1..n : policies'[i] = policies[i]
    OBVIOUS
  <1>2. \A i \in 1..n : Matches(i, k)' = Matches(i, k)
    BY <1>1 DEF Matches
  <1>3. {i \in DOMAIN policies' : Matches(i, k)' # {}} = S \cup T
    <2>1. 1..(n + 1) = (1..n) \cup {n + 1}
      BY <1>1
    <2> QED BY <1>1, <1>2, <2>1
  <1>4. S \subseteq 1..n /\ S # {} /\ T \subseteq {n + 1}
    BY <1>1 DEF Covered
  <1> HIDE DEF S, T, n
  <1>5. Least(S \cup T) = Least(S) /\ Least(S) \in 1..n
    BY <1>1, <1>4, LeastOfLonger
  <1>6. Covered(k)'
    BY <1>1, <1>2, <1>4 DEF Covered, S
  <1>7. FindRequirement(k)' = FindRequirement(k)
    <2>1. PICK i \in 1..n : i = Least(S) /\ i = Least(S \cup T)
      BY <1>5
    <2>2. FindRequirement(k) = policies[i].requirements[Least(Matches(i, k))]
      BY <2>1 DEF FindRequirement, S
    <2>3. Least({j \in DOMAIN policies' : Matches(j, k)' # {}}) = i
      BY <1>3, <2>1
    <2>4. FindRequirement(k)' = policies'[i].requirements[Least(Matches(i, k)')]
      BY <2>3 DEF FindRequirement
    <2> QED BY <1>1, <1>2, <2>2, <2>4
  <1> QED BY <1>6, <1>7 DEF Evaluate

-----------------------------------------------------------------------------
(***************************************************************************)
(* The refinement.                                                         *)
(***************************************************************************)
LEMMA BarInit == Init => Guarded!GuardedInit
  BY PipelineAssumption DEF Init, Guarded!GuardedInit, phaseBar, answerBar

\* The phase of one command and its answer.
PhaseOf(c) ==
    IF pc[c] = "idle" THEN "new"
    ELSE IF pc[c] = "returned" THEN "done"
    ELSE IF pc[c] = "raised" THEN "raised"
    ELSE IF ran[c] # None THEN "running"
    ELSE IF Authorized(c) THEN "permitted"
    ELSE "pending"

AnswerOf(c) == IF pc[c] = "returned" THEN outcome[c] ELSE None

LEMMA BarMoves ==
    ASSUME TypeOK, NEW c \in Commands, CommandStep(c)
    PROVE  /\ phaseBar[c] = PhaseOf(c) /\ answerBar[c] = AnswerOf(c)
           /\ phaseBar' = [phaseBar EXCEPT ![c] = PhaseOf(c)']
           /\ answerBar' = [answerBar EXCEPT ![c] = AnswerOf(c)']
  <1>1. \A d \in Commands \ {c} : Untouched(d)
    BY OthersUntouched
  <1>2. phaseBar = [d \in Commands |-> PhaseOf(d)] /\ answerBar = [d \in Commands |-> AnswerOf(d)]
    BY DEF phaseBar, answerBar, PhaseOf, AnswerOf, Authorized
  <1>3. /\ phaseBar' = [d \in Commands |-> PhaseOf(d)']
        /\ answerBar' = [d \in Commands |-> AnswerOf(d)']
    BY DEF phaseBar, answerBar, PhaseOf, AnswerOf, Authorized
  <1>4. \A d \in Commands \ {c} : PhaseOf(d)' = PhaseOf(d) /\ AnswerOf(d)' = AnswerOf(d)
    BY <1>1 DEF Untouched, PhaseOf, AnswerOf, Authorized
  <1> QED BY <1>2, <1>3, <1>4

\* A command is authorized before it runs, and runs once.
LEMMA EarlyPhase ==
    ASSUME TypeOK, NEW c \in Commands, CommandInv(c), PhaseInv(c), CommandStep(c),
           pc[c] \notin Decided \cup RollingBack \cup Answering
    PROVE  /\ pc'[c] # "idle"
           /\ Authorized(c) => Authorized(c)'
           /\ pc[c] = "idle" => ~ Authorized(c)' /\ ran'[c] = None
           /\ ran'[c] = ran[c] \/ (Authorized(c) /\ ran[c] = None)
  <1> USE DEF Authorized, lifecycle, permission, runtime
  <1>0. /\ pc[c] = "idle" => ~ Authorized(c) /\ ran[c] = None
        /\ Authorized(c) => Authorized(c)'
    BY EarlyStep DEF CommandInv, AuthorityInv, Undecided
  <1>1. CASE Submit(c)
    BY <1>1, <1>0, PublishEffect, WaitNames, EventNames DEF Submit
  <1>2. CASE SubmitInvalid(c)
    BY <1>2, <1>0 DEF SubmitInvalid, Goto, TypeOK
  <1>3. CASE Execute(c)
    BY <1>3, <1>0 DEF Execute, Goto, TypeOK, CommandInv, AuthorityInv, Permitted, PhaseInv
  <1>4. CASE ~ (Submit(c) \/ SubmitInvalid(c) \/ Execute(c))
    <2>1. pc[c] # "idle" /\ ran' = ran
      BY <1>4, LateEffect DEF CommandStep, UserStep, KernelStep, RouteMutation, RouteMutationRefused,
         RouteRead, AskConfirmation, ConfirmationUnsupported, StartMutation, DelegateExecution,
         AnswerConfirmation, EvaluatePolicy, AuthorizePermission, DenyPermission, EnforceDecision,
         AnswerApproval, Dispatch, DispatchUnknown, ExecuteReturns, ExecuteRaises, FinishRejected,
         DispatchReturns, RollbackReturns, RollbackRaises, AfterRollback, RecordAudit, AfterAudit,
         MutationReturns
    <2> QED BY <1>0, <2>1, EarlyStep
  <1> QED BY <1>1, <1>2, <1>3, <1>4

LEMMA GuardedStep ==
    ASSUME AnswerInv, AnswerInv', NEW c \in Commands, CommandStep(c)
    PROVE  [Guarded!GuardedNext]_<<phaseBar, answerBar>>
  <1> USE DEF Guarded!GuardedNext, Guarded!Accept, Guarded!Permit, Guarded!Run, Guarded!Answer,
              Guarded!Raise, Guarded!Move
  <1>i. TypeOK /\ CommandInv(c) /\ PhaseInv(c) /\ CommandInv(c)' /\ PhaseInv(c)'
    BY DEF AnswerInv, IInv
  <1>b. /\ phaseBar[c] = PhaseOf(c) /\ answerBar[c] = AnswerOf(c)
        /\ phaseBar' = [phaseBar EXCEPT ![c] = PhaseOf(c)']
        /\ answerBar' = [answerBar EXCEPT ![c] = AnswerOf(c)']
    BY <1>i, BarMoves
  <1>d. /\ phaseBar = [d \in Commands |-> phaseBar[d]]
        /\ answerBar = [d \in Commands |-> answerBar[d]]
    BY DEF phaseBar, answerBar
  <1>p. PhaseOf(c)' = PhaseOf(c) => phaseBar' = phaseBar
    BY <1>b, <1>d
  <1>a. AnswerOf(c)' = AnswerOf(c) => answerBar' = answerBar
    BY <1>b, <1>d
  <1>s. (PhaseOf(c)' = PhaseOf(c) /\ AnswerOf(c)' = AnswerOf(c)) =>
            UNCHANGED <<phaseBar, answerBar>>
    BY <1>p, <1>a
  <1>1. CASE pc[c] \notin Decided \cup RollingBack \cup Answering
    <2>1. /\ pc[c] # "raised" /\ pc[c] # "returned" /\ pc'[c] # "returned" /\ pc'[c] # "idle"
          /\ Authorized(c) => Authorized(c)'
          /\ pc[c] = "idle" => ~ Authorized(c)' /\ ran'[c] = None
          /\ ran'[c] = ran[c] \/ (Authorized(c) /\ ran[c] = None)
      BY <1>1, <1>i, EarlyPhase, EarlyStep DEF Answering
    <2>2. AnswerOf(c) = None /\ AnswerOf(c)' = None
      BY <2>1 DEF AnswerOf
    <2>3. \/ PhaseOf(c)' = PhaseOf(c)
          \/ PhaseOf(c)' = "raised" /\ PhaseOf(c) \notin {"done", "raised"}
          \/ PhaseOf(c) = "new" /\ PhaseOf(c)' = "pending"
          \/ PhaseOf(c) = "pending" /\ PhaseOf(c)' = "permitted"
          \/ PhaseOf(c) = "permitted" /\ PhaseOf(c)' = "running"
      BY <2>1 DEF PhaseOf
    <2> QED BY <2>2, <2>3, <1>b, <1>a, <1>s
  <1>2. CASE pc[c] \in Decided \cup RollingBack \cup Answering
    <2>1. /\ pc[c] \notin {"idle", "returned", "raised"}
          /\ pc'[c] \notin {"idle"}
          /\ ran' = ran /\ (Authorized(c)' <=> Authorized(c))
      <3>1. pc[c] # "returned"
        BY <1>2, LateStep DEF FinishRejected, DispatchReturns, RollbackReturns, RollbackRaises, AfterRollback,
           RecordAudit, AfterAudit, MutationReturns
      <3> QED BY <1>2, <1>i, <3>1, LateEffect DEF Decided, RollingBack, Answering
    <2>2. CASE pc'[c] # "returned"
      <3>1. AnswerOf(c) = None /\ AnswerOf(c)' = None
        BY <2>1, <2>2 DEF AnswerOf
      <3>2. \/ PhaseOf(c)' = PhaseOf(c)
            \/ PhaseOf(c)' = "raised" /\ PhaseOf(c) \notin {"done", "raised"}
        BY <2>1, <2>2 DEF PhaseOf
      <3> QED BY <3>1, <3>2, <1>b, <1>a, <1>s
    <2>3. CASE pc'[c] = "returned"
      <3>1. PhaseOf(c)' = "done" /\ AnswerOf(c)' = outcome'[c]
        BY <2>3 DEF PhaseOf, AnswerOf
      <3>2. \/ outcome'[c] = "DENIED" /\ PhaseOf(c) = "pending"
            \/ outcome'[c] = "FAILED" /\ PhaseOf(c) \in {"permitted", "running"}
            \/ outcome'[c] = "SUCCEEDED" /\ PhaseOf(c) = "running"
        <4>1. outcome'[c] \in {"DENIED", "FAILED", "SUCCEEDED"}
          BY <2>3, <1>i DEF AnswerInv, IInv, TypeOK, ExecutionOutcomeStatus, CommandInv, ClosingInv
        <4>2. outcome'[c] = "DENIED" => ~ Authorized(c) /\ ran[c] = None
          BY <2>1, <1>i DEF CommandInv, AuthorityInv, Authorized
        <4>3. outcome'[c] = "FAILED" => Authorized(c)
          BY <2>1, <1>i DEF PhaseInv
        <4>4. outcome'[c] = "SUCCEEDED" => ran[c] # None
          BY <2>1, <1>i DEF PhaseInv
        <4> QED BY <2>1, <4>1, <4>2, <4>3, <4>4 DEF PhaseOf
      <3> QED BY <3>1, <3>2, <1>b
    <2> QED BY <2>2, <2>3
  <1> QED BY <1>1, <1>2

LEMMA GuardedStutter ==
    ASSUME UNCHANGED commandVars
    PROVE  UNCHANGED <<phaseBar, answerBar>>
  BY DEF commandVars, runtime, phaseBar, answerBar

-----------------------------------------------------------------------------
(***************************************************************************)
(* The theorems.                                                           *)
(***************************************************************************)
\* An answered mutation that failed and supports rollback was rolled back, or its
\* rollback was reported to have failed, and not both (mutation/manager.py:139-165).
THEOREM RollbackIsReported == Spec => []RollbackReported
  <1>1. AnswerInv => RollbackReported
    BY PipelineAssumption DEF AnswerInv, RollbackInv, RollbackReported, Reported, ReportedOnce, Reports, Answering
  <1> QED BY <1>1, AnswerInvHolds, PTL

\* No sink records a command twice, before its end, with another state than the
\* outcome's, or off the mutation path (mutation/manager.py:205-245).
THEOREM TrailIsTrue == Spec => []AuditTrail
  <1>1. AnswerInv => AuditTrail
    BY DEF AnswerInv, AuditInv, AuditTrail, Record
  <1> QED BY <1>1, AnswerInvHolds, PTL

\* Whatever the end of an answered mutation, every sink that does not fail has it.
THEOREM AnsweredMutationsAreAudited == Spec => []MutationsAudited
  <1>1. AnswerInv => MutationsAudited
    BY DEF AnswerInv, AuditInv, MutationsAudited, Record
  <1> QED BY <1>1, AnswerInvHolds, PTL

\* A policy loaded later never overrides one that covers the capability
\* (security/policy.py:30-33 and 82-87).
THEOREM EarlierPolicyStands == Spec => EarlierPolicyWins
  <1> DEFINE Stands == \A k \in CapabilityIds, t \in TrustLevel :
                 (Len(policies') > Len(policies) /\ Covered(k)) => Evaluate(k, t)' = Evaluate(k, t)
  <1>1. IInv /\ [Next]_vars => [Stands]_vars
    <2> SUFFICES ASSUME IInv, [Next]_vars, NEW k \in CapabilityIds,
                        Len(policies') > Len(policies), Covered(k)
                 PROVE  \A t \in TrustLevel : Evaluate(k, t)' = Evaluate(k, t)
      OBVIOUS
    <2>1. policies \in Seq(Policies) /\ Len(policies) \in Nat /\ DOMAIN policies = 1..Len(policies)
      BY DEF IInv, TypeOK, PolicyTypeOK
    <2>2. policies' # policies
      BY <2>1
    <2>3. PICK p \in Policies : LoadPolicy(p)
      <3>1. \E p \in Policies : LoadSecurityPolicy(p)
        BY <2>2 DEF Next, CommandStep, RegisterCapability, UnregisterCapability, UserStep, KernelStep,
           Submit, SubmitInvalid, RouteMutation, RouteMutationRefused, RouteRead, AskConfirmation,
           ConfirmationUnsupported, StartMutation, DelegateExecution, AnswerConfirmation, EvaluatePolicy,
           AuthorizePermission, DenyPermission, EnforceDecision, AnswerApproval, Dispatch, DispatchUnknown,
           Execute, ExecuteReturns, ExecuteRaises, FinishRejected, DispatchReturns, RollbackReturns,
           RollbackRaises, AfterRollback, RecordAudit, AfterAudit, MutationReturns, vars
      <3> QED BY <3>1 DEF LoadSecurityPolicy
    <2>4. policies' = Append(policies, p)
      <3>1. CASE policies' = [i \in DOMAIN policies |->
                                 IF policies[i].policy_id = p.policy_id THEN p ELSE policies[i]]
        <4>1. policies' \in [1..Len(policies) -> Policies]
          <5>1. \A i \in 1..Len(policies) : policies[i] \in Policies
            BY <2>1
          <5> QED BY <2>1, <3>1, <5>1
        <4>2. Len(policies') = Len(policies)
          BY <2>1, <4>1
        <4> QED BY <2>1, <4>2
      <3> QED BY <2>3, <3>1 DEF LoadPolicy
    <2> QED BY <2>1, <2>4, AppendedPolicy
  <1>2. [][Stands]_vars <=> EarlierPolicyWins
    BY DEF EarlierPolicyWins
  <1> HIDE DEF Stands
  <1> QED BY <1>1, <1>2, Invariance, PTL DEF Spec

\* Every behaviour of the pipeline is one of GuardedExecution: a command is permitted
\* before it runs, runs at most once, and the answer tells what happened to it
\* (execution/contracts.py).
THEOREM PipelineRefines == Spec => ImplementsGuardedExecution
  <1>1. AnswerInv /\ AnswerInv' /\ [Next]_vars => [Guarded!GuardedNext]_<<phaseBar, answerBar>>
    <2>1. ASSUME UNCHANGED commandVars PROVE [Guarded!GuardedNext]_<<phaseBar, answerBar>>
      BY <2>1, GuardedStutter
    <2> QED
      BY <2>1, GuardedStep DEF Next, RegisterCapability, UnregisterCapability, LoadSecurityPolicy, vars
  <1> QED
    BY <1>1, BarInit, AnswerInvHolds, PTL DEF Spec, ImplementsGuardedExecution, Guarded!GuardedSpec
=============================================================================
