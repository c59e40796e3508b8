------------------------- MODULE MCExecutionPipeline -------------------------
(***************************************************************************)
(* Small instances of ExecutionPipeline for TLC.                           *)
(***************************************************************************)
EXTENDS ExecutionPipeline, TLC

CONSTANTS torch, sensor,     \* capability ids
          torchUser,         \* objects that may be registered as torch
          torchPin, torchQuiet, torchAndroid,
          sensorDriver

MCIdOf == [o \in Capabilities |-> IF o = sensorDriver THEN sensor ELSE torch]

Changes(level, rollback, audit) ==
    [declared |-> TRUE, is_mutation |-> TRUE, supports_rollback |-> rollback,
     audit_required |-> audit, confirmation_level |-> level]

ReadOnly ==
    [declared |-> FALSE, is_mutation |-> FALSE, supports_rollback |-> FALSE,
     audit_required |-> FALSE, confirmation_level |-> "NONE"]

\* torchAndroid carries core.mutation.models.MutationMetadata, as the Android adapter
\* builds it: no is_mutation attribute.
MCMutation ==
    [o \in Capabilities |->
        CASE o = torchUser -> Changes("USER", TRUE, TRUE)
          [] o = torchPin -> Changes("PIN", FALSE, TRUE)
          [] o = torchQuiet -> Changes("NONE", TRUE, FALSE)
          [] o = sensorDriver -> ReadOnly
          [] OTHER -> [Changes("NONE", TRUE, TRUE) EXCEPT !.is_mutation = FALSE]]

Requires(k, level, approval) ==
    [capability_id |-> k, required_trust_level |-> level, requires_user_approval |-> approval]

\* "base" grants or asks for approval, by revision; "strict" may shadow it or be shadowed.
MCPolicies ==
    {[policy_id |-> "base", requirements |-> <<Requires(torch, "LOW", FALSE)>>],
     [policy_id |-> "base", requirements |-> <<Requires(torch, "LOW", TRUE)>>],
     [policy_id |-> "strict", requirements |-> <<Requires(sensor, "MEDIUM", FALSE),
                                                 Requires(torch, "CRITICAL", FALSE)>>]}

\* Every combination of optional collaborators: without them the service must fail closed.
MCInjections == SUBSET {"MutationManager", "ConfirmationManager"}

MCTrustValues == {"LOW", "unknown"}
=============================================================================
