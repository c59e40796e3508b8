-------------------------- MODULE CapabilityRegistry --------------------------
(***************************************************************************)
(* The in-memory capability registry (core/runtime/registry.py) and what a *)
(* capability object tells the kernel about itself.                        *)
(*                                                                         *)
(* A capability OBJECT is distinguished from its capability ID: the        *)
(* registry maps ids to objects, and a plugin or the Android runtime may   *)
(* unregister an id and register another object under it while commands    *)
(* for that id are in flight.                                              *)
(***************************************************************************)
EXTENDS Naturals

CONSTANTS
    CapabilityIds,   \* the ids capabilities are registered under
    Capabilities,    \* capability objects
    IdOf,            \* the metadata.id of each object
    Mutation,        \* the metadata.mutation of each object
    CanRollBack,     \* MutatingCapability objects whose supports_rollback(args) holds
    ReportsFailure,  \* objects whose execute returns CapabilityResult(success=False)
                     \* instead of raising (the Android capabilities)
    None             \* Python's None

ConfirmationLevel == {"NONE", "USER", "PIN", "BIOMETRIC", "OWNER_ONLY"}

(***************************************************************************)
(* "declared" is the descriptor's own claim to change the real world (a    *)
(* metadata.mutation object is attached); "is_mutation" is the attribute   *)
(* of that object the classifier looks for, which MutationMetadata does    *)
(* not have and another metadata class may have.                           *)
(***************************************************************************)
MutationMetadata ==
    [declared : BOOLEAN, is_mutation : BOOLEAN, supports_rollback : BOOLEAN,
     audit_required : BOOLEAN, confirmation_level : ConfirmationLevel]

ASSUME RegistryAssumption ==
    /\ None \notin Capabilities
    /\ IdOf \in [Capabilities -> CapabilityIds]
    /\ Mutation \in [Capabilities -> MutationMetadata]
    /\ CanRollBack \subseteq Capabilities
    /\ ReportsFailure \subseteq Capabilities

VARIABLE registry    \* [CapabilityIds -> Capabilities \cup {None}]

RegistryTypeOK == registry \in [CapabilityIds -> Capabilities \cup {None}]

RegistryInit == registry = [k \in CapabilityIds |-> None]

\* register(): a second object under a taken id is refused with ValidationError,
\* which changes nothing.
Register(o) ==
    /\ registry[IdOf[o]] = None
    /\ registry' = [registry EXCEPT ![IdOf[o]] = o]

\* unregister(): an unknown id raises CapabilityNotFoundError.
Unregister(k) ==
    /\ registry[k] # None
    /\ registry' = [registry EXCEPT ![k] = None]

\* lookup(): None stands for CapabilityNotFoundError.
Lookup(k) == registry[k]
=============================================================================
