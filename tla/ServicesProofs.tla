---------------------------- MODULE ServicesProofs ----------------------------
(***************************************************************************)
(* The services of the kernel together: what is proved of each of them by  *)
(* itself holds of the composition that is model-checked.  The container,  *)
(* the memory, the identities and the plugins share nothing, so that the   *)
(* composition implements each of them.  The brain, the tools and the      *)
(* Android runtime share the bus, the protocol of requests and the         *)
(* registry of tools, and have one invariant.                              *)
(***************************************************************************)
EXTENDS MCServices, ContainerProofs, StoreProofs, RequestProofs

-----------------------------------------------------------------------------
\* Whatever the other services do, the container, the memory, the identities and the
\* plugins each do only what they do by themselves (each module
\* registers a manager of its own, with a registry, store and lock that no other holds).
THEOREM EachByItself == MCSpec => ContainerSpec /\ MemorySpec /\ IdentitySpec /\ PluginSpec
  <1>1. MCInit => ContainerInit /\ MemoryInit /\ IdentityInit /\ PluginInit
    BY DEF MCInit
  <1>2. [MCNext]_servicesVars => [ContainerNext]_containerVars
    BY DEF MCNext, servicesVars
  <1>3. [MCNext]_servicesVars => [MemoryNext]_memoryVars
    BY DEF MCNext, servicesVars
  <1>4. [MCNext]_servicesVars => [IdentityNext]_identityVars
    BY DEF MCNext, servicesVars
  <1>5. [MCNext]_servicesVars => [PluginNext]_pluginVars
    BY DEF MCNext, servicesVars
  <1> QED BY <1>1, <1>2, <1>3, <1>4, <1>5, PTL DEF MCSpec, ContainerSpec, MemorySpec, IdentitySpec, PluginSpec

-----------------------------------------------------------------------------
\* Only requests for tools dispatch tools, and only requests to the brain succeed with a plan.
Undispatched == \A c \in Calls : dispatched[c] = None /\ ran[c] = 0

StackOK ==
    /\ ProtocolInv /\ HeardOK /\ PlannerInv /\ GoalsOK /\ RuntimeInv /\ FiledOK /\ StatusOK
    /\ IF focus = "tools" THEN RunsOK ELSE Undispatched /\ BrainInv /\ PlansOK

LEMMA StackInit == ASSUME MCInit PROVE StackOK
  <1>0. BusInit /\ RequestInit /\ PlannerInit /\ BrainInit /\ ToolInit /\ AndroidInit
    BY DEF MCInit
  <1>1. ProtocolInv /\ HeardOK /\ PlannerInv /\ RuntimeInv
    BY <1>0, ProtocolInit, HeardInit, PlannerInvInit, RuntimeInit
  <1>2. GoalsOK /\ FiledOK /\ StatusOK
    BY <1>0 DEF PlannerInit, GoalsOK, ToolInit, FiledOK, AndroidInit, StatusOK
  <1>3. RunsOK /\ Undispatched
    BY <1>0, RequestAssumption DEF RequestInit, ToolInit, RunsOK, RunOK, Undispatched
  <1>4. BrainInv
    BY <1>0, <1>1, BrainAssumption DEF BrainInit, BrainInv, PipelineStages
  <1>5. PlansOK
    BY <1>0, BrainAssumption, RequestAssumption DEF RequestInit, BrainInit, PlansOK, KeptOK, PipelineStages
  <1> QED BY <1>1, <1>2, <1>3, <1>4, <1>5 DEF StackOK

LEMMA BrainKeepsStack ==
    ASSUME StackOK, focus = "brain", BrainNext, UNCHANGED <<focus, toolVars, androidVars>> PROVE StackOK'
  <1>1. BrainInv' /\ HeardOK' /\ PlansOK'
    BY BrainInvStep, BrainHeard, PlansStep DEF StackOK
  <1>2. PlannerInv' /\ GoalsOK'
    <2>1. [PlannerNext]_plannerVars
      BY DEF BrainNext
    <2> QED BY <2>1, PlannerInvStep, GoalsStep DEF StackOK
  <1>3. RuntimeInv' /\ FiledOK' /\ StatusOK' /\ Undispatched'
    BY DEF StackOK, RuntimeInv, RegistriesOK, NoOrphanAdapters, FiledOK, StatusOK, Undispatched, toolVars, androidVars
  <1> QED BY <1>1, <1>2, <1>3 DEF StackOK, BrainInv

LEMMA ToolsKeepStack ==
    ASSUME StackOK, focus = "tools", ToolNext, UNCHANGED <<focus, plannerVars, androidVars>> PROVE StackOK'
  <1>1. ProtocolInv' /\ HeardOK' /\ FiledOK' /\ RunsOK'
    BY ToolStep, ToolHeard, FiledStep, RunsStep DEF StackOK
  <1>2. PlannerInv' /\ GoalsOK' /\ StatusOK'
    BY DEF StackOK, PlannerInv, GoalsOK, StatusOK, plannerVars, androidVars
  <1>3. RuntimeInv'
    <2>1. CASE UNCHANGED tool
      BY <2>1 DEF StackOK, RuntimeInv, RegistriesOK, NoOrphanAdapters, androidVars
    <2>2. CASE /\ (\E t \in Tools : ToolRegister(t)) \/ (\E i \in ToolIds : ToolUnregister(i))
               /\ ToolChange /\ UNCHANGED <<busVars, requestVars, dispatched, ran>>
      <3>1. AndroidNext
        BY <2>2 DEF AndroidNext
      <3> QED BY <3>1, RuntimeStep DEF StackOK
    <2> QED BY <2>1, <2>2 DEF ToolNext, ExecutionNext, Execute, RunTool, StartRefused, ToolReturns, ToolRaises, toolVars
  <1> QED BY <1>1, <1>2, <1>3 DEF StackOK

LEMMA AndroidKeepsStack ==
    ASSUME StackOK, focus = "android", AndroidNext, UNCHANGED <<focus, plannerVars, brainVars>> PROVE StackOK'
  <1>0. UNCHANGED <<busVars, requestVars, dispatched, ran>>
    BY DEF AndroidNext
  <1>1. RuntimeInv' /\ FiledOK' /\ StatusOK'
    BY RuntimeStep, FiledAndroidStep, StatusStep DEF StackOK
  <1>2. ProtocolInv' /\ HeardOK'
    BY <1>0, ProtocolRests DEF StackOK, HeardOK, busVars, requestVars
  <1>3. PlannerInv' /\ GoalsOK' /\ Undispatched'
    BY <1>0 DEF StackOK, PlannerInv, GoalsOK, Undispatched, plannerVars
  <1>4. BrainInv' /\ PlansOK'
    BY <1>0, <1>2 DEF StackOK, BrainInv, PlansOK, KeptOK, requestVars, brainVars
  <1> QED BY <1>1, <1>2, <1>3, <1>4 DEF StackOK

LEMMA StackStep == ASSUME StackOK, [MCNext]_servicesVars PROVE StackOK'
  <1>1. ASSUME UNCHANGED <<focus, requestStackVars, restOfRequests>> PROVE StackOK'
    <2>1. UNCHANGED <<focus, busVars, requestVars, plannerVars, brainVars, toolVars, androidVars>>
      BY <1>1 DEF requestStackVars, restOfRequests
    <2>2. ProtocolInv' /\ HeardOK'
      BY <2>1, ProtocolRests DEF StackOK, HeardOK, busVars, requestVars
    <2>3. PlannerInv' /\ GoalsOK'
      BY <2>1 DEF StackOK, PlannerInv, GoalsOK, plannerVars
    <2>4. RuntimeInv' /\ FiledOK' /\ StatusOK'
      BY <2>1 DEF StackOK, RuntimeInv, RegistriesOK, NoOrphanAdapters, FiledOK, StatusOK, toolVars, androidVars
    <2>5. focus = "tools" => RunsOK'
      BY <2>1 DEF StackOK, RunsOK, RunOK, requestVars, toolVars
    <2>6. focus # "tools" => Undispatched' /\ BrainInv' /\ PlansOK'
      BY <2>1, <2>2 DEF StackOK, Undispatched, BrainInv, PlansOK, KeptOK, requestVars, brainVars, toolVars
    <2> QED BY <2>1, <2>2, <2>3, <2>4, <2>5, <2>6 DEF StackOK
  <1>2. CASE UNCHANGED servicesVars
    BY <1>1, <1>2 DEF servicesVars
  <1> QED BY <1>1, <1>2, BrainKeepsStack, ToolsKeepStack, AndroidKeepsStack DEF MCNext

LEMMA StackHolds == MCSpec => []StackOK
  BY StackInit, StackStep, PTL DEF MCSpec

\* Every service keeps its state well-formed, whichever of them runs: among others, a tool
\* runs at most once for a request and has run when it succeeds, and the brain succeeds
\* only with a stored plan of the goal it was asked about (brain/manager.py:83-106,
\* runtime/manager.py:83-158).
THEOREM ServicesTypes == MCSpec => []ServicesTypeOK
  <1> DEFINE Stores == ContainerTypeOK /\ MemoryTypeOK /\ IdentityTypeOK /\ PluginTypeOK
  <1>1. MCSpec => []Stores
    BY EachByItself, ContainerTypes, MemoryTypes, IdentityTypes, PluginTypes, PTL
  <1>2. ASSUME StackOK PROVE RequestTypeOK /\ PlannerTypeOK /\ AndroidTypeOK
    <2>1. AndroidTypeOK
      BY <1>2 DEF StackOK, RuntimeInv, RegistriesOK, StatusOK, AndroidHealth, AndroidTypeOK
    <2> QED BY <1>2, <2>1, ProtocolTypes, PlannerTypes DEF StackOK
  <1>3. ASSUME StackOK PROVE ToolTypeOK /\ (focus = "tools" \/ BrainTypeOK)
    <2>1. CASE focus = "tools"
      BY <1>3, <2>1 DEF StackOK, FiledOK, RunsOK, RunOK, ToolTypeOK
    <2>2. CASE focus # "tools"
      <3>1. ToolTypeOK
        BY <1>3, <2>2 DEF StackOK, FiledOK, Undispatched, ToolTypeOK
      <3> QED BY <1>3, <2>2, <3>1, BrainTyped DEF StackOK
    <2> QED BY <2>1, <2>2
  <1>4. Stores /\ StackOK => ServicesTypeOK
    BY <1>2, <1>3 DEF ServicesTypeOK
  <1> HIDE DEF Stores
  <1> QED BY <1>1, <1>4, StackHolds, PTL

\* What is proved of the services one by one holds of all of them together.
THEOREM ServicesHold ==
    MCSpec => /\ [](OneSingleton /\ NoDeadlock /\ ValidatorAgrees)
              /\ [](IndexesAgree /\ SubscribersSeeStore)
              /\ [](IdentitiesAgree /\ CurrentIsLatestSet)
              /\ [](PlansAreOrders /\ OneVerdict /\ NoOrphanAdapters)
  <1>1. StackOK => PlansAreOrders /\ OneVerdict /\ NoOrphanAdapters
    BY PlansOrder, VerdictIsOne DEF StackOK, RuntimeInv
  <1> QED BY <1>1, StackHolds, EachByItself, SingletonIsBuiltOnce, ResolvesDoNotDeadlock,
             ValidatorForeseesResolver, IndexesStayConsistent, EventsTellTheStore, LookupsAgree,
             LatestSetIsCurrent, PTL
=============================================================================
