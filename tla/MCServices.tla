------------------------------ MODULE MCServices ------------------------------
(***************************************************************************)
(* The services of the kernel, one at a time: they share the event loop    *)
(* and no state, so a behaviour of all of them is a behaviour of each.     *)
(***************************************************************************)
EXTENDS DependencyContainer, MemoryEngine, IdentityService, PluginFramework,
        BrainRequests, AndroidRuntime, TLC

CONSTANTS
    logger, bus, kernel, \* interfaces of the container
    n1                   \* a session

VARIABLE focus \* the service that runs

-----------------------------------------------------------------------------
\* Container: every lifetime, classes with and without defaults, factories,
\* missing services, and circles through annotations and through factories.
Class(lifetime, params) == Descriptor(lifetime, "class", params)
Factory(lifetime, params) == Descriptor(lifetime, "factory", params)
Instance == Descriptor("SINGLETON", "instance", << >>)
Needs(s) == Param(s, FALSE)
Likes(s) == Param(s, TRUE)
Registry(k, b, l) == [s \in Services |-> CASE s = kernel -> k [] s = bus -> b [] s = logger -> l]

MCRegistrations == {
    Registry(Class("SINGLETON", <<Needs(bus), Likes(logger)>>), Class("SINGLETON", <<Needs(logger)>>), Class("SINGLETON", << >>)),
    Registry(Class("TRANSIENT", <<Needs(bus), Likes(logger)>>), Class("SINGLETON", <<Likes(kernel)>>), None),
    Registry(Class("SCOPED", <<Needs(bus)>>), Class("SINGLETON", <<Needs(logger)>>), Instance),
    Registry(Factory("SINGLETON", <<Needs(bus), Needs(logger)>>), Factory("SINGLETON", <<Needs(logger)>>), Factory("SINGLETON", << >>)),
    Registry(Factory("SINGLETON", <<Needs(bus), Needs(logger)>>), Factory("SINGLETON", << >>), Class("SINGLETON", <<Needs(kernel)>>)),
    Registry(Class("SCOPED", <<Needs(bus), Needs(logger)>>), Class("SINGLETON", <<Needs(logger)>>), Factory("SCOPED", << >>)) }
MCReplacements == {Factory("SINGLETON", << >>)}

-----------------------------------------------------------------------------
\* Memory: two drafts with one id, updates of every kind of key, every policy.
Memory(i, n, tags, importance) ==
    [id |-> i, namespace |-> n, owner |-> "user", tags |-> tags, importance |-> importance,
     updated |-> 0, accessed |-> 0, count |-> 0]
MCDrafts == {Memory("m1", "work", {"todo"}, 1), Memory("m2", "home", {"todo"}, 3), Memory("m1", "home", {}, 3)}
MCChanges == {[namespace |-> "home"], [tags |-> {}], [id |-> "m2"]}
MCPolicies == {[kind |-> "never"], [kind |-> "ttl", limit |-> 1], [kind |-> "importance", limit |-> 2],
               [kind |-> "lru", limit |-> 0], [kind |-> "lru", limit |-> 1]}

\* Identities: two people, and an object with the id of one and the name of the other.
Person(id, name, active, roles) == [id |-> id, username |-> name, active |-> active, roles |-> roles]
MCIdentities == {Person("i1", "ann", TRUE, {"guest"}), Person("i2", "bob", TRUE, {}), Person("i1", "bob", FALSE, {})}
MCOverrides == {[session |-> n1, identity |-> Person("i2", "bob", TRUE, {})]}
MCRolePermissions == [guest |-> {"READ_MEMORY"}]

\* Plugins: loaders that find one plugin, two, or an invalid one.
Metadata(id, valid) == [id |-> id, valid |-> valid]
MCManifests == {<<Metadata("p1", TRUE)>>, <<Metadata("p1", TRUE), Metadata("p2", FALSE)>>, <<Metadata("p2", TRUE)>>}

\* Planner: chains, circles of one and three tasks, a task of another goal, priorities.
Draft(t, g, deps, priority) == [id |-> t, goal |-> g, dependencies |-> deps, priority |-> priority, state |-> "PENDING"]
MCTaskDrafts == {
    Draft(1, "g1", {}, 2), Draft(1, "g1", {3}, 2), Draft(1, "g1", {1}, 1),
    Draft(2, "g1", {1}, 3), Draft(2, "g2", {}, 2),
    Draft(3, "g1", {2}, 2), Draft(3, "g1", {1, 2}, 4) }
MCBrainRequests == {None, [valid |-> FALSE, goal |-> None], [valid |-> TRUE, goal |-> "g1"], [valid |-> TRUE, goal |-> None]}

\* Tools: an alias under one id, and a tool that is not Android's under it.
Tool(id, name) == [id |-> id, object |-> name]
MCAndroidCapabilities == {Tool("call", "CallCapability"), Tool("call", "PhoneWriteCapability"), Tool("sms", "SmsCapability")}
MCTools == {Tool("call", "other")}
MCPacks == <<Tool("call", "CallCapability"), Tool("call", "PhoneWriteCapability")>>

-----------------------------------------------------------------------------
requestStackVars == <<busVars, requestVars>>
restOfRequests == <<plannerVars, brainVars, toolVars, androidVars>>
servicesVars ==
    <<containerVars, memoryVars, identityVars, pluginVars, requestStackVars, restOfRequests, focus>>

MCInit ==
    /\ focus \in {"container", "memory", "identity", "grants", "plugins", "brain", "tools", "android"}
    /\ ContainerInit /\ MemoryInit /\ IdentityInit /\ PluginInit
    /\ BusInit /\ RequestInit /\ PlannerInit /\ BrainInit /\ ToolInit /\ AndroidInit
    \* What the others may start with does not matter.
    /\ focus = "container" \/ registry = CHOOSE r \in Registrations : TRUE
    /\ focus = "memory" \/ policy = CHOOSE p \in Policies : TRUE
    /\ focus \in {"brain", "tools"} \/ subscribed = {}
    /\ focus = "identity" \/ living = {CHOOSE x \in Contexts : TRUE}

MCNext ==
    /\ UNCHANGED focus
    /\ \/ /\ focus = "container" /\ ContainerNext
          /\ UNCHANGED <<memoryVars, identityVars, pluginVars, requestStackVars, restOfRequests>>
       \/ /\ focus = "memory" /\ MemoryNext
          /\ UNCHANGED <<containerVars, identityVars, pluginVars, requestStackVars, restOfRequests>>
       \* Nothing but the authorization reads the grants: they change on their own.
       \/ /\ focus \in {"identity", "grants"} /\ IdentityNext
          /\ IF focus = "identity" THEN UNCHANGED grants ELSE UNCHANGED contextVars
          /\ UNCHANGED <<containerVars, memoryVars, pluginVars, requestStackVars, restOfRequests>>
       \/ /\ focus = "plugins" /\ PluginNext
          /\ UNCHANGED <<containerVars, memoryVars, identityVars, requestStackVars, restOfRequests>>
       \/ /\ focus = "brain" /\ BrainNext
          /\ UNCHANGED <<containerVars, memoryVars, identityVars, pluginVars, toolVars, androidVars>>
       \/ /\ focus = "tools" /\ ToolNext
          /\ UNCHANGED <<containerVars, memoryVars, identityVars, pluginVars, plannerVars, brainVars, androidVars>>
       \/ /\ focus = "android" /\ AndroidNext
          /\ UNCHANGED <<containerVars, memoryVars, identityVars, pluginVars, plannerVars, brainVars>>

MCSpec == MCInit /\ [][MCNext]_servicesVars

\* Every service keeps its state well-formed.
ServicesTypeOK ==
    /\ ContainerTypeOK /\ MemoryTypeOK /\ IdentityTypeOK /\ PluginTypeOK
    /\ RequestTypeOK /\ PlannerTypeOK /\ ToolTypeOK /\ AndroidTypeOK
    /\ focus = "tools" \/ BrainTypeOK

=============================================================================
