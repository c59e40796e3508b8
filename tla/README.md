# IRA-OS: a TLA+ verification project

IRA-OS is an asyncio kernel for a personal assistant: a set of subsystems under
`src/core`, wired by a dependency-injection container and driven by commands
that end in the execution of a *capability* (torch, volume, SMS...). The project
models the parts that keep state, hold locks, fail half-way or undo what they
did, and checks and proves what must hold of them.

Everything runs on one event loop. A coroutine is only interrupted where it
awaits, so **one action of a model is what a coroutine does from one await to
the next**. Between two actions of a coroutine any other coroutine may move, and
with it the registries and tables they share. An `await` of something that never
suspends (the mock bridges) is part of the step around it.

## 1. Inventory

| Component (`src/core/...`) | State | Operations | Talks to |
| --- | --- | --- | --- |
| Execution service (`execution`) | per command: route, outcome | `execute`, classify, protected dispatch | security, mutation, runtime, events |
| Mutation lifecycle (`mutation`) | per mutation: held capability, confirmation, audit sinks | `process_mutation`, confirm, roll back, audit | execution (delegate), runtime, events |
| Permission kernel (`security`) | policies in insertion order | `load_policy`, `check_permission` | events |
| Tool runtime (`runtime`) | id -> capability | `register`, `unregister`, `lookup`, `RuntimeManager.execute` | events, logging |
| Workflow engine (`workflow`) | task queue, its lookup table, status table, `_started` | `submit`, `cancel`, `pause`, `resume`, `start`, `shutdown` | execution, events |
| Lifecycle manager (`lifecycle`) | registrations, health of each component | `register`, `update`, `remove`, `boot`, `start`, `stop`, `shutdown`, `restart` | hooks of every component |
| Event bus (`events`) | subscribers, middlewares | `subscribe`, `unsubscribe`, `publish` | handlers of everybody |
| Container (`container`) | registrations, singletons, per-service locks, scopes | `register`, `resolve`, `evict`, `replace`, `dispose`, `shutdown`, `validate` | factories of everybody |
| Memory engine (`memory`) | records, indexes, one lock | `remember`, `recall`, `forget`, `update`, `search`, `expire`, `cleanup`, `clear` | events |
| Planner (`planner`) | goals, tasks, plans | `create_goal`, `build_plan`, task and goal changes | memory, events |
| Identity (`identity`) | identities, sessions, a stack in context variables | `authenticate`, `logout`, `authorize`, registry changes | events |
| Plugins (`plugins`) | descriptor and state of each plugin | `discover`, `load`, `enable`, `disable`, `unload` | loader, events |
| Android runtime (`android`) | Android registry beside the tool registry, health | `start`, `shutdown`, `register`, `unregister` | runtime |
| Android capabilities (`android/capabilities`, `android/bridge`) | what the bridges hold: settings, radios, messages, contacts, files... | `execute_action` and `rollback` of each capability | bridges |
| Brain (`brain`) | a request and its stages | `process_request` | memory, planner, events |
| Configuration, logging (`config`, `logging`) | merged settings; sinks | load, get; log | files |

**Where it is hard.** State read before an await and used after it (the
capability looked up twice, the task taken from the queue, the plugin
descriptor, the candidates of a clean-up); several commands and workflows in
flight over shared tables; steps of a multi-step operation that fail in the
middle (a publish that raises between execution and audit, a rollback that
raises, one hook of several components, a registration of several); failures
reported as values; locks held across awaits (container, memory); rollbacks
that come late, in another order, or without the result they need; context
variables that child tasks inherit. `PROJECT.json` lists each hazard at its
line with the properties that cover it.

## 2. Modules

Modules that share state are composed by `EXTENDS` and by actions that take part
in each other's steps; modules that share none are composed only for checking.

```
CapabilityRegistry, PermissionPolicy --> ExecutionPipeline --> (refines) GuardedExecution
WorkflowEngine --> (refines) TaskExchange
ComponentRegistry --> LifecycleOrchestrator
EventLoop --> DependencyContainer --> (refines) SharedInstances
          --> MemoryIndex --> MemoryEngine
          --> IdentityService
          --> PluginFramework
          --> EventBus --> RequestProtocol --> ToolRuntime --> AndroidRuntime
          --> PlannerGoals ----- + --------> BrainRequests
BridgeContract --> SystemControls, NetworkRadios, Communication, DataPack --> AndroidCommands
```

### Execution, mutation, security

- `CapabilityRegistry`: `CapabilityRegistryImpl`. `registry` maps ids to
  capability objects; a capability is an object with the metadata the kernel
  reads from it (`Mutation[o]`, whether it has a `rollback`, whether it reports
  its failures as values).
- `PermissionPolicy`: `DefaultPolicyEvaluator`. `policies` is the dictionary in
  insertion order; reloading an id keeps its place. `Evaluate` is `evaluate()`.
- `ExecutionPipeline` composes both with `ExecutionService.execute`, the
  classifier, `ProtectedDispatcher.dispatch`, `check_permission`,
  `process_mutation`, the confirmation manager and the audit manager. Per command
  it keeps what the coroutine holds (`cap`, `trust`, `route`, `held`, `decision`,
  `target`, `result`, `outcome`, ...), what sinks hold (`trail`), and three history
  variables: the object whose `execute` was called (`ran`), the one whose
  `rollback` was called (`undone`) and the events published (`published`). An
  await of `publish` delivers, and may raise when `MiddlewareMayRaise` (the bus
  isolates subscribers, not middlewares). `injected` says which of the optional
  collaborators the service was built with: it never changes.
- `GuardedExecution` is the abstract promise of `execute`: accepted, permitted or
  denied, run at most once, answered truthfully, or raised.
  `ImplementsGuardedExecution` is the refinement.

### Workflow

- `WorkflowEngine`: `submit` between its awaits, `InMemoryWorkflowQueue` with its
  list and lookup table, the status table that `cancel`, `pause` and `resume`
  write, other code that removes tasks (`QueueShared`), publishes that raise.
  `submit` schedules one task, so a task is named after the call that enqueued
  it. The execution service is its set of outcomes, and an exception.
- `TaskExchange` is the abstract promise to those who submit: a task is handed in,
  given to at most one call, executed at most once by that call, and answered
  `COMPLETED` only after its execution succeeded. Which call is given which task is
  left open, as the code leaves it. `ImplementsExchange` is the refinement.

### Lifecycle

- `ComponentRegistry`: registrations, and `_build_execution_order` as Kahn's
  algorithm over (priority, name). One turn of the loop is `Pop`.
- `LifecycleOrchestrator`: the five operations, and a registry that changes at any
  time, also while a call awaits a hook. A call awaits the `before`,
  action and `after` hook of the current component (`pc`, `todo`), or of the one
  it rolls back (`undo`). A hook ends by returning or by raising (exception,
  timeout, not a coroutine function). History variables: `live`, the phases whose
  action hook a component has been through and not been through the opposite of;
  `seen`, `broken` and `removed`, the registrations and whether they could be ordered
  when the phase began, and who was unregistered since.

### Services of the kernel

- `EventLoop`: the calls in flight, and `None`.
- `DependencyContainer`: `turn` is the call that runs; a resolve keeps the event
  loop until it waits for a lock, a factory awaits, or a `dispose()` does. The
  nested resolves of a call are its stack of frames. Per-service locks with
  their generations (eviction drops a lock that may be held), scopes, defaults,
  factories that resolve in their body, replacement and shutdown. `Diagnosis` is
  the validator as a recursive function.
- `SharedInstances` is what `Lifetime.SINGLETON` promises: an instance is made by one
  call at a time, by another one if that call fails, and never again once it is
  made; a resolve returns only what there is. A service leaves the promise when its
  registration is changed or the container shut. `ImplementsSharedInstances` is the
  refinement.
- `MemoryIndex`: add, remove, update and the look-ups of the indexes, as operators
  on the record of indexes. `MemoryEngine`: the manager's calls, the lock that is
  held while an event is published, the retention policies, and the clean-up that
  chooses its candidates under the lock and forgets them one by one after
  releasing it. `seen` is a subscriber that follows the events.
- `IdentityService`: the registry with its two tables, sessions, and the stack of
  tokens that `ContextVar.set` and `reset` leave behind in each context; a task
  inherits the stack of the one that created it. A middleware may set any session
  with any identity, closed and lapsed ones too (`SetContext`).
- `PluginFramework`: the five operations between their publishes.
- `EventBus`: middlewares that pass an event on or keep it, and may raise in either
  case, before the handlers hear it or after; the handlers
  subscribed when the delivery starts, side by side, each failing by itself;
  subscribers that come and go during a delivery. `RequestProtocol` is what the
  brain and the tool runtime do alike: announce, work, announce one verdict, and
  fail through `_fail`. `ToolRuntime` and `BrainRequests` fill in the work.
- `PlannerGoals`: goals, tasks, and the plan of a goal: the cycle check and the
  topological sort with priorities as recursive functions.
- `AndroidRuntime`: the Android registry that bridges each capability into the
  tool registry, and a manager that registers its packs at `start` and may be
  refused half-way.
- `MCServices` composes them for TLC. Apart from the bus, the requests and the
  registry of tools, which the brain, the tool runtime and the Android runtime use in
  turn, they share no variable, and every invariant is about one of them: `focus`
  picks the service that runs.

### Android commands

- `SystemControls` (flashlight, volume, brightness, vibration, do-not-disturb,
  rotation, screen timeout), `NetworkRadios` (Wi-Fi, Bluetooth, mobile data,
  hotspot, airplane mode), `Communication` (SMS, contacts, notifications, phone)
  and `DataPack` (files, downloads, gallery, media, microphone, camera, storage):
  for each capability what it lets through (`...Accepts`, `...Refuses`), what the
  bridge does (`...Effect`), the data of the result a rollback reads
  (`...Data`), and the rollback (`...Undo`).
- `AndroidCommands` dispatches over them. A command executes at one moment and is
  rolled back at a later one, with its own result (as the adapter does) or
  without one (as the mutation manager does for a failure). `MCAndroid` looks at
  one unit of the device at a time (`focus`): the units share nothing.

## 3. Runs

| Run | Question | Result |
| --- | --- | --- |
| `exec_safety` | one command against every timing of registrations and policy loads, with every combination of optional collaborators; three mutating objects compete for one id; one reliable and one failing sink; any publish may raise | types, `AuthorizedExecution`, `DenialIsInert`, `ConfirmedMutation`, `RollbackOnlyOfFailure`, `RollbackReported`, `AuditTrail`, `MutationsAudited`, `OutcomeMatchesEvents`, `EarlierPolicyWins` and the refinement of `GuardedExecution` hold, and do not rest on the bus |
| `exec_concurrent` | two commands in flight, a bus that does not raise, a sink that may fail | `CommandsSettle`: every command ends, or waits for its own user |
| `exec_bypass_android` | "the mutation lifecycle cannot be bypassed" | violated |
| `exec_unaudited` | "audit trail of all mutations" | violated |
| `wf_queue` | two concurrent submits, with cancel, pause, resume, foreign removals and raising publishes | `QueueIndexed`, `TaskConservation`, `HonestReply`, the refinement of `TaskExchange`, and `CallsSettle`: every call ends, unless the execution service never answers it |
| `wf_crossed` | a result belongs to its workflow | violated |
| `wf_cancel` | "Cancel a running or pending workflow." | violated |
| `lc_phases` | one operation over chains, diamonds, circles, self-dependencies, broken graphs; two in a row with the registry changing in between; one with the registry changing while it awaits its hooks | types, `OrderIsTopological`, `VisitOrder`, `HealthTruthful`, `ReportIsComplete`, `FailedStartupIsUndone` |
| `lc_still_booted` | "roll back by calling `stop()` and `shutdown()`" | violated |
| `core_services` | two concurrent calls on each service of the kernel | `OneSingleton`, `NoDeadlock` and `ValidatorAgrees` of the container; `IndexesAgree` and `SubscribersSeeStore` of the memory; `IdentitiesAgree` and `CurrentIsLatestSet`; `PlansAreOrders`; `OneVerdict`; `NoOrphanAdapters`; types |
| `android_commands` | three commands on each unit, executed and rolled back in any order, with or without their result | settings stay legal, `LevelsInRange`, `UndoRestoresExactly`, `UndoIsConfined`, `MessagesConserved` |
| `android_undo` | "`rollback()` then uses this to restore exactly" | violated |

The violated ones are the findings of `PROJECT.json`, each with the line of the
repository that promises what the code does not do. More observations are
recorded at their lines under "hazards" and have no run of their own. In three of
them a document disagrees:

- a second `discover` forgets that a plugin is enabled, and an `unload` overtaken by
  an `enable` writes over it (`plugins/manager.py:81`, `:134`), where ADR-0014:20
  speaks of a strict lifecycle `DISCOVERED -> LOADED -> ENABLED`;
- `clear` and `shutdown` of the memory publish nothing (`memory/manager.py:184`,
  `:43`), where `memory.md:35` says that events are emitted for all mutation
  operations;
- a negative step takes the volume or the brightness out of 0..100
  (`volume.py:110-121`, `bridge/system.py:81-93`), where ADR-0019:89 and ADR-0020:95
  say that the level is clamped.

In the others no document speaks of the case: a capability replaced after the
confirmation runs on it (`execution/service.py:135`), a soft failure is announced as
a success (`android/capabilities/base.py:39`), the dependents of an optional
component that failed start without it (`lifecycle/orchestrator.py:132`), a component
that is unregistered during a failing startup stays started (`:141`), factories that
resolve each other in their bodies deadlock (`container/resolver.py:71`), a session
that was closed elsewhere stays current (`identity/authentication.py:122`).

### Exceptions in the properties

Some properties name what they do not cover, because the code does it; a history
variable or the state itself marks the case.

- `IndexesAgree` up to an update that gives a record the id of another one
  (`overwritten`); `SubscribersSeeStore` up to a change no event tells of: `clear`,
  `shutdown`, a new id, a publish that raised (`unheard`).
- `OneSingleton` and `NoDeadlock` for services whose registration was not changed
  under a build; `NoDeadlock` says that calls wait for each other only where
  something depends on itself. Eviction during a build and deadlock over a circle are
  therefore left out by these two, not caught.
- `ValidatorAgrees` for resolves that did not end with an exception of a constructor
  of their own (`failed`): `validate()` constructs nothing and cannot foresee it.
- `CurrentIsLatestSet` up to the moment an inner frame is closed after an outer one
  (`order`). It is about the frames of one context, not about the registry of
  sessions: what is current is not asked whether it is still registered.
- `OneVerdict` has listeners hear both verdicts when a middleware raised after it had
  passed `Completed` on (`Recanted`).
- `FailedStartupIsUndone` leaves out the components that were unregistered during the
  phase, which the rollback passes over.
- `LevelsInRange` up to a command with a negative step.
- `CallsSettle` lets a call wait for ever for the execution service, and for nothing
  else.
- `UndoRestoresExactly` for the commands in `Exact`; the ones left out are undone
  by the inverse action, which is the finding of `android_undo`, or not at all. A
  level that was out of range is clamped by the rollback and left out too.
- `PluginFramework` has no property but its types: the strict lifecycle does not hold,
  and what is left of it once the two cases above are exempted says nothing.

### Bounds, and why they are enough

- *Commands* of the pipeline: one where everything else moves, two for liveness.
  Commands share only the registry and the policy store, and those move freely
  under a single command already. The proofs cover any number.
- *Capabilities*: one id that three mutating objects compete for, one per kind of
  metadata the code tells apart, and one read-only.
- *Policies*: two revisions of one id and a stricter policy that shadows it or is
  shadowed, by load order.
- *Submits*: two, so that they cross; they may share a workflow or not.
- *Components*: three, the least with a diamond edge, a chain with something in
  the middle, and a cycle of more than two. Two calls in a row, and a registry that
  changes during a phase, are looked at on a chain with an optional part, where a
  newcomer may take the name of that part.
- *Services*: two concurrent calls, the least that can wait for each other,
  overtake each other between two awaits, or build one thing twice. The container
  has three services (a cycle through a third, a shared dependency), one scope and
  `MaxChanges = 1` change of a registration; the memory two ids, two namespaces
  and `MaxOperations = 4`, the least for a clean-up, its competitor and two
  records, with every policy; identities two people and an object with the id of
  one and the name of the other, two sessions, two contexts
  and one pair that middlewares set (a session with the identity it was, or was not,
  issued to), nested `MaxFrames = 2` deep, with the grants,
  which only the authorization reads, in behaviours of their own; plugins two, with
  `MaxPublishes = 6`; the planner three tasks, circles of one, two and three, and
  `MaxPlannerChanges = 4`; the tool registry two ids, an alias, a
  tool of somebody else under one of them, and `MaxRegistrations = 2`.
- *Android*: three commands per unit, so that two rollbacks can enclose a third
  command; `MaxLevel = 3` stands for 100 and `MCLevels` has the neighbours of both
  ends, legal and not; steps of -1, 1 and 2 reach and overshoot either end and
  go the wrong way; two
  of each thing that can be confused with another.

`SYMMETRY` is used in `android_commands` over the commands, which are
interchangeable; the run has no liveness property.
`CHECK_DEADLOCK FALSE` is set where the operations are bounded or each command
is executed once, so that the instance does stop: `core_services` and the
Android runs. Waiting for each other is `NoDeadlock` there.

### Fairness

`FairSpec` of the pipeline and of the workflow engine gives weak fairness to each
coroutine separately: asyncio runs every ready coroutine, and capabilities and
sinks answer. It is *not* assumed that a user answers
a confirmation (`CommandsSettle` lets a command wait for its own user, and shows
it holds up nobody else), nor, for the same reason, that the execution service
answers a workflow (`CallsSettle`), nor that anybody registers, loads, cancels or submits
anything. `FairSpec` of the lifecycle assumes that hooks end, by themselves or
by their timeout; it is the specification of `lc_still_booted`, whose
counterexample is a behaviour in which every hook does end.

## 4. Proofs

The proof modules extend the module they are about, and their theorems hold for
every value of its constants: any number of commands, calls, capabilities,
records, sessions, plugins, and without the bounds of section 3 where those are
constants that the instance alone gives a value. Constants are assumed to be
typed as their `ASSUME` says (`PipelineAssumption`, `MemoryAssumption`, ...): every
one says that `None` is not also a value of something, that a set (of names, of
services) is finite, where a record's fields come from (a request to the brain names
a goal or none, a request for a tool an id), or that a retention policy is one of
the four kinds there are. TLC evaluates them in the runs. `PROJECT.json` lists the
theorems; the lemmas they rest on are in the modules.

| Module | Theorems | Inductive invariant |
| --- | --- | --- |
| `ExecutionPipelineProofs` | `TypeOK`, `AuthorizedExecution`, `DenialIsInert`, `ConfirmedMutation`, `RollbackOnlyOfFailure`, `OutcomeMatchesEvents` | `IInv` |
| | `RollbackReported`, `AuditTrail`, `MutationsAudited`, `EarlierPolicyWins`, refinement of `GuardedExecution` | `AnswerInv` |
| `WorkflowProofs` | `TypeOK`, `QueueIndexed`, `TaskConservation`, `HonestReply` | `WorkflowInv` |
| | refinement of `TaskExchange` | `WorkflowInv` with `Executed` |
| `StoreProofs` | `LookupsAreScans`, `IndexesAgree`, `SubscribersSeeStore`; `MemoryTypeOK` | `MemoryInv`; `HistoryOK` |
| | `IdentitiesAgree`, `CurrentIsLatestSet`, `IdentityTypeOK` | `RegistryInv`, `CurrentInv`, `LivesOK` |
| | `PluginTypeOK` | `PluginsOK` |
| `RequestProofs` | `OneVerdict`, of the tool runtime and of the brain | `ProtocolInv`, `BrainInv` |
| | `NoOrphanAdapters` | `RuntimeInv` |
| | `PlansAreOrders` | `PlannerInv` |
| | `RequestTypeOK`, `ToolTypeOK`; `AndroidTypeOK`; `PlannerTypeOK`, `BrainTypeOK` | with `HeardOK`, `FiledOK`, `RunsOK`; `StatusOK`; `GoalsOK`, `PlansOK` |
| `LifecycleProofs` | `TypeOK`, `OrderIsTopological`, `VisitOrder`, `HealthTruthful`, `ReportIsComplete`, `FailedStartupIsUndone` | `LifecycleInv` |
| `ContainerProofs` | `ContainerTypeOK`, `OneSingleton`, `NoDeadlock` | `ContainerInv` |
| | `ValidatorAgrees` | `ContainerInv` with `Foresight` |
| | refinement of `SharedInstances` | `ContainerInv` with `ShareInv` |
| `ServicesProofs` | `ServicesTypeOK` and every other invariant of `core_services`, of the composition | `StackOK` |
| `AndroidProofs` | `DevicesTypeOK`, `LevelsInRange`, `MessagesConserved`, `UndoRestoresExactly`, `UndoIsConfined` | `AndroidInv` |

**ExecutionPipeline.** A property such as "what ran was authorized" speaks of a
command that is done; it is kept by no single step, because the step that runs
the capability does not look at the decision again. `IInv` therefore says, for
each await a command may be suspended in, which closing event has been published
(`ClosingInv`), who authorized it (`AuthorityInv`) and what the mutation lifecycle
has established (`LifecycleInv`). Each of the three has a lemma with one step per
action, and `OthersUntouched` with `UntouchedInv` settle all other commands at
once. A publish that raises is the second disjunct of `PublishEffect`.

The second half goes on to what the caller is left with. `AnswerInv` adds
three parts to `IInv`. `AuditInv`: the trail of a command is empty until its
lifecycle reaches the audit, which comes last, so the record is that of the final
outcome; a sink that fails is skipped alone, hence the reliable ones have it.
`RollbackInv`: past the awaits of the rollback one of its two reports is out, and
both can be only where a middleware raises after the first was delivered, which
sends the lifecycle into its own `except`. `PhaseInv` is what the refinement needs:
at the awaits of the service a command that has not run cannot look as if it had.
`PipelineRefines` maps the awaits to the phases of `GuardedExecution` (`phaseBar`, `answerBar`); most actions of
the pipeline are stutters there (`BarMoves`), and `GuardedStep` goes through those
that are not. `EarlierPolicyWins` needs no invariant but a lemma on lists: the least
matching policy of a list stays the least when one is appended (`LeastOfLonger`).

**WorkflowEngine.** A call takes the *oldest* task, so conservation cannot be followed
call by call; `Placed` says it for all tasks: every task that was enqueued is in the
queue, removed by other code, or with exactly one call, and `Progress` adds what a
call knows at each of its awaits. `TailKeeps` and `AppendKeeps` are the two facts
about lists without duplicates that `submit` needs. The list comprehension of
`remove()` is a recursive function (`Kept`): what it keeps of such a list is the list
without the one task, in the same order and still without duplicates.

For `EngineRefines` the state of a task is read off the tables (`taskBar`), so a step
of a call on somebody else's task moves that task. The abstract `Execute` is enabled
only for a task that was not executed, and `HonestReply` does not say that; `Executed`
does: an outcome exists only of a task some call has, and not while that call is
still before its dispatch. That no two calls have one task (`Placed`) then leaves
nobody else who could execute it.

**MemoryEngine.** For the indexes there is one lemma per operation (`AddConsistent`,
`RemoveConsistent`, `UpdateKeeps`), and `LookupsAreScans` states what they are for:
look-ups by namespace, owner and tags find what a scan would. That subscribers
know the store is not inductive by itself, for it says nothing while an event is
on its way; `HeardInv` says that the lock belongs to the call that publishes, and
that what is missing from what the subscribers know is the one event in its hands
(`Told`). This is exactly where the proof uses that the lock is held across the
publish.

**IdentityService.** `CurrentIsLatestSet` needs that each frame remembers what the
frame below it has set (`Chained`), as long as frames were closed innermost first,
and that the reset of the innermost frame therefore brings back what the next one
set. `TopIsLast` and `BoundedSetHasMax` say that the latest of several frames of a
session exists; it is where well-foundedness of the numbers enters.

**AndroidRuntime.** `NoOrphanAdapters` is inductive together with the types;
`RegistrationKeepsInv` is the registration that the registry of tools refuses
half-way.

**Requests.** The invariant is stated once, for `RequestProtocol`, and shown for both
components that fill it in. A verdict takes many steps to reach its subscribers
and handlers leave or raise meanwhile; `OnItsWay` says that whoever was listening
when it was published has heard it or is still in `left`, and that nobody has
heard the other one; of a success that was recanted, `AllHeard` says that its
listeners know it when the failure follows. That a handler which fails
does no more than leave `left` (`BusStep`) is where the proof uses that the bus
gathers the failures.

What the type invariants say beyond types is what a caller relies on. The tool
runtime runs a tool at most once for a request and has run it when it answers with
success (`RunsOK` relates `ran` to the await the request is at); the brain answers
with success only when the plan of the goal it was asked about was stored
(`PlansOK`), although goals and tasks change between its stages.

**Recursion.** The execution order, the plan of a goal and the validator are loops
or recursive searches, modelled as recursive functions. The provers have no
induction, but naturals are well founded: a non-empty set of them has a least
member (`HasLeast`, `LeastOf`), so every induction is written as the search for a
least counterexample. A recursive function stands for a `CHOOSE`, of which nothing
is known until such a function is shown to exist; `TurnsExist`, `OrdersExist`,
`VisitExists` and `DiagnosisExists` do that, by extending a function that is right
for all smaller arguments. The search of a cycle check or of the validator is
bounded by what is not yet on its path, which is why tasks, services and
components are assumed or shown to be finite in number.

**ComponentRegistry and LifecycleOrchestrator.** `OrderIsTopological` says both
directions: Kahn's loop orders everything unless components wait for each other in
a circle, and reports a circle only where there is one. The invariant of the loop
is that what is popped is closed under dependencies and that the in-degree of the
rest counts what is missing; when nothing is left to pop, the rest is the circle.
`LifecycleInv` follows one call at a time (`OneCall`): on its way forward what has
succeeded, what has failed and what is ahead are the enabled components, each
once, and nothing ahead is a dependency of something behind (`WalkInv`); on its way
back what began is still to be undone, or is `STOPPED` without its hook or `FAILED`
(`UndoInv`). The route of each phase comes from the order (`VisitsRoute`), for a
shutdown also when the registry has become unorderable and priorities decide.
`ComponentAssumption` asks for finitely many names that are ordered without ties,
as Python's comparison of strings does.

**DependencyContainer.** `ContainerInv` describes the stacks: an outer frame waits for
the parameter its inner frame resolves (`Asked`), a lock is held by exactly one
frame that is inside (`LockInv`), and a singleton whose registration was not
touched is unbuilt or cached (`QuietInv`). The second look after the lock is where
`OneSingleton` is won. For `NoDeadlock`, take the waiting call whose service has the
lowest rank in the graph: the holder of its lock waits too, for something lower.

`ResolverRefines` maps the frames that are inside the lock of a service to the
builders of its instance (`buildersBar`) and the cache to the cell (`cellBar`). One
step of a call may end a build, return to an outer frame and answer the caller;
`ShareInv` says that the outermost frame is what the call asked for, that a frame whose
second look succeeded returns what is in the cache, and that whatever is cached was
built. That there is never a second builder is `LockInv`.

`ValidatorAgrees` compares two evaluations of one graph: the validator searches along
chains, without a memory; the resolver stops at what any call has cached, in an
order other calls influence. Both are compared with a third, the verdicts that can
be reached bottom-up: verdicts with ranks such that each follows from verdicts of
lower rank (`Ranked`), and everything unreached is on a circle (`Final`). Such
verdicts exist (`FinalVerdicts`: of those that can be reached take the fewest
circles) and the search computes them (`SearchFindsAll`). `Foresight` is the invariant
of the resolver: what is cached is valid, the parameters a frame has done pass, an
exception on its way up is the verdict on the frame it has reached. A resolve that
comes back to its own chain proves a circle, for ranks would fall all the way
round it (`CircleSeen`).

**Planner.** `PlansAreOrders` likewise says both directions: a plan where the tasks can be
ordered, a `PlannerError` where they cannot. `PossibleHasNoCircle` and
`WaitingIsCircle` connect the depth-first search with the existence of an order,
`SortGrows` shows that the sort never runs dry before it is complete, so the last
check of `topological_sort` (`graph.py:68`) never fires.

**Android.** The invariant keeps every unit in its range (`UnitOK`) and, of every
command that may still be rolled back, that its result has the data of the state
it found (`CommandOK`). What a rollback may delete or bring back has to be the
command's own: ids of commands that have not run are not in use (`FreshIds`), and a
notification is active or taken away by exactly one command (`OncePresent`).
`LevelsInRange` is a property of the past, that no command yet had a negative step, and
is shown beside the invariant (`LevelsStep`). Nothing is assumed of steps but that
they are integers.

**The services together.** `MCServices` is proved about as well as run. `EachByItself`:
the composition implements the container, the memory, the identities and the
plugins, so what is proved of each carries over. The brain, the tools and the Android
runtime share the bus, the protocol of requests and the registry of tools; `StackOK`
is their common invariant, with a case for whether requests are for tools or for the
brain. `ServicesTypes` and `ServicesHold` state the invariants of `core_services` for
every value of the constants.

**Checked by TLC and not proved.** Liveness (`CommandsSettle`, `CallsSettle`),
which is out of the prover's reach, and the runs that expect a
violation, which are counterexamples. Every invariant and every other action or
refinement property of the passing runs has a theorem.

**Proved and not in a run.** `ImplementsSharedInstances`: TLC agrees with it on the
instance of `core_services`, but evaluating the mapping at every step is costly there,
and the run is the longest one already. `TypeOK` of the workflow engine, which the others rest on.

## 5. What is left

- `WorkflowEngine` composed with `ExecutionPipeline` in place of the set of outcomes
  it uses for the execution service. The set has every outcome the pipeline has.
- An abstract specification of the lifecycle (the set of started components grows
  and shrinks downward closed), with a refinement; `LifecycleInv` has what its proof
  needs. `SharedInstances` covers singletons and not the instances of a scope, which
  the code builds without a lock.

## 6. Not modelled

- *Configuration*: files and environment are read and merged once, at start-up, in
  a straight line; nothing changes or races afterwards.
- *Logging*: formatting and output. That a log sink can raise is an outcome of the
  step that logs, where the code does not catch it.
- *Bootstrap* and the `*_module.py` files of each package: they register factories
  with the container. What depends on order is the order of the lifecycle, which
  `lc_phases` covers.
- Actions that only read (`get`, `list`, `status`...), of the kernel's managers and of
  the capabilities; battery, clipboard and location have no others. The score by
  which `search` ranks, which changes what is returned first and no state.
- Texts, timestamps, payloads and correlation ids; an expiry is a Boolean the
  environment turns, except in the memory, where retention compares times.
- Two lifecycle operations at once. `LifecycleOrchestrator` takes no lock and has no
  caller that overlaps two; the model makes calls one at a time. The registry does
  change while one is under way.
  `ComponentRegistry.replace` is `remove` and `register` without a step between.
- A middleware that calls the rest of the chain twice or hands it another event; none
  in the repository does.
- The permission kernel's authorizer and validator, beyond that they deny or raise,
  and the `start` and `shutdown` of managers that only set a flag nobody reads.
