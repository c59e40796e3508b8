------------------------- MODULE LifecycleOrchestrator -------------------------
(***************************************************************************)
(* The lifecycle manager (core/lifecycle): boot, start, stop, shutdown and *)
(* restart walk the components in dependency order, calling three hooks of *)
(* each; a critical failure rolls a startup phase back.                    *)
(*                                                                         *)
(* One action is what a call does from one awaited hook to the next.  A    *)
(* hook returns, or raises (an exception, a timeout, or a hook that is not *)
(* a coroutine); a hook a component lacks returns at once.                 *)
(***************************************************************************)
EXTENDS ComponentRegistry

CONSTANTS
    Calls,         \* calls of the manager's asynchronous operations
    Operations     \* the operations they may be

VARIABLES
    health,   \* the HealthMonitor's state of each component
    pc,       \* where each call is: "idle", a hook it awaits, or "returned"
    op,       \* the phase it is in
    again,    \* it is a restart
    todo,     \* registrations still to visit, the current one first
    undo,     \* names still to roll back, the current one first
    begun,    \* started (or stopped) components of the phase, in order
    errors,   \* components that failed in the phase
    report,   \* the success field of the report
    live,     \* history: the phases whose action hook a component of the name has gone through
    seen,     \* history: the registry as the phase under way has read it
    broken,   \* history: whether it found no order of the components there
    removed   \* history: names unregistered since then

callVars == <<pc, op, again, todo, undo, begun, errors, report>>
registryVars == <<components, seen, broken, removed>>
vars == <<registryVars, health, callVars, live>>

Phases == {"boot", "start", "stop", "shutdown"}
Startup == {"boot", "start"}
InProgress == [boot |-> "BOOTING", start |-> "STARTING", stop |-> "STOPPING",
               shutdown |-> "SHUTTING_DOWN"]
Success == [boot |-> "BOOTED", start |-> "RUNNING", stop |-> "STOPPED", shutdown |-> "STOPPED"]
Undoing == [boot |-> "shutdown", start |-> "stop"]
ComponentState == {"CREATED", "BOOTING", "BOOTED", "STARTING", "RUNNING", "STOPPING", "STOPPED",
                   "SHUTTING_DOWN", "FAILED", "RESTARTING"}

ASSUME CallAssumption ==
    /\ Operations \subseteq Phases \cup {"restart"}
    /\ None \notin ComponentState

Hooks == {"before", "action", "after"}
Undos == {"undo_before", "undo_action", "undo_after"}

TypeOK ==
    /\ components \in [Names -> Registrations \cup {None}]
    /\ health \in [Names -> ComponentState \cup {None}]
    /\ pc \in [Calls -> Hooks \cup Undos \cup {"idle", "returned"}]
    /\ op \in [Calls -> Phases \cup {None}]
    /\ again \in [Calls -> BOOLEAN]
    /\ todo \in [Calls -> Seq(Registrations)]
    /\ undo \in [Calls -> Seq(Names)]
    /\ begun \in [Calls -> Seq(Names)]
    /\ errors \in [Calls -> SUBSET Names]
    /\ report \in [Calls -> BOOLEAN \cup {None}]
    /\ live \in [Names -> SUBSET Startup]
    /\ seen \in [Names -> Registrations \cup {None}]
    /\ broken \in BOOLEAN
    /\ removed \subseteq Names

Init ==
    /\ components = [n \in Names |-> None]
    /\ health = [n \in Names |-> None]
    /\ pc = [t \in Calls |-> "idle"]
    /\ op = [t \in Calls |-> None]
    /\ again = [t \in Calls |-> FALSE]
    /\ todo = [t \in Calls |-> << >>]
    /\ undo = [t \in Calls |-> << >>]
    /\ begun = [t \in Calls |-> << >>]
    /\ errors = [t \in Calls |-> {}]
    /\ report = [t \in Calls |-> None]
    /\ live = [n \in Names |-> {}]
    /\ seen = components
    /\ broken = FALSE
    /\ removed = {}

Active(t) == pc[t] \notin {"idle", "returned"}

\* Calls are made one at a time: the manager has no lock, and overlapping phases would
\* overwrite each other's records of health.  The registry may change at any time.
Free == \A t \in Calls : ~ Active(t)

-----------------------------------------------------------------------------
(***************************************************************************)
(* The phases.                                                             *)
(***************************************************************************)
Enabled(names) ==
    LET upto[i \in 0..Len(names)] ==
            IF i = 0 THEN << >>
            ELSE IF components[names[i]].enabled THEN Append(upto[i - 1], components[names[i]])
            ELSE upto[i - 1]
    IN  upto[Len(names)]

\* Mutant: a shutdown visits the components in startup order.
Visits_Unreversed(phase) == Enabled(IF Orderable THEN ExecutionOrder ELSE PriorityOrder)

\* The components a phase visits: in dependency order, or in reverse; a broken
\* graph is shut down by reverse priority.
Visits(phase) ==
    IF phase \in Startup THEN Enabled(ExecutionOrder)
    ELSE Enabled(Reverse(IF Orderable THEN ExecutionOrder ELSE PriorityOrder))

\* The call turns to the next component of "rest", the health of the last one being
\* h; or it returns its report.
Turn(t, phase, rest, h) ==
    /\ todo' = [todo EXCEPT ![t] = rest]
    /\ IF rest = << >>
       THEN /\ pc' = [pc EXCEPT ![t] = "returned"]
            /\ report' = [report EXCEPT ![t] = phase \in Startup \/ errors'[t] = {}]
            /\ health' = h
       ELSE /\ pc' = [pc EXCEPT ![t] = "before"]
            /\ health' = [h EXCEPT ![Head(rest).name] = InProgress[phase]]
            /\ UNCHANGED report

\* _run_startup_phase and _run_shutdown_phase up to the first await.
Enter(t, phase, h) ==
    /\ seen' = components /\ broken' = ~ Orderable /\ removed' = {}
    /\ op' = [op EXCEPT ![t] = phase]
    /\ begun' = [begun EXCEPT ![t] = << >>]
    /\ errors' = [errors EXCEPT ![t] = {}]
    /\ IF phase \in Startup /\ ~ Orderable
       THEN /\ pc' = [pc EXCEPT ![t] = "returned"]
            /\ report' = [report EXCEPT ![t] = FALSE]
            /\ todo' = [todo EXCEPT ![t] = << >>]
            /\ health' = h
       ELSE Turn(t, phase, Visits(phase), h)

\* restart() is stop() and, if that succeeds, start(): with nothing to stop the
\* call goes on to start within the same step.
Begin(t) ==
    /\ pc[t] = "idle"
    /\ Free
    /\ \E o \in Operations :
           /\ again' = [again EXCEPT ![t] = (o = "restart")]
           /\ IF o # "restart" THEN Enter(t, o, health)
              ELSE Enter(t, IF Visits("stop") = << >> THEN "start" ELSE "stop", health)
    /\ UNCHANGED <<components, undo, live>>

-----------------------------------------------------------------------------
Current(t) == Head(todo[t]).name
NextHook == [before |-> "action", action |-> "after",
             undo_before |-> "undo_action", undo_action |-> "undo_after"]

\* The action hook of a phase has returned.
Through(n, phase) ==
    [live EXCEPT ![n] = IF phase \in Startup THEN @ \cup {phase}
                        ELSE {p \in @ : Undoing[p] # phase}]

\* before_ or action hook of the current component.
HookReturns(t) ==
    /\ pc[t] \in {"before", "action"}
    /\ pc' = [pc EXCEPT ![t] = NextHook[pc[t]]]
    /\ live' = IF pc[t] = "action" THEN Through(Current(t), op[t]) ELSE live
    /\ UNCHANGED <<registryVars, health, op, again, todo, undo, begun, errors, report>>

\* after_ hook: the component is done.  The last one of the stop half of a restart
\* is followed by the start half.
ComponentDone(t) ==
    /\ pc[t] = "after"
    /\ LET h == [health EXCEPT ![Current(t)] = Success[op[t]]]
       IN  IF again[t] /\ op[t] = "stop" /\ Tail(todo[t]) = << >> /\ errors[t] = {}
           THEN Enter(t, "start", h)
           ELSE /\ begun' = [begun EXCEPT ![t] = Append(@, Current(t))]
                /\ UNCHANGED <<op, errors, seen, broken, removed>>
                /\ Turn(t, op[t], Tail(todo[t]), h)
    /\ UNCHANGED <<components, again, undo, live>>

\* Mutant: a failing hook ends a shutdown.
HookRaises_Stops(t) ==
    /\ pc[t] \in Hooks
    /\ op[t] \in Startup => ~ Head(todo[t]).critical
    /\ errors' = [errors EXCEPT ![t] = @ \cup {Current(t)}]
    /\ Turn(t, op[t], << >>, [health EXCEPT ![Current(t)] = "FAILED"])
    /\ UNCHANGED <<registryVars, op, again, undo, begun, live>>

\* Mutant: a non-critical component that fails is taken for a started one.
HookRaises_Tolerated(t) ==
    /\ pc[t] \in Hooks
    /\ op[t] \in Startup => ~ Head(todo[t]).critical
    /\ errors' = [errors EXCEPT ![t] = @ \cup {Current(t)}]
    /\ Turn(t, op[t], Tail(todo[t]), [health EXCEPT ![Current(t)] = Success[op[t]]])
    /\ UNCHANGED <<registryVars, op, again, undo, begun, live>>

\* Mutant: the failure is recorded as DEGRADED, a state the enumeration lacks.
HookRaises_Degraded(t) ==
    /\ pc[t] \in Hooks
    /\ op[t] \in Startup => ~ Head(todo[t]).critical
    /\ errors' = [errors EXCEPT ![t] = @ \cup {Current(t)}]
    /\ Turn(t, op[t], Tail(todo[t]), [health EXCEPT ![Current(t)] = "DEGRADED"])
    /\ UNCHANGED <<registryVars, op, again, undo, begun, live>>

\* A hook of a shutdown, or of a non-critical component, raises: go on.
HookRaises(t) ==
    /\ pc[t] \in Hooks
    /\ op[t] \in Startup => ~ Head(todo[t]).critical
    /\ errors' = [errors EXCEPT ![t] = @ \cup {Current(t)}]
    /\ Turn(t, op[t], Tail(todo[t]), [health EXCEPT ![Current(t)] = "FAILED"])
    /\ UNCHANGED <<registryVars, op, again, undo, begun, live>>

\* _rollback() turns to the next name that is still registered, or the failed
\* report is returned.
TurnBack(t, rest, h) ==
    LET known == {i \in DOMAIN rest : components[rest[i]] # None}
        next == IF known = {} THEN << >>
                ELSE SubSeq(rest, CHOOSE i \in known : \A j \in known : i <= j, Len(rest))
    IN  /\ undo' = [undo EXCEPT ![t] = next]
        /\ IF next = << >>
           THEN /\ pc' = [pc EXCEPT ![t] = "returned"]
                /\ report' = [report EXCEPT ![t] = FALSE]
                /\ health' = h
           ELSE /\ pc' = [pc EXCEPT ![t] = "undo_before"]
                /\ health' = [h EXCEPT ![Head(next)] = "SHUTTING_DOWN"]
                /\ UNCHANGED report

\* Mutant: the rollback forgets the component that was started first.
CriticalFailure_KeepsFirst(t) ==
    /\ pc[t] \in Hooks
    /\ op[t] \in Startup /\ Head(todo[t]).critical
    /\ errors' = [errors EXCEPT ![t] = @ \cup {Current(t)}]
    /\ todo' = [todo EXCEPT ![t] = << >>]
    /\ TurnBack(t, Reverse(SubSeq(begun[t], 2, Len(begun[t]))),
                [health EXCEPT ![Current(t)] = "FAILED"])
    /\ UNCHANGED <<registryVars, op, again, begun, live>>

\* A critical component fails in a startup phase: the ones before it are rolled
\* back, newest first.
CriticalFailure(t) ==
    /\ pc[t] \in Hooks
    /\ op[t] \in Startup /\ Head(todo[t]).critical
    /\ errors' = [errors EXCEPT ![t] = @ \cup {Current(t)}]
    /\ todo' = [todo EXCEPT ![t] = << >>]
    /\ TurnBack(t, Reverse(begun[t]), [health EXCEPT ![Current(t)] = "FAILED"])
    /\ UNCHANGED <<registryVars, op, again, begun, live>>

UndoReturns(t) ==
    /\ pc[t] \in {"undo_before", "undo_action"}
    /\ pc' = [pc EXCEPT ![t] = NextHook[pc[t]]]
    /\ live' = IF pc[t] = "undo_action" THEN Through(Head(undo[t]), Undoing[op[t]]) ELSE live
    /\ UNCHANGED <<registryVars, health, op, again, todo, undo, begun, errors, report>>

UndoDone(t) ==
    /\ pc[t] = "undo_after"
    /\ TurnBack(t, Tail(undo[t]), [health EXCEPT ![Head(undo[t])] = "STOPPED"])
    /\ UNCHANGED <<registryVars, op, again, todo, begun, errors, live>>

\* A rollback that fails is recorded, and the others go on.
UndoRaises(t) ==
    /\ pc[t] \in Undos
    /\ TurnBack(t, Tail(undo[t]), [health EXCEPT ![Head(undo[t])] = "FAILED"])
    /\ UNCHANGED <<registryVars, op, again, todo, begun, errors, live>>

-----------------------------------------------------------------------------
(***************************************************************************)
(* The registry, through the manager's facade.                             *)
(***************************************************************************)
\* Between phases there is no reading that a change could be behind.
Noted(names) ==
    IF Free THEN seen' = components' /\ broken' = FALSE /\ removed' = {}
    ELSE removed' = removed \cup names /\ UNCHANGED <<seen, broken>>

Register(r) ==
    /\ RegisterComponent(r)
    /\ health' = [health EXCEPT ![r.name] = "CREATED"]
    /\ Noted({})
    /\ UNCHANGED <<callVars, live>>

Unregister(n) == RemoveComponent(n) /\ Noted({n}) /\ UNCHANGED <<health, callVars, live>>
Update(r) == UpdateComponent(r) /\ Noted({}) /\ UNCHANGED <<health, callVars, live>>

HookStep(t) ==
    \/ HookReturns(t) \/ ComponentDone(t) \/ HookRaises(t) \/ CriticalFailure(t)
    \/ UndoReturns(t) \/ UndoDone(t) \/ UndoRaises(t)

Next ==
    \/ \E t \in Calls : Begin(t) \/ HookStep(t)
    \/ \E r \in Registrations : Register(r) \/ Update(r)
    \/ \E n \in Names : Unregister(n)

Spec == Init /\ [][Next]_vars

\* Every awaited hook ends: by itself, or by its timeout.
FairSpec == Spec /\ \A t \in Calls : WF_vars(HookStep(t))
-----------------------------------------------------------------------------
(***************************************************************************)
(* What must hold.                                                         *)
(***************************************************************************)

\* No phase reaches a component while one it must wait for is still to be visited:
\* a startup phase its dependencies, a shutdown or a rollback its dependents; all as
\* they were registered when the phase began, whatever is registered meanwhile.
VisitOrder ==
    \A t \in Calls :
        /\ \A j \in 2..Len(todo[t]) :
              IF op[t] \in Startup THEN todo[t][j].name \notin todo[t][1].dependencies
              ELSE ~ broken => Current(t) \notin todo[t][j].dependencies
        /\ \A j \in 2..Len(undo[t]) : undo[t][1] \notin seen[undo[t][j]].dependencies

\* The monitor says RUNNING (BOOTED) only of a component whose start (boot) hook
\* has returned and has not been undone since.
HealthTruthful ==
    \A n \in Names :
        /\ health[n] = "RUNNING" => "start" \in live[n]
        /\ health[n] = "BOOTED" => "boot" \in live[n]

Returns(t) == pc[t] # "returned" /\ pc'[t] = "returned"

EnabledThen == {n \in Names : seen[n] # None /\ seen[n].enabled}

\* A report accounts for every component that was enabled when its phase began,
\* although components come, change and go during the phase.  A shutdown visits them
\* all, even when some fail, and succeeds when none does; a startup succeeds when the
\* only ones that failed are not critical, and fails for a reason.
ReportIsComplete ==
    [][\A t \in Calls :
           Returns(t) =>
               LET good == ToSet(begun'[t])
                   bad == errors'[t]
               IN  IF op'[t] \notin Startup
                   THEN good \cup bad = EnabledThen' /\ report'[t] = (bad = {})
                   ELSE IF report'[t]
                   THEN /\ good \cup bad = EnabledThen'
                        /\ \A n \in bad : ~ seen'[n].critical
                   ELSE broken' \/ \E n \in bad : seen'[n].critical]_vars

\* When a startup phase reports failure, each component it had started has gone
\* through the opposite hook and is STOPPED, or is recorded as FAILED; but for those
\* that were unregistered during the phase, which the rollback does not find
\* (orchestrator.py:141-143).
FailedStartupIsUndone ==
    [][\A t \in Calls :
           (Returns(t) /\ op'[t] \in Startup /\ ~ report'[t]) =>
               \A n \in ToSet(begun'[t]) \ removed' :
                   \/ health'[n] = "STOPPED" /\ op'[t] \notin live'[n]
                   \/ health'[n] = "FAILED"]_vars

(***************************************************************************)
(* What the documents say and the code does not do.                        *)
(***************************************************************************)

=============================================================================
