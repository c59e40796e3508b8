----------------------------- MODULE PlannerGoals -----------------------------
(***************************************************************************)
(* The planner (core/planner): goals, tasks, and the plan of a goal, which *)
(* is its tasks in an order that respects their dependencies.              *)
(***************************************************************************)
EXTENDS EventLoop

CONSTANTS
    GoalIds,
    TaskIds,         \* integers: tasks of one priority are ordered by id
    TaskDrafts,      \* tasks that can be created
    TaskMoves,       \* states callers move tasks to
    MaxPlannerChanges \* bound on the changes of goals and tasks

VARIABLES
    goal,    \* GoalManager: the state of a goal, or None
    task,    \* TaskManager: a task, or None
    plannerChanges

plannerVars == <<goal, task, plannerChanges>>

GoalStates == {"NEW", "PLANNING", "READY", "RUNNING", "COMPLETED", "FAILED", "CANCELLED"}
TaskStates == {"PENDING", "READY", "SUCCESS", "FAILED", "SKIPPED"}
TaskRecords == {[d EXCEPT !.state = state] : d \in TaskDrafts, state \in TaskStates}

\* None is no task and no plan.
ASSUME PlannerAssumption ==
    /\ TaskIds \subseteq Int /\ TaskMoves \subseteq TaskStates
    /\ \A d \in TaskDrafts :
          /\ d.id \in TaskIds /\ d.priority \in Int /\ d.state \in TaskStates
          /\ d = [id |-> d.id, goal |-> d.goal, dependencies |-> d.dependencies,
                  priority |-> d.priority, state |-> d.state]
    /\ None \notin TaskRecords /\ None \notin Seq(TaskIds)

PlannerInit ==
    /\ goal = [g \in GoalIds |-> None]
    /\ task = [t \in TaskIds |-> None]
    /\ plannerChanges = 0

PlannerChange == plannerChanges < MaxPlannerChanges /\ plannerChanges' = plannerChanges + 1

-----------------------------------------------------------------------------
CreateGoal(g) ==
    /\ PlannerChange /\ goal[g] = None
    /\ goal' = [goal EXCEPT ![g] = "NEW"]
    /\ UNCHANGED task

\* update(goal_id, state = ...): no transition is refused, a cancelled goal may be
\* revived.
UpdateGoal(g, state) ==
    /\ PlannerChange /\ goal[g] # None
    /\ goal' = [goal EXCEPT ![g] = state]
    /\ UNCHANGED task

CancelGoal(g) == UpdateGoal(g, "CANCELLED")

CreateTask(d) ==
    /\ PlannerChange /\ task[d.id] = None
    /\ task' = [task EXCEPT ![d.id] = d]
    /\ UNCHANGED goal

\* complete, fail, skip, ready and pending: whatever the state was.
SetTask(t, state) ==
    /\ PlannerChange /\ task[t] # None /\ task[t].state # state
    /\ task' = [task EXCEPT ![t].state = state]
    /\ UNCHANGED goal

PlannerNext ==
    \/ \E g \in GoalIds : CreateGoal(g) \/ CancelGoal(g) \/ UpdateGoal(g, "READY")
    \/ \E d \in TaskDrafts : CreateTask(d)
    \/ \E t \in TaskIds, state \in TaskMoves : SetTask(t, state)

-----------------------------------------------------------------------------
TasksOf(g) == {t \in TaskIds : task[t] # None /\ task[t].goal = g}
Dependencies(t) == task[t].dependencies

\* ExecutionGraph.build refuses dependencies on tasks outside the plan ...
UnknownDependency(ts) == \E t \in ts : ~(Dependencies(t) \subseteq ts)

\* ... and circles, which _validate_no_cycle finds by a depth-first search.
\* Visit(ts)[path] are the tasks from which the search comes back to its path.
Visit(ts) ==
    LET Back[path \in SUBSET ts] ==
            {t \in ts : t \in path \/ \E d \in Dependencies(t) : d \in Back[path \cup {t}]}
    IN Back
OnCircle(ts) == Visit(ts)[{}] # {}

\* The ready task with the highest priority, among those the lowest id.
FirstReady(ready) ==
    CHOOSE t \in ready : \A u \in ready \ {t} :
        task[t].priority > task[u].priority \/ (task[t].priority = task[u].priority /\ t < u)

\* Mutant: a task is ready as soon as one of its dependencies is ordered.
ReadyAfter_AnyDependency(ts, ordered) ==
    {t \in ts \ ordered : Dependencies(t) = {} \/ Dependencies(t) \cap ordered # {}}

\* The tasks whose in-degree has come down to zero.
ReadyAfter(ts, ordered) == {t \in ts \ ordered : Dependencies(t) \subseteq ordered}

\* topological_sort: one ready task after the other.
OrderNext(ts, q) ==
    LET ready == ReadyAfter(ts, {q[i] : i \in DOMAIN q}) IN
    IF ready = {} THEN q ELSE Append(q, FirstReady(ready))
Orders(ts) ==
    LET Ordered[n \in 0..Cardinality(ts)] == IF n = 0 THEN << >> ELSE OrderNext(ts, Ordered[n - 1])
    IN Ordered
TopologicalSort(ts) == Orders(ts)[Cardinality(ts)]

\* GoalManager.get, Planner.plan and RuleBasedPlanner.create_plan: a plan, or None
\* for a PlannerError.
PlanOf(g) ==
    LET ts == TasksOf(g) IN
    IF \/ goal[g] \in {None, "CANCELLED"}
       \/ ts = {}
       \/ UnknownDependency(ts)
       \/ OnCircle(ts)
    THEN None
    ELSE TopologicalSort(ts)

-----------------------------------------------------------------------------
(***************************************************************************)
(* What must hold.                                                         *)
(***************************************************************************)
PlannerTypeOK ==
    /\ goal \in [GoalIds -> GoalStates \cup {None}]
    /\ \A t \in TaskIds : task[t] # None => task[t].id = t /\ task[t].state \in TaskStates

\* A linear order of the tasks that puts dependencies first.
Respects(q, ts) ==
    /\ {q[i] : i \in DOMAIN q} = ts /\ Len(q) = Cardinality(ts)
    /\ \A i \in DOMAIN q : Dependencies(q[i]) \subseteq {q[j] : j \in 1..(i - 1)}

Possible(ts) ==
    \E rank \in [ts -> 1..Cardinality(ts)] :
        \A t \in ts : \A d \in Dependencies(t) : d \in ts /\ rank[d] < rank[t]

\* For whatever tasks have been created, also ones that depend on themselves, on
\* each other or on tasks of another goal: a goal that is not cancelled and has
\* tasks gets a plan exactly if its tasks can be ordered, and the plan has each of
\* them once, after all it depends on (graph.py:11-71).
PlansAreOrders ==
    \A g \in GoalIds :
        (goal[g] \notin {None, "CANCELLED"} /\ TasksOf(g) # {}) =>
            IF Possible(TasksOf(g)) THEN PlanOf(g) # None /\ Respects(PlanOf(g), TasksOf(g))
            ELSE PlanOf(g) = None

=============================================================================
