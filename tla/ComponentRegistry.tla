--------------------------- MODULE ComponentRegistry ---------------------------
(***************************************************************************)
(* The lifecycle component registry (core/lifecycle/registry.py) and the   *)
(* order the orchestrator derives from it                                  *)
(* (LifecycleOrchestrator._build_execution_order).                         *)
(***************************************************************************)
EXTENDS Integers, FiniteSets, SequencesExt

CONSTANTS
    Names,          \* component names
    NameOrder,      \* their alphabetical order, which breaks priority ties
    Registrations,  \* the registrations code may make
    None            \* Python's None

ComponentRegistration ==
    [name : Names, dependencies : SUBSET Names, priority : Int,
     enabled : BOOLEAN, critical : BOOLEAN]

ASSUME ComponentAssumption ==
    /\ IsFiniteSet(Names)
    /\ NameOrder \in [Names -> Int]
    /\ \A m, n \in Names : NameOrder[m] = NameOrder[n] => m = n
    /\ Registrations \subseteq ComponentRegistration
    /\ None \notin Registrations

VARIABLE components    \* _components: [Names -> Registrations \cup {None}]

Registered == {n \in Names : components[n] # None}

\* register(): a second registration of a name is a RegistrationError.
RegisterComponent(r) ==
    /\ components[r.name] = None
    /\ components' = [components EXCEPT ![r.name] = r]

\* remove(): an unknown name is ignored.
RemoveComponent(n) ==
    /\ n \in Registered
    /\ components' = [components EXCEPT ![n] = None]

\* update(): everything but the name and the instance may change.
UpdateComponent(r) ==
    /\ r.name \in Registered
    /\ components' = [components EXCEPT ![r.name] = r]

-----------------------------------------------------------------------------
(***************************************************************************)
(* _build_execution_order(): Kahn's algorithm over a list of components    *)
(* without open dependencies, kept sorted by (priority, name).             *)
(***************************************************************************)
Precedes(m, n) ==
    LET p == components[m].priority
        q == components[n].priority
    IN  p < q \/ (p = q /\ NameOrder[m] < NameOrder[n])

Foremost(S) == CHOOSE m \in S : \A n \in S \ {m} : Precedes(m, n)

UnknownDependency == \E n \in Registered : ~ components[n].dependencies \subseteq Registered

\* Mutant: a component is released by the first of its dependencies.
Pop_FirstDependency(s) ==
    IF s.ready = {} THEN s
    ELSE LET current == Foremost(s.ready)
             released == {n \in Registered : current \in components[n].dependencies
                                             /\ s.degree[n] = Cardinality(components[n].dependencies)}
         IN  [order |-> Append(s.order, current),
              degree |-> [n \in Registered |->
                  IF current \in components[n].dependencies THEN s.degree[n] - 1 ELSE s.degree[n]],
              ready |-> (s.ready \ {current}) \cup released]

\* One turn of the loop: pop the foremost ready component and release the
\* neighbours whose in-degree drops to zero.
Pop(s) ==
    IF s.ready = {} THEN s
    ELSE LET current == Foremost(s.ready)
             neighbors == {n \in Registered : current \in components[n].dependencies}
             degree == [n \in Registered |->
                           IF n \in neighbors THEN s.degree[n] - 1 ELSE s.degree[n]]
         IN  [order |-> Append(s.order, current),
              degree |-> degree,
              ready |-> (s.ready \ {current}) \cup {n \in neighbors : degree[n] = 0}]

InDegree == [n \in Registered |-> Cardinality(components[n].dependencies)]
NoTurn == [order |-> << >>, degree |-> InDegree, ready |-> {n \in Registered : InDegree[n] = 0}]

\* The loop after k turns.
Turns[k \in 0..Cardinality(Registered)] == IF k = 0 THEN NoTurn ELSE Pop(Turns[k - 1])

ExecutionOrder == Turns[Cardinality(Registered)].order

\* Whether a StartupError is raised: an unknown dependency or a cycle.
CircularDependency == Len(ExecutionOrder) # Cardinality(Registered)
Orderable == ~ UnknownDependency /\ ~ CircularDependency

\* The fallback of a shutdown whose graph is broken.
PriorityOrder ==
    CHOOSE q \in [1..Cardinality(Registered) -> Registered] :
        \A i, j \in DOMAIN q : i < j => Precedes(q[i], q[j])

-----------------------------------------------------------------------------
(***************************************************************************)
(* What the order must be.                                                 *)
(***************************************************************************)
\* A set of components each of which waits for another one of the set.
Knot(S) == S # {} /\ \A n \in S : components[n].dependencies \cap S # {}

Before(s, m, n) == \E i, j \in DOMAIN s : i < j /\ s[i] = m /\ s[j] = n

\* A registry without unknown dependencies is ordered exactly when no components
\* wait for each other in a circle; the order has every component once and after
\* its dependencies; and where a component directly follows one of lower rank it
\* is because it depends on it (orchestrator.py:24-68).
OrderIsTopological ==
    ~ UnknownDependency =>
        /\ CircularDependency <=> \E S \in SUBSET Registered : Knot(S)
        /\ ~ CircularDependency =>
               /\ ToSet(ExecutionOrder) = Registered
               /\ \A n \in Registered, d \in Names :
                      d \in components[n].dependencies => Before(ExecutionOrder, d, n)
               /\ \A i \in 1..(Len(ExecutionOrder) - 1) :
                      LET m == ExecutionOrder[i]
                          n == ExecutionOrder[i + 1]
                      IN  Precedes(m, n) \/ m \in components[n].dependencies
=============================================================================
