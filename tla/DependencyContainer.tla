-------------------------- MODULE DependencyContainer --------------------------
(***************************************************************************)
(* The dependency-injection container (core/container): concurrent         *)
(* resolves that build services recursively, the lock of each singleton,   *)
(* scopes, eviction, shutdown, and the validator.                          *)
(*                                                                         *)
(* A resolve only suspends where it waits for a lock, where a factory      *)
(* awaits, and where a dispose() does.  "turn" is the call that runs: it   *)
(* keeps the event loop until it suspends or ends.  Frames are the nested  *)
(* resolve calls, innermost last.                                          *)
(***************************************************************************)
EXTENDS EventLoop

CONSTANTS
    Services,        \* interfaces
    Scopes,          \* Scope objects that have been created
    Registrations,   \* registries the container may start with
    Replacements,    \* descriptors that replace() is called with
    MaxChanges       \* bound on registry changes

VARIABLES
    registry,     \* _registry: a descriptor or None, by interface
    cached,       \* what _singleton_instances and each scope hold: <<owner, service>>
    held,         \* locks held: <<service, generation of its lock>>
    generation,   \* of the lock in _singleton_locks, by service
    frames,       \* the stack of each call
    error,        \* the exception a call is unwinding with
    ended,        \* how a call ended: None, "returned" or the exception
    asked,        \* what a call resolves
    turn,         \* the call that has the event loop
    shut,         \* _is_shutdown, and _is_disposed of the scopes
    disposing,    \* the iteration of a running dispose loop
    built,        \* history: instances built, by service
    changed       \* history: services whose registration or cache was changed

containerVars == <<registry, cached, held, generation, frames, error, ended, asked, turn,
                   shut, disposing, built, changed>>

\* A class has annotated parameters, a factory calls container.resolve in its
\* body; "params" lists what they ask for, with whether a default exists.
Param(s, default) == [service |-> s, default |-> default]
Descriptor(lifetime, kind, params) == [lifetime |-> lifetime, kind |-> kind, params |-> params]
Lifetimes == {"SINGLETON", "SCOPED", "TRANSIENT"}
Descriptors ==
    [lifetime : Lifetimes, kind : {"class", "factory", "instance"},
     params : Seq([service : Services, default : BOOLEAN])]

\* None is no interface, no descriptor, no lock, no fresh dictionary and no outcome.
ASSUME ContainerAssumption ==
    /\ IsFiniteSet(Services)
    /\ Registrations \subseteq [Services -> Descriptors \cup {None}]
    /\ Replacements \subseteq Descriptors
    /\ None \notin {"returned", "circular", "missing", "runtime", "failed"}
    /\ None \notin Services \cup Descriptors \cup (Services \X Nat) \cup (Calls \X Nat)

\* The container's own cache is that of the singletons.
Container == None
Owners == {Container} \cup Scopes

ContainerInit ==
    /\ registry \in Registrations
    /\ cached = {}
    /\ held = {}
    /\ generation = [s \in Services |-> 0]
    /\ frames = [c \in Calls |-> << >>]
    /\ error = [c \in Calls |-> None]
    /\ ended = [c \in Calls |-> None]
    /\ asked = [c \in Calls |-> None]
    /\ turn = None
    /\ shut = [o \in Owners |-> FALSE]
    /\ disposing = [o \in Owners |-> None]
    /\ built = [s \in Services |-> 0]
    /\ changed = {}

-----------------------------------------------------------------------------
Active(c) == frames[c] # << >>
Depth(c) == Len(frames[c])
Top(c) == frames[c][Depth(c)]
SetTop(c, f) == frames' = [frames EXCEPT ![c] = [@ EXCEPT ![Len(@)] = f]]

\* "scope" owns the scoped instances of a frame: a Scope object, or the fresh
\* dictionary of the container.resolve that began at some depth of a call.
Frame(s, scope, chain) ==
    [service |-> s, scope |-> scope, chain |-> chain, stage |-> "enter", at |-> 1, lock |-> None,
     desc |-> None]
Fresh(c) == <<c, Depth(c) + 1>>

Cached(o) == {s \in Services : <<o, s>> \in cached}

\* A singleton is the container's, anything else that is kept its scope's.
OwnerOf(d, f) == IF d.lifetime = "SINGLETON" THEN Container ELSE f.scope

\* The innermost resolve returns: its caller has the next parameter, or the
\* call is over.  A fresh dictionary disappears with the resolve it began with.
Return(c, records) ==
    LET rest == SubSeq(frames[c], 1, Depth(c) - 1) IN
    /\ cached' = {r \in records : r[1] # <<c, Depth(c)>>}
    /\ held' = held \ {Top(c).lock}
    /\ IF rest = << >>
       THEN /\ frames' = [frames EXCEPT ![c] = rest]
            /\ ended' = [ended EXCEPT ![c] = "returned"]
            /\ turn' = None
       ELSE /\ frames' = [frames EXCEPT ![c] = [rest EXCEPT ![Len(rest)].at = @ + 1]]
            /\ UNCHANGED <<ended, turn>>

\* An exception unwinds the frames of its call one by one.
Raise(c, e) == error' = [error EXCEPT ![c] = e]

-----------------------------------------------------------------------------
\* Container.resolve and Scope.resolve: the flag is looked at once.
Resolve(c, s, o) ==
    /\ turn = None /\ ended[c] = None /\ ~Active(c)
    /\ asked' = [asked EXCEPT ![c] = s]
    /\ IF shut[o]
       THEN ended' = [ended EXCEPT ![c] = "runtime"] /\ UNCHANGED <<frames, turn>>
       ELSE /\ frames' = [frames EXCEPT ![c] = <<Frame(s, IF o = Container THEN Fresh(c) ELSE o, {})>>]
            /\ turn' = c
            /\ UNCHANGED ended
    /\ UNCHANGED <<registry, cached, held, generation, error, shut, disposing, built, changed>>

\* Resolver.resolve up to the point where it has to build: the chain, the
\* registry, the caches, a registered instance, and the lock of a singleton.
Enter(c) ==
    LET f == Top(c)
        s == f.service
        d == registry[s]
        lock == <<s, generation[s]>>
    IN
    /\ turn = c /\ error[c] = None /\ f.stage = "enter"
    /\ \/ /\ s \in f.chain
          /\ Raise(c, "circular")
          /\ UNCHANGED <<cached, held, frames, ended, turn>>
       \/ /\ s \notin f.chain /\ d = None
          /\ Raise(c, "missing")
          /\ UNCHANGED <<cached, held, frames, ended, turn>>
       \/ /\ s \notin f.chain /\ d # None
          /\ d.kind = "instance" \/ (d.lifetime # "TRANSIENT" /\ s \in Cached(OwnerOf(d, f)))
          /\ Return(c, cached)
          /\ UNCHANGED error
       \/ /\ s \notin f.chain /\ d # None
          /\ d.kind # "instance" /\ (d.lifetime = "TRANSIENT" \/ s \notin Cached(OwnerOf(d, f)))
          /\ IF d.lifetime # "SINGLETON"
             THEN SetTop(c, [f EXCEPT !.stage = "build", !.desc = d]) /\ UNCHANGED <<held, turn>>
             ELSE IF lock \in held
                  THEN SetTop(c, [f EXCEPT !.stage = "wait", !.lock = lock, !.desc = d]) /\ turn' = None /\ UNCHANGED held
                  ELSE SetTop(c, [f EXCEPT !.stage = "build", !.lock = lock, !.desc = d]) /\ held' = held \cup {lock}
                       /\ UNCHANGED turn
          /\ UNCHANGED <<cached, error, ended>>
    /\ UNCHANGED <<registry, generation, asked, shut, disposing, built, changed>>

\* Mutant: the lock is enough, nobody looks again after waiting for it.
Acquire_WithoutSecondLook(c) ==
    LET f == Top(c) IN
    /\ turn = None /\ Active(c) /\ f.stage = "wait" /\ f.lock \notin held
    /\ turn' = c
    /\ held' = held \cup {f.lock}
    /\ SetTop(c, [f EXCEPT !.stage = "build"])
    /\ UNCHANGED <<registry, cached, generation, error, ended, asked, shut, disposing, built, changed>>

\* The lock is free: the second look finds what its last holder built, or the
\* call builds with the descriptor it has read before it waited.
Acquire(c) ==
    LET f == Top(c) IN
    /\ turn = None /\ Active(c) /\ f.stage = "wait" /\ f.lock \notin held
    /\ turn' = c
    /\ held' = held \cup {f.lock}
    /\ SetTop(c, [f EXCEPT !.stage = IF f.service \in Cached(Container) THEN "found" ELSE "build"])
    /\ UNCHANGED <<registry, cached, generation, error, ended, asked, shut, disposing, built, changed>>

Found(c) ==
    /\ turn = c /\ Active(c) /\ Top(c).stage = "found"
    /\ Return(c, cached)
    /\ UNCHANGED <<registry, generation, error, asked, shut, disposing, built, changed>>

\* Resolver._build: the next parameter of a class is resolved in the same chain
\* and scope, a factory's body starts over at the container.
Ask(c) ==
    LET f == Top(c)
        p == f.desc.params[f.at]
    IN
    /\ turn = c /\ error[c] = None /\ f.stage = "build" /\ f.at <= Len(f.desc.params)
    /\ IF f.desc.kind = "factory" /\ shut[Container]
       THEN Raise(c, "runtime") /\ UNCHANGED frames
       ELSE /\ frames' = [frames EXCEPT ![c] = Append(@,
                  IF f.desc.kind = "factory" THEN Frame(p.service, Fresh(c), {})
                  ELSE Frame(p.service, f.scope, f.chain \cup {f.service}))]
            /\ UNCHANGED error
    /\ UNCHANGED <<registry, cached, held, generation, ended, asked, turn, shut, disposing, built, changed>>

\* A factory may await something of its own.
Suspend(c) ==
    LET f == Top(c) IN
    /\ turn = c /\ error[c] = None /\ f.stage = "build" /\ f.at > Len(f.desc.params)
    /\ f.desc.kind = "factory"
    /\ SetTop(c, [f EXCEPT !.stage = "awaiting"])
    /\ turn' = None
    /\ UNCHANGED <<registry, cached, held, generation, error, ended, asked, shut, disposing, built, changed>>

Wake(c) ==
    /\ turn = None /\ Active(c) /\ Top(c).stage = "awaiting"
    /\ SetTop(c, [Top(c) EXCEPT !.stage = "made"])
    /\ turn' = c
    /\ UNCHANGED <<registry, cached, held, generation, error, ended, asked, shut, disposing, built, changed>>

Complete(c) == Top(c).stage = "made" \/ (Top(c).stage = "build" /\ Top(c).at > Len(Top(c).desc.params))

\* The class or the factory returns: the instance is remembered, whatever has
\* happened to the registration, the lock or the container in the meantime.
Made(c) ==
    LET f == Top(c) IN
    /\ turn = c /\ error[c] = None /\ Complete(c)
    /\ built' = [built EXCEPT ![f.service] = @ + 1]
    /\ Return(c, IF f.desc.lifetime = "TRANSIENT" THEN cached
                 ELSE cached \cup {<<OwnerOf(f.desc, f), f.service>>})
    /\ UNCHANGED <<registry, generation, error, asked, shut, disposing, changed>>

\* The constructor or the factory raises something that is no ResolutionError.
MakingRaises(c) ==
    /\ turn = c /\ error[c] = None /\ Complete(c)
    /\ Raise(c, "failed")
    /\ UNCHANGED <<registry, cached, held, generation, frames, ended, asked, turn, shut, disposing,
                   built, changed>>

\* Mutant: a circle is taken for a missing parameter and falls back too.
Recovers_FromCircle(parent, e) ==
    e \in {"missing", "circular"} /\ parent.desc.kind = "class" /\ parent.desc.params[parent.at].default

\* A class whose parameter cannot be resolved falls back to its default.
Recovers(parent, e) ==
    e = "missing" /\ parent.desc.kind = "class" /\ parent.desc.params[parent.at].default

\* Mutant: the lock of a singleton that could not be built stays held.
Unlocked_OnlyOnSuccess(f) == held

\* async with: the lock is released however the block is left.
Unlocked(f) == held \ {f.lock}

Unwind(c) ==
    LET rest == SubSeq(frames[c], 1, Depth(c) - 1)
        n == Len(rest)
    IN
    /\ turn = c /\ error[c] # None
    /\ held' = Unlocked(Top(c))
    /\ cached' = {r \in cached : r[1] # <<c, Depth(c)>>}
    /\ IF rest = << >>
       THEN /\ ended' = [ended EXCEPT ![c] = error[c]]
            /\ Raise(c, None) /\ turn' = None
            /\ frames' = [frames EXCEPT ![c] = rest]
       ELSE /\ IF Recovers(rest[n], error[c])
               THEN Raise(c, None) /\ frames' = [frames EXCEPT ![c] = [rest EXCEPT ![n].at = @ + 1]]
               ELSE UNCHANGED error /\ frames' = [frames EXCEPT ![c] = rest]
            /\ UNCHANGED <<ended, turn>>
    /\ UNCHANGED <<registry, generation, asked, shut, disposing, built, changed>>

-----------------------------------------------------------------------------
\* remove(): the registration, the instance and the lock go, held or not.
Remove(s) ==
    /\ turn = None /\ registry[s] # None /\ Cardinality(changed) < MaxChanges
    /\ registry' = [registry EXCEPT ![s] = None]
    /\ cached' = cached \ {<<Container, s>>}
    /\ generation' = [generation EXCEPT ![s] = @ + 1]
    /\ changed' = changed \cup {s}
    /\ UNCHANGED <<held, frames, error, ended, asked, turn, shut, disposing, built>>

\* replace() and the register methods: what is cached stays.
Register(s, d) ==
    /\ turn = None /\ Cardinality(changed) < MaxChanges
    /\ registry' = [registry EXCEPT ![s] = d]
    /\ changed' = changed \cup {s}
    /\ UNCHANGED <<cached, held, generation, frames, error, ended, asked, turn, shut, disposing, built>>

\* Container.shutdown and Scope.dispose: a loop over the live dictionary that
\* awaits every dispose(), and is over at once when there is nothing to visit.
BeginDispose(o) ==
    /\ turn = None /\ ~shut[o]
    /\ shut' = [shut EXCEPT ![o] = TRUE]
    /\ disposing' = [disposing EXCEPT ![o] = [todo |-> Cached(o), size |-> Cardinality(Cached(o))]]
    /\ UNCHANGED <<registry, cached, held, generation, frames, error, ended, asked, turn, built, changed>>

\* The dictionary changed its size while the loop was suspended: RuntimeError,
\* and nothing is cleared.
DisposeRaises(o) ==
    /\ turn = None /\ disposing[o] # None /\ disposing[o].size # Cardinality(Cached(o))
    /\ disposing' = [disposing EXCEPT ![o] = None]
    /\ UNCHANGED <<registry, cached, held, generation, frames, error, ended, asked, turn, shut, built, changed>>

DisposeNext(o) ==
    /\ turn = None /\ disposing[o] # None /\ disposing[o].size = Cardinality(Cached(o))
    /\ \E s \in disposing[o].todo : disposing' = [disposing EXCEPT ![o].todo = @ \ {s}]
    /\ UNCHANGED <<registry, cached, held, generation, frames, error, ended, asked, turn, shut, built, changed>>

DisposeEnds(o) ==
    /\ turn = None /\ disposing[o] # None
    /\ disposing[o].size = Cardinality(Cached(o)) /\ disposing[o].todo = {}
    /\ disposing' = [disposing EXCEPT ![o] = None]
    /\ cached' = {r \in cached : r[1] # o}
    /\ IF o = Container
       THEN /\ registry' = [s \in Services |-> None]
            /\ generation' = [s \in Services |-> generation[s] + 1]
       ELSE UNCHANGED <<registry, generation>>
    /\ UNCHANGED <<held, frames, error, ended, asked, turn, shut, built, changed>>

-----------------------------------------------------------------------------
ResolveStep(c) ==
    \/ Enter(c) \/ Acquire(c) \/ Found(c) \/ Ask(c) \/ Suspend(c) \/ Wake(c)
    \/ Made(c) \/ MakingRaises(c) \/ Unwind(c)

ContainerNext ==
    \/ \E c \in Calls, s \in Services, o \in Owners : Resolve(c, s, o)
    \/ \E c \in Calls : ResolveStep(c)
    \/ \E s \in Services : Remove(s) \/ \E d \in Replacements : Register(s, d)
    \/ \E o \in Owners : BeginDispose(o) \/ DisposeNext(o) \/ DisposeEnds(o) \/ DisposeRaises(o)

ContainerSpec == ContainerInit /\ [][ContainerNext]_containerVars

-----------------------------------------------------------------------------
\* Validator: the graph as the annotations show it. What a factory resolves in
\* its body is not in it.
Visible(d) == IF d.kind = "class" THEN d.params ELSE << >>

\* With the verdicts "v" on what it asks for: the first parameter that fails
\* decides, unless it is only missing and has a default.
Passes(p, v) == v[p.service] = "valid" \/ (v[p.service] = "missing" /\ p.default)
Judgement(reg, s, v) ==
    IF reg[s] = None THEN "missing"
    ELSE LET ps == Visible(reg[s])
             bad == {i \in DOMAIN ps : ~Passes(ps[i], v)}
         IN IF bad = {} THEN "valid" ELSE v[ps[CHOOSE i \in bad : \A j \in bad : i <= j].service]

\* _validate_node, by the chain of services it has come along.
Diagnosis(reg) ==
    LET D[chain \in SUBSET Services] ==
            [s \in Services |-> IF s \in chain THEN "circular" ELSE Judgement(reg, s, D[chain \cup {s}])]
    IN D

-----------------------------------------------------------------------------
(***************************************************************************)
(* What must hold.                                                         *)
(***************************************************************************)
ContainerTypeOK ==
    /\ \A r \in cached : r[2] \in Services
    /\ \A l \in held : l[1] \in Services /\ l[2] <= generation[l[1]]
    /\ \A c \in Calls : Active(c) => ended[c] = None
    /\ turn # None => Active(turn)

\* One instance of a singleton is built, however many calls resolve it at the
\* same time, unless its registration is changed or the container is shut down
\* (resolver.py:69-77).
OneSingleton ==
    ~shut[Container] =>
        \A s \in Services \ changed :
            (registry[s] # None /\ registry[s].lifetime = "SINGLETON") => built[s] <= 1

\* Nothing has happened to the registration of a service since the container was made.
Quiet(s) == s \in Services \ changed /\ ~ shut[Container]

\* What such a service is to those who resolve it, and who is making its instance.
Shared(s) == registry[s] # None /\ registry[s].kind # "instance" /\ registry[s].lifetime = "SINGLETON"
CellOf(s) ==
    IF ~ Quiet(s) THEN "released"
    ELSE IF registry[s] = None THEN "absent"
    ELSE IF ~ Shared(s) THEN "unshared"
    ELSE IF <<Container, s>> \in cached THEN "ready" ELSE "empty"
Building(f, s) == f.service = s /\ f.lock # None /\ f.stage \in {"build", "awaiting", "made"}
Builds(q, s) == \E i \in DOMAIN q : Building(q[i], s)

cellBar == [s \in Services |-> CellOf(s)]
buildersBar == [s \in Services |-> IF Quiet(s) THEN {c \in Calls : Builds(frames[c], s)} ELSE {}]

Singletons ==
    INSTANCE SharedInstances WITH
        cell <- cellBar, builders <- buildersBar, wanted <- asked, answer <- ended

\* The resolver implements the promise of SINGLETON: one builder at a time, retried
\* when it fails, one instance for good, and a resolve that returns has it
\* (lifetime.py:7, resolver.py:39-120).
ImplementsSharedInstances == Singletons!SharedSpec

\* What a class or a factory asks for comes before it in some order.
Acyclic(reg) ==
    \E rank \in [Services -> 1..Cardinality(Services)] :
        \A s \in Services : reg[s] # None =>
            \A i \in DOMAIN reg[s].params : rank[reg[s].params[i].service] < rank[s]

Stuck(c) == Top(c).stage = "wait" /\ Top(c).lock \in held

\* Calls only ever all wait for each other's locks where something depends on
\* itself, through annotations or through the bodies of factories, or where the
\* registrations were changed meanwhile (resolver.py:70-71).
NoDeadlock ==
    (/\ turn = None /\ \E c \in Calls : Active(c)
     /\ \A c \in Calls : Active(c) => Stuck(c)
     /\ changed = {} /\ ~shut[Container])
        => ~Acyclic(registry)

\* The validator predicts the resolver: of classes and instances, a resolve that no
\* constructor's own exception ends returns what validate() finds nothing wrong with,
\* and fails with the error it names on what it objects to, whatever constructors have
\* raised in other calls (validation.py:29-80 against resolver.py:39-125).
ValidatorAgrees ==
    (/\ changed = {} /\ \A o \in Owners : ~shut[o]
     /\ \A s \in Services : registry[s] # None => registry[s].kind # "factory")
        => \A c \in Calls : ended[c] \notin {None, "failed"} =>
               Diagnosis(registry)[{}][asked[c]] =
                   IF ended[c] = "returned" THEN "valid" ELSE ended[c]

=============================================================================
