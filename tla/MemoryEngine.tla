----------------------------- MODULE MemoryEngine -----------------------------
(***************************************************************************)
(* MemoryManager (core/memory/manager.py): concurrent calls under one      *)
(* asyncio lock, which is held while the call's event is published, and    *)
(* the clean-up that forgets its candidates one by one after releasing it. *)
(***************************************************************************)
EXTENDS MemoryIndex

CONSTANTS
    Drafts,        \* records that remember and replace are called with
    Changes,       \* fields that update is called with
    Policies,      \* retention policies
    MaxOperations  \* bound on the operations, which is also the clock

ASSUME MemoryEngineAssumption ==
    /\ Drafts \subseteq MemoryRecord
    /\ \A fields \in Changes : \A f \in DOMAIN fields :
          \/ f = "id" /\ fields[f] \in MemoryIds
          \/ f = "namespace" /\ fields[f] \in Namespaces
          \/ f = "owner" /\ fields[f] \in MemoryOwners
          \/ f = "tags" /\ fields[f] \in SUBSET Tags
          \/ f = "importance" /\ fields[f] \in Int
    /\ \A p \in Policies : p.kind \in {"never", "ttl", "importance", "lru"}

VARIABLES
    memory,     \* the indexes
    memoryLock, \* the call that holds _lock
    memoryPc,   \* what each call awaits: nothing, a publish, or the lock of the next forget
    event,      \* the event a call is publishing: its id and whether the record is there now
    candidates, \* ids a clean-up has yet to forget
    policy,     \* of the retention manager
    clock,
    seen,       \* history: ids a subscriber that follows the events believes in
    unheard,    \* history: something was changed without an event that says so
    overwritten \* history: an update gave a record the id of another one

memoryVars == <<memory, memoryLock, memoryPc, event, candidates, policy, clock, seen, unheard, overwritten>>

NoEvent == [id |-> None, present |-> FALSE]

MemoryInit ==
    /\ memory = EmptyIndex
    /\ memoryLock = None
    /\ memoryPc = [c \in Calls |-> "idle"]
    /\ event = [c \in Calls |-> NoEvent]
    /\ candidates = [c \in Calls |-> {}]
    /\ policy \in Policies
    /\ clock = 0
    /\ seen = {}
    /\ unheard = FALSE
    /\ overwritten = FALSE

-----------------------------------------------------------------------------
\* Retention policies: the records each would forget. Among records accessed at
\* the same time the least recently used ones are not determined.
Records == {memory.by_id[i] : i \in AllIds(memory)}
Expired(limit) == {r.id : r \in {q \in Records : clock - q.updated > limit}}
Unimportant(limit) == {r.id : r \in {q \in Records : q.importance < limit}}
LeastRecentlyUsed(limit) ==
    {s \in SUBSET AllIds(memory) :
        /\ Cardinality(s) = Cardinality(AllIds(memory)) - limit
        /\ \A i \in s, j \in AllIds(memory) \ s : memory.by_id[i].accessed <= memory.by_id[j].accessed}
Selections ==
    CASE policy.kind = "never"      -> {{}}
      [] policy.kind = "ttl"        -> {Expired(policy.limit)}
      [] policy.kind = "importance" -> {Unimportant(policy.limit)}
      [] policy.kind = "lru"        -> IF Cardinality(AllIds(memory)) <= policy.limit THEN {{}}
                                       ELSE LeastRecentlyUsed(policy.limit)

-----------------------------------------------------------------------------
\* A call takes the free lock; what it does before its publish is one step.
Locked(c) ==
    /\ memoryLock = None
    /\ clock < MaxOperations
    /\ clock' = clock + 1

\* Mutant: the lock is released before the event is published.
PublishUnderLock_ReleasesFirst(c, i, present) ==
    /\ memoryPc' = [memoryPc EXCEPT ![c] = "publishing"]
    /\ memoryLock' = None
    /\ event' = [event EXCEPT ![c] = [id |-> i, present |-> present]]

\* The await of the publish, with the lock held.
PublishUnderLock(c, i, present) ==
    /\ memoryPc' = [memoryPc EXCEPT ![c] = "publishing"]
    /\ memoryLock' = c
    /\ event' = [event EXCEPT ![c] = [id |-> i, present |-> present]]

Stamped(r) == [r EXCEPT !.updated = clock, !.accessed = clock]

\* DuplicateMemory leaves everything as it is.
Remember(c, r) ==
    /\ memoryPc[c] = "idle" /\ Locked(c)
    /\ memory.by_id[r.id] = None
    /\ memory' = IndexAdd(memory, Stamped(r))
    /\ PublishUnderLock(c, r.id, TRUE)
    /\ UNCHANGED <<candidates, policy, seen, unheard, overwritten>>

Recall(c, i) ==
    /\ memoryPc[c] = "idle" /\ Locked(c)
    /\ memory.by_id[i] # None
    /\ LET r == memory.by_id[i] IN
       memory' = IndexUpdate(memory, r, [r EXCEPT !.accessed = clock, !.count = @ + 1])
    /\ PublishUnderLock(c, i, TRUE)
    /\ UNCHANGED <<candidates, policy, seen, unheard, overwritten>>

\* forget and delete differ in the event they publish.
Forget(c, i) ==
    /\ memoryPc[c] = "idle" /\ Locked(c)
    /\ memory.by_id[i] # None
    /\ memory' = IndexRemove(memory, i)
    /\ PublishUnderLock(c, i, FALSE)
    /\ UNCHANGED <<candidates, policy, seen, unheard, overwritten>>

\* update(memory_id, **fields): the id is a field like any other, and the event
\* carries the new one.
Update(c, i, fields) ==
    /\ memoryPc[c] = "idle" /\ Locked(c)
    /\ memory.by_id[i] # None
    /\ LET old == memory.by_id[i]
           new == [f \in DOMAIN old |-> IF f = "updated" THEN clock
                                        ELSE IF f \in DOMAIN fields THEN fields[f] ELSE old[f]]
       IN
       /\ memory' = IndexUpdate(memory, old, new)
       /\ PublishUnderLock(c, new.id, TRUE)
       /\ unheard' = (unheard \/ new.id # i)
       /\ overwritten' = (overwritten \/ (new.id # i /\ memory.by_id[new.id] # None))
    /\ UNCHANGED <<candidates, policy, seen>>

ReplaceRecord(c, r) ==
    /\ memoryPc[c] = "idle" /\ Locked(c)
    /\ memory.by_id[r.id] # None
    /\ memory' = IndexUpdate(memory, memory.by_id[r.id], Stamped(r))
    /\ PublishUnderLock(c, r.id, TRUE)
    /\ UNCHANGED <<candidates, policy, seen, unheard, overwritten>>

\* MemoryStore.clear removes the records it finds by id.
Cleared ==
    [EmptyIndex EXCEPT
        !.by_namespace = [n \in Namespaces |-> memory.by_namespace[n] \ {i \in AllIds(memory) : memory.by_id[i].namespace = n}],
        !.by_owner = [o \in MemoryOwners |-> memory.by_owner[o] \ {i \in AllIds(memory) : memory.by_id[i].owner = o}],
        !.by_tag = [t \in Tags |-> memory.by_tag[t] \ {i \in AllIds(memory) : t \in memory.by_id[i].tags}]]

\* clear() publishes nothing.
Clear(c) ==
    /\ memoryPc[c] = "idle" /\ Locked(c)
    /\ memory' = Cleared
    /\ unheard' = TRUE
    /\ UNCHANGED <<memoryLock, memoryPc, event, candidates, policy, seen, overwritten>>

\* shutdown() clears without the lock, while others may hold it.
ShutdownMemory ==
    /\ AllIds(memory) # {}
    /\ memory' = Cleared
    /\ unheard' = TRUE
    /\ UNCHANGED <<memoryLock, memoryPc, event, candidates, policy, clock, seen, overwritten>>

\* The publish ends: the subscribers have handled the event.
Published(c) ==
    /\ memoryPc[c] = "publishing"
    /\ seen' = IF event[c].present THEN seen \cup {event[c].id} ELSE seen \ {event[c].id}
    /\ event' = [event EXCEPT ![c] = NoEvent]
    /\ memoryLock' = None
    /\ memoryPc' = [memoryPc EXCEPT ![c] = IF candidates[c] = {} THEN "idle" ELSE "cleaning"]
    /\ UNCHANGED <<memory, candidates, policy, clock, unheard, overwritten>>

\* A middleware raises: the operation is done, the call fails, a clean-up stops.
PublishRaised(c) ==
    /\ memoryPc[c] = "publishing"
    /\ event' = [event EXCEPT ![c] = NoEvent]
    /\ memoryLock' = None
    /\ memoryPc' = [memoryPc EXCEPT ![c] = "idle"]
    /\ candidates' = [candidates EXCEPT ![c] = {}]
    /\ unheard' = TRUE
    /\ UNCHANGED <<memory, policy, clock, seen, overwritten>>

\* cleanup and expire: the candidates are chosen under the lock ...
Cleanup(c) ==
    /\ memoryPc[c] = "idle" /\ Locked(c)
    /\ \E s \in Selections \ {{}} : candidates' = [candidates EXCEPT ![c] = s]
    /\ memoryPc' = [memoryPc EXCEPT ![c] = "cleaning"]
    /\ UNCHANGED <<memory, memoryLock, event, policy, seen, unheard, overwritten>>

\* ... and each is forgotten under a lock of its own, whatever it is by then.
CleanupForgets(c, i) ==
    /\ memoryPc[c] = "cleaning" /\ i \in candidates[c] /\ memoryLock = None
    /\ memory.by_id[i] # None
    /\ memory' = IndexRemove(memory, i)
    /\ candidates' = [candidates EXCEPT ![c] = @ \ {i}]
    /\ PublishUnderLock(c, i, FALSE)
    /\ UNCHANGED <<policy, clock, seen, unheard, overwritten>>

\* MemoryNotFound ends the clean-up: the other candidates stay.
CleanupRaises(c, i) ==
    /\ memoryPc[c] = "cleaning" /\ i \in candidates[c] /\ memoryLock = None
    /\ memory.by_id[i] = None
    /\ candidates' = [candidates EXCEPT ![c] = {}]
    /\ memoryPc' = [memoryPc EXCEPT ![c] = "idle"]
    /\ UNCHANGED <<memory, memoryLock, event, policy, clock, seen, unheard, overwritten>>

MemoryNext ==
    \/ \E c \in Calls :
          \/ \E r \in Drafts : Remember(c, r) \/ ReplaceRecord(c, r)
          \/ \E i \in MemoryIds : Recall(c, i) \/ Forget(c, i) \/ CleanupForgets(c, i) \/ CleanupRaises(c, i)
          \/ \E i \in MemoryIds, fields \in Changes : Update(c, i, fields)
          \/ Clear(c) \/ Published(c) \/ PublishRaised(c) \/ Cleanup(c)
    \/ ShutdownMemory

MemorySpec == MemoryInit /\ [][MemoryNext]_memoryVars

-----------------------------------------------------------------------------
(***************************************************************************)
(* What must hold.                                                         *)
(***************************************************************************)
MemoryTypeOK ==
    /\ memory \in MemoryIndexes
    /\ memoryLock \in Calls \cup {None}
    /\ memoryPc \in [Calls -> {"idle", "publishing", "cleaning"}]
    /\ candidates \in [Calls -> SUBSET MemoryIds]
    /\ seen \in SUBSET MemoryIds
    /\ unheard \in BOOLEAN /\ overwritten \in BOOLEAN
    /\ clock \in Nat

\* However records are stored, replaced, retagged, moved, renamed, cleared and
\* expired, every index files exactly the records that carry its key: look-ups by
\* namespace, owner and tag find what a scan of the records would (indexes.py:18-48).
\* An update that gives a record the id of another one is the exception.
IndexesAgree == ~overwritten => Consistent(memory)

\* A subscriber that follows the events knows which records there are whenever no
\* call is publishing: the lock held during the publish keeps the events in the
\* order of the store (manager.py:52-174). clear, shutdown and a change of the id
\* are not told by an event.
SubscribersSeeStore ==
    (memoryLock = None /\ ~unheard) => seen = AllIds(memory)

=============================================================================
