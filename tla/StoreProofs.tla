----------------------------- MODULE StoreProofs -----------------------------
(***************************************************************************)
(* Proofs about what the kernel keeps in memory: the records and indexes   *)
(* of MemoryEngine, the identities, sessions and contexts of               *)
(* IdentityService, and the plugins of PluginFramework, for every set of   *)
(* them, any number of overlapping calls and every policy.                 *)
(***************************************************************************)
EXTENDS MemoryEngine, IdentityService, PluginFramework, SequenceTheorems, WellFoundedInduction, TLAPS

-----------------------------------------------------------------------------
(***************************************************************************)
(* The indexes of the memory.                                              *)
(***************************************************************************)
LEMMA RecordFields ==
  ASSUME NEW r \in MemoryRecord
  PROVE  /\ r.id \in MemoryIds /\ r.namespace \in Namespaces /\ r.owner \in MemoryOwners
         /\ r.tags \in SUBSET Tags /\ r # None
  BY MemoryAssumption DEF MemoryRecord

LEMMA IndexFields ==
  ASSUME NEW x \in MemoryIndexes
  PROVE  /\ x.by_id \in [MemoryIds -> MemoryRecord \cup {None}]
         /\ x.by_namespace \in [Namespaces -> SUBSET MemoryIds]
         /\ x.by_owner \in [MemoryOwners -> SUBSET MemoryIds]
         /\ x.by_tag \in [Tags -> SUBSET MemoryIds]
  BY DEF MemoryIndexes

LEMMA AddTyped ==
  ASSUME NEW x \in MemoryIndexes, NEW r \in MemoryRecord
  PROVE  IndexAdd(x, r) \in MemoryIndexes /\ AllIds(IndexAdd(x, r)) = AllIds(x) \cup {r.id}
  <1>1. /\ [x.by_id EXCEPT ![r.id] = r] \in [MemoryIds -> MemoryRecord \cup {None}]
        /\ [x.by_namespace EXCEPT ![r.namespace] = @ \cup {r.id}] \in [Namespaces -> SUBSET MemoryIds]
        /\ [x.by_owner EXCEPT ![r.owner] = @ \cup {r.id}] \in [MemoryOwners -> SUBSET MemoryIds]
        /\ [t \in Tags |-> IF t \in r.tags THEN x.by_tag[t] \cup {r.id} ELSE x.by_tag[t]] \in [Tags -> SUBSET MemoryIds]
    BY RecordFields, IndexFields
  <1>2. IndexAdd(x, r) \in MemoryIndexes
    BY <1>1 DEF IndexAdd, MemoryIndexes
  <1>3. AllIds(IndexAdd(x, r)) = AllIds(x) \cup {r.id}
    BY RecordFields, IndexFields DEF IndexAdd, AllIds
  <1> QED BY <1>2, <1>3

\* A record whose id is free is filed under all of its keys and no other.
LEMMA AddConsistent ==
  ASSUME NEW x \in MemoryIndexes, NEW r \in MemoryRecord, Consistent(x), x.by_id[r.id] = None
  PROVE  Consistent(IndexAdd(x, r))
  <1> DEFINE y == IndexAdd(x, r)
  <1>1. /\ y.by_id = [x.by_id EXCEPT ![r.id] = r]
        /\ y.by_namespace = [x.by_namespace EXCEPT ![r.namespace] = @ \cup {r.id}]
        /\ y.by_owner = [x.by_owner EXCEPT ![r.owner] = @ \cup {r.id}]
        /\ y.by_tag = [t \in Tags |-> IF t \in r.tags THEN x.by_tag[t] \cup {r.id} ELSE x.by_tag[t]]
        /\ AllIds(y) = AllIds(x) \cup {r.id}
    BY AddTyped DEF IndexAdd
  <1> HIDE DEF y
  <1>2. /\ r.id \notin AllIds(x) /\ y.by_id[r.id] = r
        /\ \A i \in AllIds(x) : y.by_id[i] = x.by_id[i]
    BY <1>1, RecordFields, IndexFields DEF AllIds
  <1>3. \A i \in MemoryIds : y.by_id[i] # None => y.by_id[i].id = i
    BY <1>1, RecordFields, IndexFields DEF Consistent
  <1>4. \A n \in Namespaces : y.by_namespace[n] = {i \in AllIds(y) : y.by_id[i].namespace = n}
    BY <1>1, <1>2, RecordFields, IndexFields DEF Consistent
  <1>5. \A o \in MemoryOwners : y.by_owner[o] = {i \in AllIds(y) : y.by_id[i].owner = o}
    BY <1>1, <1>2, RecordFields, IndexFields DEF Consistent
  <1>6. \A t \in Tags : y.by_tag[t] = {i \in AllIds(y) : t \in y.by_id[i].tags}
    BY <1>1, <1>2, RecordFields, IndexFields DEF Consistent
  <1> QED BY <1>3, <1>4, <1>5, <1>6 DEF Consistent, y

LEMMA RemoveTyped ==
  ASSUME NEW x \in MemoryIndexes, NEW i \in MemoryIds
  PROVE  /\ IndexRemove(x, i) \in MemoryIndexes
         /\ IndexRemove(x, i).by_id[i] = None
         /\ \A j \in MemoryIds \ {i} : IndexRemove(x, i).by_id[j] = x.by_id[j]
         /\ AllIds(IndexRemove(x, i)) = AllIds(x) \ {i}
  <1>1. CASE x.by_id[i] = None
    BY <1>1 DEF IndexRemove, AllIds
  <1>2. CASE x.by_id[i] # None
    <2> DEFINE r == x.by_id[i]
    <2>1. r \in MemoryRecord
      BY <1>2, IndexFields
    <2>2. /\ [x.by_id EXCEPT ![i] = None] \in [MemoryIds -> MemoryRecord \cup {None}]
          /\ [x.by_namespace EXCEPT ![r.namespace] = @ \ {i}] \in [Namespaces -> SUBSET MemoryIds]
          /\ [x.by_owner EXCEPT ![r.owner] = @ \ {i}] \in [MemoryOwners -> SUBSET MemoryIds]
          /\ [t \in Tags |-> IF t \in r.tags THEN x.by_tag[t] \ {i} ELSE x.by_tag[t]] \in [Tags -> SUBSET MemoryIds]
      BY <2>1, RecordFields, IndexFields
    <2>3. IndexRemove(x, i) \in MemoryIndexes
      BY <1>2, <2>2 DEF IndexRemove, MemoryIndexes
    <2>4. IndexRemove(x, i).by_id = [x.by_id EXCEPT ![i] = None]
      BY <1>2 DEF IndexRemove
    <2> QED BY <2>3, <2>4, IndexFields DEF AllIds
  <1> QED BY <1>1, <1>2

LEMMA RemoveConsistent ==
  ASSUME NEW x \in MemoryIndexes, NEW i \in MemoryIds, Consistent(x)
  PROVE  Consistent(IndexRemove(x, i))
  <1>1. CASE x.by_id[i] = None
    BY <1>1 DEF IndexRemove
  <1>2. CASE x.by_id[i] # None
    <2> DEFINE r == x.by_id[i]
               y == IndexRemove(x, i)
    <2>1. r \in MemoryRecord
      BY <1>2, IndexFields
    <2>2. /\ y.by_namespace = [x.by_namespace EXCEPT ![r.namespace] = @ \ {i}]
          /\ y.by_owner = [x.by_owner EXCEPT ![r.owner] = @ \ {i}]
          /\ y.by_tag = [t \in Tags |-> IF t \in r.tags THEN x.by_tag[t] \ {i} ELSE x.by_tag[t]]
      BY <1>2 DEF IndexRemove
    <2>3. /\ y.by_id[i] = None
          /\ \A j \in MemoryIds \ {i} : y.by_id[j] = x.by_id[j]
          /\ AllIds(y) = AllIds(x) \ {i} /\ AllIds(x) \subseteq MemoryIds
      BY RemoveTyped DEF AllIds
    <2> HIDE DEF y
    <2>4. \A j \in MemoryIds : y.by_id[j] # None => y.by_id[j].id = j
      BY <2>3 DEF Consistent
    <2>5. \A n \in Namespaces : y.by_namespace[n] = {j \in AllIds(y) : y.by_id[j].namespace = n}
      BY <2>1, <2>2, <2>3, RecordFields, IndexFields DEF Consistent
    <2>6. \A o \in MemoryOwners : y.by_owner[o] = {j \in AllIds(y) : y.by_id[j].owner = o}
      BY <2>1, <2>2, <2>3, RecordFields, IndexFields DEF Consistent
    <2>7. \A t \in Tags : y.by_tag[t] = {j \in AllIds(y) : t \in y.by_id[j].tags}
      BY <2>1, <2>2, <2>3, RecordFields, IndexFields DEF Consistent
    <2> QED BY <2>4, <2>5, <2>6, <2>7 DEF Consistent, y
  <1> QED BY <1>1, <1>2

\* The old record goes and the new one comes, under the same id or a free one.
LEMMA UpdateKeeps ==
  ASSUME NEW x \in MemoryIndexes, NEW old \in MemoryRecord, NEW new \in MemoryRecord
  PROVE  /\ IndexUpdate(x, old, new) \in MemoryIndexes
         /\ AllIds(IndexUpdate(x, old, new)) = (AllIds(x) \ {old.id}) \cup {new.id}
         /\ (Consistent(x) /\ (new.id = old.id \/ x.by_id[new.id] = None)) => Consistent(IndexUpdate(x, old, new))
  <1> DEFINE y == IndexRemove(x, old.id)
  <1>1. /\ y \in MemoryIndexes /\ y.by_id[old.id] = None
        /\ \A j \in MemoryIds \ {old.id} : y.by_id[j] = x.by_id[j]
        /\ AllIds(y) = AllIds(x) \ {old.id}
        /\ Consistent(x) => Consistent(y)
    BY RecordFields, RemoveTyped, RemoveConsistent
  <1> HIDE DEF y
  <1>2. IndexAdd(y, new) \in MemoryIndexes /\ AllIds(IndexAdd(y, new)) = AllIds(y) \cup {new.id}
    BY <1>1, AddTyped
  <1>3. (Consistent(y) /\ y.by_id[new.id] = None) => Consistent(IndexAdd(y, new))
    BY <1>1, AddConsistent
  <1>4. IndexUpdate(x, old, new) = IndexAdd(y, new)
    BY DEF IndexUpdate, y
  <1> QED BY <1>1, <1>2, <1>3, <1>4, RecordFields

\* What the look-ups find through the indexes is what a scan of all records would
\* find, with and without a namespace, an owner and tags (memory/store.py:52-60,
\* memory/search.py).
THEOREM LookupsAreScans ==
  ASSUME NEW x \in MemoryIndexes, Consistent(x), NEW n \in Namespaces \cup {None},
         NEW o \in MemoryOwners \cup {None}, NEW tags \in SUBSET Tags
  PROVE  /\ Listed(x, n, o) = {i \in AllIds(x) : /\ n # None => x.by_id[i].namespace = n
                                                 /\ o # None => x.by_id[i].owner = o}
         /\ SearchTags(x, tags, n) = {i \in AllIds(x) : /\ n # None => x.by_id[i].namespace = n
                                                        /\ tags \subseteq x.by_id[i].tags}
  <1>1. InNamespace(x, n) = {i \in AllIds(x) : n # None => x.by_id[i].namespace = n}
    BY DEF InNamespace, Consistent
  <1>2. OfOwner(x, o) = {i \in AllIds(x) : o # None => x.by_id[i].owner = o}
    BY DEF OfOwner, Consistent
  <1>3. AllIds(x) \cap {i \in MemoryIds : \A t \in tags : i \in x.by_tag[t]}
          = {i \in AllIds(x) : tags \subseteq x.by_id[i].tags}
    BY DEF Consistent, AllIds
  <1> QED BY <1>1, <1>2, <1>3 DEF Listed, SearchTags

-----------------------------------------------------------------------------
(***************************************************************************)
(* The manager of the memory.                                              *)
(***************************************************************************)
Events == [id : MemoryIds \cup {None}, present : BOOLEAN]

EngineOK ==
    /\ memory \in MemoryIndexes
    /\ memoryLock \in Calls \cup {None}
    /\ memoryPc \in [Calls -> {"idle", "publishing", "cleaning"}]
    /\ event \in [Calls -> Events]
    /\ clock \in Nat

\* What a subscriber will believe once it has handled the event.
Told(e) == IF e.present THEN seen \cup {e.id} ELSE seen \ {e.id}

\* The lock is held by the call that publishes, and what is missing from what the
\* subscribers know is the one event that it publishes.
HeardInv ==
    /\ \A c \in Calls : memoryPc[c] = "publishing" <=> memoryLock = c
    /\ overwritten => unheard
    /\ ~unheard => AllIds(memory) = IF memoryLock = None THEN seen ELSE Told(event[memoryLock])

MemoryInv == EngineOK /\ IndexesAgree /\ HeardInv

\* A change and its event reach the subscribers together.
LEMMA StoringKeepsHeard ==
  ASSUME EngineOK, HeardInv, NEW c \in Calls, NEW i \in MemoryIds,
         memoryPc[c] # "publishing",
         memoryLock = None, PublishUnderLock(c, i, TRUE), seen' = seen,
         ~unheard' => AllIds(memory)' = AllIds(memory) \cup {i},
         unheard => unheard', overwritten' => unheard'
  PROVE  /\ HeardInv'
         /\ memoryLock' \in Calls \cup {None}
         /\ memoryPc' \in [Calls -> {"idle", "publishing", "cleaning"}]
         /\ event' \in [Calls -> Events]
  <1>1. /\ memoryLock' = c /\ memoryPc' = [memoryPc EXCEPT ![c] = "publishing"]
        /\ event' = [event EXCEPT ![c] = [id |-> i, present |-> TRUE]]
    BY DEF PublishUnderLock
  <1>2. [id |-> i, present |-> TRUE] \in Events
    BY DEF Events
  <1>3. /\ memoryLock' \in Calls \cup {None}
        /\ memoryPc' \in [Calls -> {"idle", "publishing", "cleaning"}]
        /\ event' \in [Calls -> Events]
    BY <1>1, <1>2 DEF EngineOK
  <1>4. \A d \in Calls : memoryPc'[d] = "publishing" <=> memoryLock' = d
    BY <1>1, EventLoopAssumption DEF EngineOK, HeardInv
  <1>5. ~unheard' => AllIds(memory)' = Told(event[memoryLock])'
    BY <1>1 DEF EngineOK, HeardInv, Told
  <1>6. memoryLock' # None
    BY <1>1, EventLoopAssumption
  <1> QED BY <1>3, <1>4, <1>5, <1>6 DEF HeardInv

LEMMA ForgettingKeepsHeard ==
  ASSUME EngineOK, HeardInv, NEW c \in Calls, NEW i \in MemoryIds,
         memoryPc[c] # "publishing",
         memoryLock = None, PublishUnderLock(c, i, FALSE), seen' = seen,
         ~unheard' => AllIds(memory)' = AllIds(memory) \ {i},
         unheard => unheard', overwritten' => unheard'
  PROVE  /\ HeardInv'
         /\ memoryLock' \in Calls \cup {None}
         /\ memoryPc' \in [Calls -> {"idle", "publishing", "cleaning"}]
         /\ event' \in [Calls -> Events]
  <1>1. /\ memoryLock' = c /\ memoryPc' = [memoryPc EXCEPT ![c] = "publishing"]
        /\ event' = [event EXCEPT ![c] = [id |-> i, present |-> FALSE]]
    BY DEF PublishUnderLock
  <1>2. [id |-> i, present |-> FALSE] \in Events
    BY DEF Events
  <1>3. /\ memoryLock' \in Calls \cup {None}
        /\ memoryPc' \in [Calls -> {"idle", "publishing", "cleaning"}]
        /\ event' \in [Calls -> Events]
    BY <1>1, <1>2 DEF EngineOK
  <1>4. \A d \in Calls : memoryPc'[d] = "publishing" <=> memoryLock' = d
    BY <1>1, EventLoopAssumption DEF EngineOK, HeardInv
  <1>5. ~unheard' => AllIds(memory)' = Told(event[memoryLock])'
    BY <1>1 DEF EngineOK, HeardInv, Told
  <1>6. memoryLock' # None
    BY <1>1, EventLoopAssumption
  <1> QED BY <1>3, <1>4, <1>5, <1>6 DEF HeardInv

LEMMA StampedIsRecord ==
  ASSUME EngineOK, NEW r \in MemoryRecord
  PROVE  Stamped(r) \in MemoryRecord /\ Stamped(r).id = r.id
  <1>1. clock \in Int
    BY DEF EngineOK
  <1> DEFINE q == [r EXCEPT !.updated = clock]
  <1>2. q \in MemoryRecord /\ q.id = r.id
    BY <1>1 DEF MemoryRecord
  <1>3. [q EXCEPT !.accessed = clock] \in MemoryRecord /\ [q EXCEPT !.accessed = clock].id = r.id
    BY <1>1, <1>2 DEF MemoryRecord
  <1>4. Stamped(r) = [q EXCEPT !.accessed = clock]
    BY DEF Stamped
  <1> QED BY <1>3, <1>4

LEMMA StoredIsRecord ==
  ASSUME EngineOK, NEW i \in MemoryIds, memory.by_id[i] # None
  PROVE  memory.by_id[i] \in MemoryRecord /\ i \in AllIds(memory)
  BY IndexFields DEF EngineOK, AllIds

\* The fields that update accepts keep a record a record.
LEMMA UpdatedIsRecord ==
  ASSUME NEW old \in MemoryRecord, NEW fields \in Changes, clock \in Int,
         NEW new, new = [f \in DOMAIN old |-> IF f = "updated" THEN clock
                                              ELSE IF f \in DOMAIN fields THEN fields[f] ELSE old[f]]
  PROVE  new \in MemoryRecord
  <1>1. /\ DOMAIN old = {"id", "namespace", "owner", "tags", "importance", "updated", "accessed", "count"}
        /\ old.id \in MemoryIds /\ old.namespace \in Namespaces /\ old.owner \in MemoryOwners
        /\ old.tags \in SUBSET Tags /\ old.importance \in Int /\ old.accessed \in Int /\ old.count \in Int
    BY DEF MemoryRecord
  <1>2. /\ "id" \in DOMAIN fields => fields["id"] \in MemoryIds
        /\ "namespace" \in DOMAIN fields => fields["namespace"] \in Namespaces
        /\ "owner" \in DOMAIN fields => fields["owner"] \in MemoryOwners
        /\ "tags" \in DOMAIN fields => fields["tags"] \in SUBSET Tags
        /\ "importance" \in DOMAIN fields => fields["importance"] \in Int
        /\ "accessed" \notin DOMAIN fields /\ "count" \notin DOMAIN fields
    BY MemoryEngineAssumption
  <1>3. new = [id |-> new["id"], namespace |-> new["namespace"], owner |-> new["owner"], tags |-> new["tags"],
               importance |-> new["importance"], updated |-> new["updated"], accessed |-> new["accessed"],
               count |-> new["count"]]
    BY <1>1
  <1>4. /\ new["id"] \in MemoryIds /\ new["namespace"] \in Namespaces /\ new["owner"] \in MemoryOwners
        /\ new["tags"] \in SUBSET Tags /\ new["importance"] \in Int /\ new["updated"] \in Int
        /\ new["accessed"] \in Int /\ new["count"] \in Int
    BY <1>1, <1>2
  <1> QED BY <1>3, <1>4 DEF MemoryRecord

LEMMA RecalledIsRecord ==
  ASSUME NEW r \in MemoryRecord, clock \in Int,
         NEW new, new = [r EXCEPT !.accessed = clock, !.count = @ + 1]
  PROVE  new \in MemoryRecord /\ new.id = r.id
  <1> DEFINE q == [r EXCEPT !.accessed = clock]
  <1>1. q \in MemoryRecord /\ q.id = r.id /\ q.count + 1 \in Int
    BY DEF MemoryRecord
  <1>2. [q EXCEPT !.count = q.count + 1] \in MemoryRecord /\ [q EXCEPT !.count = q.count + 1].id = r.id
    BY <1>1 DEF MemoryRecord
  <1>3. new = [q EXCEPT !.count = q.count + 1]
    BY DEF MemoryRecord
  <1> QED BY <1>2, <1>3

LEMMA EmptyIndexKeeps ==
  EmptyIndex \in MemoryIndexes /\ Consistent(EmptyIndex) /\ AllIds(EmptyIndex) = {}
  BY DEF EmptyIndex, MemoryIndexes, Consistent, AllIds

\* clear takes every id out of the entries of its own keys, which leaves nothing
\* only because the indexes agreed before.
LEMMA ClearedKeeps ==
  ASSUME EngineOK
  PROVE  Cleared \in MemoryIndexes /\ (Consistent(memory) => Consistent(Cleared)) /\ AllIds(Cleared) = {}
  <1> DEFINE ns == [n \in Namespaces |-> memory.by_namespace[n] \ {i \in AllIds(memory) : memory.by_id[i].namespace = n}]
             ow == [o \in MemoryOwners |-> memory.by_owner[o] \ {i \in AllIds(memory) : memory.by_id[i].owner = o}]
             tg == [t \in Tags |-> memory.by_tag[t] \ {i \in AllIds(memory) : t \in memory.by_id[i].tags}]
             none == [i \in MemoryIds |-> None]
  <1>0. Cleared = [EmptyIndex EXCEPT !.by_namespace = ns, !.by_owner = ow, !.by_tag = tg]
    BY DEF Cleared
  <1> HIDE DEF ns, ow, tg
  <1>a. Cleared = [by_id |-> none, by_namespace |-> ns, by_owner |-> ow, by_tag |-> tg]
    BY <1>0 DEF EmptyIndex
  <1>1. /\ Cleared.by_id = none /\ Cleared.by_namespace = ns /\ Cleared.by_owner = ow /\ Cleared.by_tag = tg
        /\ none = [i \in MemoryIds |-> None]
    BY <1>a
  <1>2. Cleared \in MemoryIndexes
    <2>1. /\ none \in [MemoryIds -> MemoryRecord \cup {None}]
          /\ ns \in [Namespaces -> SUBSET MemoryIds]
          /\ ow \in [MemoryOwners -> SUBSET MemoryIds]
          /\ tg \in [Tags -> SUBSET MemoryIds]
      BY IndexFields DEF EngineOK, ns, ow, tg
    <2> QED BY <2>1, <1>a DEF MemoryIndexes
  <1>3. AllIds(Cleared) = {}
    BY <1>1 DEF AllIds
  <1>4. ASSUME Consistent(memory) PROVE Consistent(Cleared)
    <2>1. /\ \A n \in Namespaces : Cleared.by_namespace[n] = {}
          /\ \A o \in MemoryOwners : Cleared.by_owner[o] = {}
          /\ \A t \in Tags : Cleared.by_tag[t] = {}
          /\ \A i \in MemoryIds : Cleared.by_id[i] = None
      BY <1>1, <1>4 DEF Consistent, ns, ow, tg
    <2> QED BY <2>1, <1>3 DEF Consistent
  <1> QED BY <1>2, <1>3, <1>4

LEMMA MemoryInvInit == MemoryInit => MemoryInv
  <1> SUFFICES ASSUME MemoryInit PROVE MemoryInv
    OBVIOUS
  <1>1. NoEvent \in Events
    BY DEF NoEvent, Events
  <1>2. EngineOK /\ IndexesAgree
    BY <1>1, EmptyIndexKeeps DEF MemoryInit, EngineOK, IndexesAgree
  <1>3. HeardInv
    BY EmptyIndexKeeps, EventLoopAssumption DEF MemoryInit, HeardInv
  <1> QED BY <1>2, <1>3 DEF MemoryInv

\* The parts of a change of the index that a call makes before it publishes.
LEMMA RememberKeeps ==
  ASSUME MemoryInv, NEW c \in Calls, NEW r \in Drafts, Remember(c, r)
  PROVE  MemoryInv'
  <1> USE DEF MemoryInv
  <1>1. r \in MemoryRecord /\ Stamped(r) \in MemoryRecord /\ Stamped(r).id = r.id /\ r.id \in MemoryIds
    BY MemoryEngineAssumption, StampedIsRecord, RecordFields
  <1>2. /\ memoryLock = None /\ memoryPc[c] = "idle" /\ clock' = clock + 1 /\ memory.by_id[r.id] = None
        /\ memory' = IndexAdd(memory, Stamped(r)) /\ PublishUnderLock(c, r.id, TRUE)
        /\ UNCHANGED <<seen, unheard, overwritten>>
    BY DEF Remember, Locked
  <1>3. memory' \in MemoryIndexes /\ AllIds(memory') = AllIds(memory) \cup {r.id}
    BY <1>1, <1>2, AddTyped DEF EngineOK
  <1>4. IndexesAgree'
    BY <1>1, <1>2, AddConsistent DEF EngineOK, IndexesAgree
  <1>5. AllIds(memory)' = AllIds(memory) \cup {r.id}
    BY <1>3 DEF AllIds
  <1>6. overwritten' => unheard'
    BY <1>2 DEF HeardInv
  <1>7. HeardInv' /\ EngineOK'
    <2> PICK i \in MemoryIds : i = r.id
      BY <1>1
    <2>1. /\ EngineOK /\ HeardInv
          /\ memoryPc[c] # "publishing" /\ memoryLock = None /\ PublishUnderLock(c, i, TRUE) /\ seen' = seen
      BY <1>1, <1>2
    <2>a. unheard => unheard'
      BY <1>2
    <2>2. ~unheard' => AllIds(memory)' = AllIds(memory) \cup {i}
      BY <1>1, <1>2, <1>5, <1>6
    <2>3. /\ HeardInv' /\ memoryLock' \in Calls \cup {None}
          /\ memoryPc' \in [Calls -> {"idle", "publishing", "cleaning"}] /\ event' \in [Calls -> Events]
      BY <2>1, <2>a, <2>2, <1>6, StoringKeepsHeard
    <2>4. memory' \in MemoryIndexes /\ clock' \in Nat
      BY <1>2, <1>3 DEF EngineOK
    <2> QED BY <2>3, <2>4 DEF EngineOK
  <1> QED BY <1>4, <1>7

\* Recall, replace and update: the record under an id is exchanged, and the event
\* names the new record's id.
LEMMA ExchangeKeeps ==
  ASSUME MemoryInv, NEW c \in Calls, NEW i \in MemoryIds, NEW j \in MemoryIds, NEW new \in MemoryRecord,
         memoryPc[c] = "idle", Locked(c), memory.by_id[i] # None,
         memory' = IndexUpdate(memory, memory.by_id[i], new),
         PublishUnderLock(c, j, TRUE), seen' = seen,
         unheard => unheard', ~unheard' => (new.id = i /\ j = i),
         overwritten => overwritten', overwritten' => unheard',
         ~overwritten' => (new.id = i \/ memory.by_id[new.id] = None)
  PROVE  MemoryInv'
  <1> DEFINE old == memory.by_id[i]
  <1>1. old \in MemoryRecord /\ i \in AllIds(memory) /\ new.id \in MemoryIds
    BY StoredIsRecord, RecordFields DEF MemoryInv
  <1>2. memoryLock = None /\ clock' = clock + 1 /\ memory \in MemoryIndexes /\ clock \in Nat
    BY DEF Locked, MemoryInv, EngineOK
  <1>3. /\ memory' \in MemoryIndexes
        /\ AllIds(memory)' = (AllIds(memory) \ {old.id}) \cup {new.id}
        /\ (Consistent(memory) /\ (new.id = old.id \/ memory.by_id[new.id] = None)) => Consistent(memory')
    <2>1. AllIds(memory') = AllIds(memory)'
      BY DEF AllIds
    <2> QED BY <1>1, <1>2, <2>1, UpdateKeeps
  <1>4. ~overwritten => old.id = i
    BY <1>1 DEF MemoryInv, IndexesAgree, Consistent
  <1>5. IndexesAgree'
    <2>1. Consistent(memory)' = Consistent(memory')
      BY DEF Consistent, AllIds
    <2> QED BY <1>3, <1>4, <2>1 DEF MemoryInv, IndexesAgree
  <1>6. ~unheard' => AllIds(memory)' = AllIds(memory) \cup {j}
    BY <1>1, <1>3, <1>4 DEF MemoryInv, HeardInv
  <1>7. HeardInv' /\ EngineOK'
    <2>1. /\ EngineOK /\ HeardInv
          /\ memoryPc[c] # "publishing" /\ memoryLock = None /\ PublishUnderLock(c, j, TRUE) /\ seen' = seen
      BY <1>2 DEF MemoryInv
    <2>2. /\ HeardInv' /\ memoryLock' \in Calls \cup {None}
          /\ memoryPc' \in [Calls -> {"idle", "publishing", "cleaning"}] /\ event' \in [Calls -> Events]
      BY <2>1, <1>6, StoringKeepsHeard
    <2>3. memory' \in MemoryIndexes /\ clock' \in Nat
      BY <1>2, <1>3
    <2> QED BY <2>2, <2>3 DEF EngineOK
  <1> QED BY <1>5, <1>7 DEF MemoryInv

\* forget, delete, and the late forget of a clean-up.
LEMMA ForgettingKeeps ==
  ASSUME MemoryInv, NEW c \in Calls, NEW i \in MemoryIds,
         memoryPc[c] # "publishing", memoryLock = None, memory' = IndexRemove(memory, i),
         PublishUnderLock(c, i, FALSE), clock' \in Nat, UNCHANGED <<seen, unheard, overwritten>>
  PROVE  MemoryInv'
  <1>1. memory' \in MemoryIndexes /\ AllIds(memory)' = AllIds(memory) \ {i}
    <2>1. AllIds(memory') = AllIds(memory)'
      BY DEF AllIds
    <2> QED BY <2>1, RemoveTyped DEF MemoryInv, EngineOK
  <1>2. IndexesAgree'
    <2>1. Consistent(memory)' = Consistent(memory')
      BY DEF Consistent, AllIds
    <2> QED BY <2>1, RemoveConsistent DEF MemoryInv, EngineOK, IndexesAgree
  <1>3. overwritten' => unheard'
    BY DEF MemoryInv, HeardInv
  <1>4. HeardInv' /\ EngineOK'
    BY <1>1, <1>3, ForgettingKeepsHeard DEF MemoryInv, EngineOK
  <1> QED BY <1>2, <1>4 DEF MemoryInv

LEMMA ClearingKeeps ==
  ASSUME MemoryInv, memory' = Cleared, unheard' = TRUE, overwritten' = overwritten,
         UNCHANGED <<memoryLock, memoryPc, event>>, clock' \in Nat
  PROVE  MemoryInv'
  <1>1. memory' \in MemoryIndexes /\ (Consistent(memory) => Consistent(memory'))
    BY ClearedKeeps DEF MemoryInv
  <1>2. Consistent(memory)' = Consistent(memory')
    BY DEF Consistent, AllIds
  <1>3. EngineOK' /\ IndexesAgree'
    BY <1>1, <1>2 DEF MemoryInv, EngineOK, IndexesAgree
  <1>4. HeardInv'
    BY DEF MemoryInv, HeardInv
  <1> QED BY <1>3, <1>4 DEF MemoryInv

\* The calls that touch no record: the end of a publish and the start of a clean-up.
LEMMA PublishedKeeps ==
  ASSUME MemoryInv, NEW c \in Calls, Published(c)
  PROVE  MemoryInv'
  <1>1. /\ memoryPc[c] = "publishing" /\ memoryLock = c /\ c # None
        /\ memoryLock' = None /\ memory' = memory /\ clock' = clock
        /\ unheard' = unheard /\ overwritten' = overwritten
        /\ seen' = Told(event[c])
        /\ memoryPc' = [memoryPc EXCEPT ![c] = IF candidates[c] = {} THEN "idle" ELSE "cleaning"]
        /\ event' = [event EXCEPT ![c] = NoEvent]
    BY EventLoopAssumption DEF Published, MemoryInv, HeardInv, Told
  <1>2. NoEvent \in Events
    BY DEF NoEvent, Events
  <1>3. EngineOK'
    BY <1>1, <1>2 DEF MemoryInv, EngineOK
  <1>4. IndexesAgree'
    BY <1>1 DEF MemoryInv, IndexesAgree, Consistent, AllIds
  <1>5. \A d \in Calls : memoryPc'[d] = "publishing" <=> memoryLock' = d
    BY <1>1, EventLoopAssumption DEF MemoryInv, EngineOK, HeardInv
  <1>6. ~unheard' => AllIds(memory)' = seen'
    BY <1>1 DEF MemoryInv, HeardInv, AllIds
  <1>7. overwritten' => unheard'
    BY <1>1 DEF MemoryInv, HeardInv
  <1>8. HeardInv'
    BY <1>1, <1>5, <1>6, <1>7 DEF HeardInv
  <1> QED BY <1>3, <1>4, <1>8 DEF MemoryInv

LEMMA PublishRaisedKeeps ==
  ASSUME MemoryInv, NEW c \in Calls, PublishRaised(c)
  PROVE  MemoryInv'
  <1>1. /\ memoryPc[c] = "publishing" /\ memoryLock = c /\ c # None
        /\ memoryLock' = None /\ memory' = memory /\ clock' = clock
        /\ seen' = seen
        /\ memoryPc' = [memoryPc EXCEPT ![c] = "idle"]
        /\ event' = [event EXCEPT ![c] = NoEvent]
    BY EventLoopAssumption DEF PublishRaised, MemoryInv, HeardInv
  <1>2. unheard'
    BY DEF PublishRaised
  <1>3. overwritten' = overwritten
    BY DEF PublishRaised
  <1>4. NoEvent \in Events
    BY DEF NoEvent, Events
  <1>5. EngineOK'
    BY <1>1, <1>4 DEF MemoryInv, EngineOK
  <1>6. IndexesAgree'
    BY <1>1, <1>3 DEF MemoryInv, IndexesAgree, Consistent, AllIds
  <1>7. \A d \in Calls : memoryPc'[d] = "publishing" <=> memoryLock' = d
    BY <1>1, EventLoopAssumption DEF MemoryInv, EngineOK, HeardInv
  <1>8. HeardInv'
    BY <1>2, <1>7 DEF HeardInv
  <1> QED BY <1>5, <1>6, <1>8 DEF MemoryInv

\* A call that starts or abandons a clean-up changes its own place alone.
LEMMA MovingKeeps ==
  ASSUME MemoryInv, NEW c \in Calls, NEW pc \in {"idle", "cleaning"},
         memoryPc[c] # "publishing", memoryPc' = [memoryPc EXCEPT ![c] = pc], clock' \in Nat,
         UNCHANGED <<memory, memoryLock, event, seen, unheard, overwritten>>
  PROVE  MemoryInv'
  <1>1. EngineOK'
    BY DEF MemoryInv, EngineOK
  <1>2. IndexesAgree'
    BY DEF MemoryInv, IndexesAgree, Consistent, AllIds
  <1>3. \A d \in Calls : memoryPc'[d] = "publishing" <=> memoryLock' = d
    BY DEF MemoryInv, EngineOK, HeardInv
  <1>4. overwritten' => unheard'
    BY DEF MemoryInv, HeardInv
  <1>5. ~unheard' => AllIds(memory)' = IF memoryLock' = None THEN seen' ELSE Told(event[memoryLock])'
    BY DEF MemoryInv, HeardInv, AllIds, Told
  <1>6. HeardInv'
    BY <1>3, <1>4, <1>5 DEF HeardInv
  <1> QED BY <1>1, <1>2, <1>6 DEF MemoryInv

LEMMA MemoryInvStep == MemoryInv /\ [MemoryNext]_memoryVars => MemoryInv'
  <1> SUFFICES ASSUME MemoryInv, [MemoryNext]_memoryVars PROVE MemoryInv'
    OBVIOUS
  <1>0. /\ clock \in Nat /\ clock \in Int /\ clock + 1 \in Nat
        /\ EngineOK
    BY DEF MemoryInv, EngineOK
  <1>h. overwritten => unheard
    BY DEF MemoryInv, HeardInv
  <1>1. ASSUME NEW c \in Calls, NEW r \in Drafts, Remember(c, r) PROVE MemoryInv'
    BY <1>1, RememberKeeps
  <1>2. ASSUME NEW c \in Calls, NEW r \in Drafts, ReplaceRecord(c, r) PROVE MemoryInv'
    <2>1. /\ r \in MemoryRecord /\ Stamped(r) \in MemoryRecord /\ Stamped(r).id = r.id /\ r.id \in MemoryIds
      BY <1>0, MemoryEngineAssumption, StampedIsRecord, RecordFields
    <2> PICK i \in MemoryIds : i = r.id
      BY <2>1
    <2> PICK new \in MemoryRecord : new = Stamped(r)
      BY <2>1
    <2>2. /\ memoryPc[c] = "idle" /\ Locked(c) /\ memory.by_id[i] # None
          /\ memory' = IndexUpdate(memory, memory.by_id[i], new)
          /\ PublishUnderLock(c, i, TRUE) /\ seen' = seen /\ new.id = i
      BY <1>2, <2>1 DEF ReplaceRecord
    <2>3. unheard' = unheard /\ overwritten' = overwritten
      BY <1>2 DEF ReplaceRecord
    <2>4. overwritten' => unheard'
      BY <1>h, <2>3
    <2>5. (unheard => unheard') /\ (overwritten => overwritten')
      BY <2>3
    <2> QED BY <2>2, <2>4, <2>5, ExchangeKeeps
  <1>3. ASSUME NEW c \in Calls, NEW i \in MemoryIds, Recall(c, i) PROVE MemoryInv'
    <2> DEFINE r == memory.by_id[i]
               q == [r EXCEPT !.accessed = clock, !.count = @ + 1]
    <2>1. memory.by_id[i] # None
      BY <1>3 DEF Recall
    <2>2. r \in MemoryRecord
      BY <1>0, <2>1, StoredIsRecord
    <2>3. q \in MemoryRecord /\ q.id = r.id
      BY <1>0, <2>2, RecalledIsRecord
    <2>4. /\ memoryPc[c] = "idle" /\ Locked(c) /\ memory' = IndexUpdate(memory, r, q)
          /\ PublishUnderLock(c, i, TRUE) /\ seen' = seen
      BY <1>3 DEF Recall
    <2>5. unheard' = unheard /\ overwritten' = overwritten
      BY <1>3 DEF Recall
    <2>6. overwritten' => unheard'
      BY <1>h, <2>5
    <2>7. (unheard => unheard') /\ (overwritten => overwritten')
      BY <2>5
    <2>8. ~overwritten => r.id = i
      BY <2>1 DEF MemoryInv, IndexesAgree, Consistent
    <2>9. ~unheard' => (q.id = i /\ i = i)
      BY <1>h, <2>3, <2>5, <2>8
    <2>10. ~overwritten' => (q.id = i \/ memory.by_id[q.id] = None)
      BY <2>3, <2>5, <2>8
    <2> PICK new \in MemoryRecord : new = q
      BY <2>3
    <2> HIDE DEF q
    <2> QED BY <2>1, <2>4, <2>6, <2>7, <2>9, <2>10, ExchangeKeeps
  <1>4. ASSUME NEW c \in Calls, NEW i \in MemoryIds, Forget(c, i) PROVE MemoryInv'
    <2>1. /\ memoryPc[c] # "publishing" /\ memoryLock = None /\ memory' = IndexRemove(memory, i)
          /\ PublishUnderLock(c, i, FALSE) /\ clock' \in Nat
      BY <1>0, <1>4 DEF Forget, Locked
    <2>2. UNCHANGED <<seen, unheard, overwritten>>
      BY <1>4 DEF Forget
    <2> QED BY <2>1, <2>2, ForgettingKeeps
  <1>5. ASSUME NEW c \in Calls, NEW i \in MemoryIds, CleanupForgets(c, i) PROVE MemoryInv'
    <2>1. /\ memoryPc[c] # "publishing" /\ memoryLock = None /\ memory' = IndexRemove(memory, i)
          /\ PublishUnderLock(c, i, FALSE) /\ clock' \in Nat
      BY <1>0, <1>5 DEF CleanupForgets
    <2>2. UNCHANGED <<seen, unheard, overwritten>>
      BY <1>5 DEF CleanupForgets
    <2> QED BY <2>1, <2>2, ForgettingKeeps
  <1>6. ASSUME NEW c \in Calls, NEW i \in MemoryIds, CleanupRaises(c, i) PROVE MemoryInv'
    <2>1. memoryPc[c] # "publishing" /\ memoryPc' = [memoryPc EXCEPT ![c] = "idle"] /\ clock' \in Nat
      BY <1>0, <1>6 DEF CleanupRaises
    <2>2. UNCHANGED <<memory, memoryLock, event, seen, unheard, overwritten>>
      BY <1>6 DEF CleanupRaises
    <2> QED BY <2>1, <2>2, MovingKeeps
  <1>7. ASSUME NEW c \in Calls, NEW i \in MemoryIds, NEW fields \in Changes, Update(c, i, fields) PROVE MemoryInv'
    <2> DEFINE old == memory.by_id[i]
    <2>1. memory.by_id[i] # None
      BY <1>7 DEF Update
    <2>2. old \in MemoryRecord
      BY <1>0, <2>1, StoredIsRecord
    <2> DEFINE q == [f \in DOMAIN old |-> IF f = "updated" THEN clock
                                          ELSE IF f \in DOMAIN fields THEN fields[f] ELSE old[f]]
    <2>3. q \in MemoryRecord
      BY <1>0, <2>2, UpdatedIsRecord
    <2>4. /\ memoryPc[c] = "idle" /\ Locked(c) /\ memory.by_id[i] # None
          /\ memory' = IndexUpdate(memory, old, q)
          /\ PublishUnderLock(c, q.id, TRUE) /\ seen' = seen
      BY <1>7 DEF Update
    <2>5. unheard' = (unheard \/ q.id # i)
      BY <1>7 DEF Update
    <2>6. overwritten' = (overwritten \/ (q.id # i /\ memory.by_id[q.id] # None))
      BY <1>7 DEF Update
    <2> PICK new \in MemoryRecord : new = q
      BY <2>3
    <2> PICK j \in MemoryIds : j = new.id
      BY RecordFields
    <2> HIDE DEF q
    <2>7. (unheard => unheard') /\ (overwritten => overwritten')
      BY <2>5, <2>6
    <2>8. overwritten' => unheard'
      BY <1>h, <2>5, <2>6
    <2>9. ~unheard' => (new.id = i /\ j = i)
      BY <2>5
    <2>10. ~overwritten' => (new.id = i \/ memory.by_id[new.id] = None)
      BY <2>6
    <2>11. PublishUnderLock(c, j, TRUE)
      BY <2>4
    <2> QED BY <2>4, <2>7, <2>8, <2>9, <2>10, <2>11, ExchangeKeeps
  <1>8. ASSUME NEW c \in Calls, Clear(c) PROVE MemoryInv'
    <2>1. memory' = Cleared /\ UNCHANGED <<memoryLock, memoryPc, event>> /\ clock' \in Nat
      BY <1>0, <1>8 DEF Clear, Locked
    <2>2. unheard' = TRUE
      BY <1>8 DEF Clear
    <2>3. overwritten' = overwritten
      BY <1>8 DEF Clear
    <2> QED BY <2>1, <2>2, <2>3, ClearingKeeps
  <1>9. CASE ShutdownMemory
    <2>1. memory' = Cleared /\ UNCHANGED <<memoryLock, memoryPc, event>> /\ clock' \in Nat
      BY <1>0, <1>9 DEF ShutdownMemory
    <2>2. unheard' = TRUE
      BY <1>9 DEF ShutdownMemory
    <2>3. overwritten' = overwritten
      BY <1>9 DEF ShutdownMemory
    <2> QED BY <2>1, <2>2, <2>3, ClearingKeeps
  <1>10. ASSUME NEW c \in Calls, Published(c) PROVE MemoryInv'
    BY <1>10, PublishedKeeps
  <1>11. ASSUME NEW c \in Calls, PublishRaised(c) PROVE MemoryInv'
    BY <1>11, PublishRaisedKeeps
  <1>12. ASSUME NEW c \in Calls, Cleanup(c) PROVE MemoryInv'
    <2>1. memoryPc[c] # "publishing" /\ memoryPc' = [memoryPc EXCEPT ![c] = "cleaning"] /\ clock' \in Nat
      BY <1>0, <1>12 DEF Cleanup, Locked
    <2>2. UNCHANGED <<memory, memoryLock, event, seen, unheard, overwritten>>
      BY <1>12 DEF Cleanup
    <2> QED BY <2>1, <2>2, MovingKeeps
  <1>13. CASE UNCHANGED memoryVars
    <2> USE <1>13 DEF memoryVars, MemoryInv
    <2>1. EngineOK'
      BY DEF EngineOK
    <2>2. IndexesAgree'
      BY DEF IndexesAgree, Consistent, AllIds
    <2>3. HeardInv'
      BY DEF HeardInv, Told, AllIds
    <2> QED BY <2>1, <2>2, <2>3
  <1> QED
    BY <1>1, <1>2, <1>3, <1>4, <1>5, <1>6, <1>7, <1>8, <1>9, <1>10, <1>11, <1>12, <1>13 DEF MemoryNext

LEMMA MemoryInvHolds == MemorySpec => []MemoryInv
  BY MemoryInvInit, MemoryInvStep, PTL DEF MemorySpec

\* However records are stored, replaced, retagged, moved, renamed, cleared and
\* expired, every index files exactly the records that carry its key, unless an
\* update gave a record the id of another one (memory/indexes.py:18-48).
THEOREM IndexesStayConsistent == MemorySpec => []IndexesAgree
  <1>1. MemoryInv => IndexesAgree
    BY DEF MemoryInv
  <1> QED BY <1>1, MemoryInvHolds, PTL

\* A subscriber that follows the events knows which records there are whenever no
\* call is publishing, because the lock is held across the publish
\* (memory/manager.py:52-174).
THEOREM EventsTellTheStore == MemorySpec => []SubscribersSeeStore
  <1>1. MemoryInv => SubscribersSeeStore
    BY DEF MemoryInv, HeardInv, SubscribersSeeStore
  <1> QED BY <1>1, MemoryInvHolds, PTL

\* What is chosen for the clean-up, announced and believed by the subscribers are ids.
HistoryOK ==
    /\ candidates \in [Calls -> SUBSET MemoryIds]
    /\ seen \in SUBSET MemoryIds
    /\ unheard \in BOOLEAN /\ overwritten \in BOOLEAN
    /\ policy \in Policies
    /\ \A c \in Calls : event[c].present => event[c].id \in MemoryIds

\* Every policy selects ids of records.
LEMMA SelectionsAreIds ==
    ASSUME EngineOK, policy \in Policies, NEW s \in Selections PROVE s \in SUBSET MemoryIds
  <1>1. AllIds(memory) \in SUBSET MemoryIds
    BY DEF AllIds
  <1>2. \A r \in Records : r.id \in MemoryIds
    <2>1. \A i \in AllIds(memory) : memory.by_id[i] \in MemoryRecord
      BY StoredIsRecord DEF AllIds
    <2>2. \A r \in Records : r \in MemoryRecord
      BY <2>1 DEF Records
    <2> QED BY <2>2, RecordFields
  <1>3. ASSUME NEW limit PROVE Expired(limit) \in SUBSET MemoryIds /\ Unimportant(limit) \in SUBSET MemoryIds
    BY <1>2 DEF Expired, Unimportant
  <1>4. ASSUME NEW limit, NEW u \in LeastRecentlyUsed(limit) PROVE u \in SUBSET MemoryIds
    BY <1>1, <1>4 DEF LeastRecentlyUsed
  <1>5. policy.kind \in {"never", "ttl", "importance", "lru"}
    BY MemoryEngineAssumption
  <1>6. CASE policy.kind = "never"
    BY <1>6 DEF Selections
  <1>7. CASE policy.kind = "ttl"
    BY <1>7, <1>3 DEF Selections
  <1>8. CASE policy.kind = "importance"
    BY <1>8, <1>3 DEF Selections
  <1>9. CASE policy.kind = "lru"
    BY <1>9, <1>4 DEF Selections
  <1> QED BY <1>5, <1>6, <1>7, <1>8, <1>9

\* An event that tells of a record carries an id.
LEMMA EventKeeps ==
    ASSUME EngineOK, HistoryOK, NEW c \in Calls, NEW e, event' = [event EXCEPT ![c] = e],
           e.present => e.id \in MemoryIds
    PROVE  \A d \in Calls : event'[d].present => event'[d].id \in MemoryIds
  BY DEF EngineOK, HistoryOK

LEMMA HistoryStep == ASSUME MemoryInv, HistoryOK, [MemoryNext]_memoryVars PROVE HistoryOK'
  <1>0. EngineOK
    BY DEF MemoryInv
  <1>1. ASSUME NEW c \in Calls, NEW i \in MemoryIds, NEW present \in BOOLEAN, PublishUnderLock(c, i, present)
        PROVE  \A d \in Calls : event'[d].present => event'[d].id \in MemoryIds
    BY <1>0, <1>1, EventKeeps DEF PublishUnderLock
  <1>2. ASSUME NEW c \in Calls, NEW r \in Drafts, Remember(c, r) \/ ReplaceRecord(c, r) PROVE HistoryOK'
    <2>1. r.id \in MemoryIds
      BY MemoryEngineAssumption, RecordFields
    <2> QED BY <1>1, <1>2, <2>1 DEF HistoryOK, Remember, ReplaceRecord
  <1>3. ASSUME NEW c \in Calls, NEW i \in MemoryIds, Recall(c, i) \/ Forget(c, i) PROVE HistoryOK'
    BY <1>1, <1>3 DEF HistoryOK, Recall, Forget
  <1>4. ASSUME NEW c \in Calls, NEW i \in MemoryIds, CleanupForgets(c, i) PROVE HistoryOK'
    <2>1. candidates' \in [Calls -> SUBSET MemoryIds]
      BY <1>4 DEF HistoryOK, CleanupForgets
    <2>2. PublishUnderLock(c, i, FALSE) /\ UNCHANGED <<policy, seen, unheard, overwritten>>
      BY <1>4 DEF CleanupForgets
    <2> QED BY <1>1, <2>1, <2>2 DEF HistoryOK
  <1>5. ASSUME NEW c \in Calls, NEW i \in MemoryIds, CleanupRaises(c, i) PROVE HistoryOK'
    BY <1>5 DEF HistoryOK, CleanupRaises
  <1>6. ASSUME NEW c \in Calls, NEW i \in MemoryIds, NEW fields \in Changes, Update(c, i, fields) PROVE HistoryOK'
    <2> DEFINE old == memory.by_id[i]
               new == [f \in DOMAIN old |-> IF f = "updated" THEN clock
                                            ELSE IF f \in DOMAIN fields THEN fields[f] ELSE old[f]]
    <2>1. old \in MemoryRecord /\ clock \in Int
      BY <1>0, <1>6, StoredIsRecord DEF Update, EngineOK
    <2>2. /\ PublishUnderLock(c, new.id, TRUE) /\ UNCHANGED <<candidates, policy, seen>>
          /\ unheard' = (unheard \/ new.id # i)
          /\ overwritten' = (overwritten \/ (new.id # i /\ memory.by_id[new.id] # None))
      BY <1>6 DEF Update
    <2>3. new.id \in MemoryIds
      BY <2>1, UpdatedIsRecord, RecordFields
    <2> HIDE DEF new, old
    <2>4. unheard' \in BOOLEAN /\ overwritten' \in BOOLEAN
      BY <2>2
    <2> QED BY <1>1, <2>2, <2>3, <2>4 DEF HistoryOK
  <1>7. ASSUME NEW c \in Calls, Clear(c) PROVE HistoryOK'
    BY <1>7 DEF HistoryOK, Clear
  <1>8. ASSUME NEW c \in Calls, Published(c) PROVE HistoryOK'
    <2>1. event' = [event EXCEPT ![c] = NoEvent] /\ ~ NoEvent.present
      BY <1>8 DEF Published, NoEvent
    <2>2. \A d \in Calls : event'[d].present => event'[d].id \in MemoryIds
      BY <1>0, <2>1, EventKeeps
    <2> QED BY <1>8, <2>2 DEF HistoryOK, Published
  <1>9. ASSUME NEW c \in Calls, PublishRaised(c) PROVE HistoryOK'
    <2>1. event' = [event EXCEPT ![c] = NoEvent] /\ ~ NoEvent.present
      BY <1>9 DEF PublishRaised, NoEvent
    <2>2. \A d \in Calls : event'[d].present => event'[d].id \in MemoryIds
      BY <1>0, <2>1, EventKeeps
    <2> QED BY <1>9, <2>2 DEF HistoryOK, PublishRaised
  <1>10. ASSUME NEW c \in Calls, Cleanup(c) PROVE HistoryOK'
    <2>1. PICK s \in Selections : candidates' = [candidates EXCEPT ![c] = s]
      BY <1>10 DEF Cleanup
    <2>2. s \in SUBSET MemoryIds
      BY <1>0, SelectionsAreIds DEF HistoryOK
    <2> QED BY <1>10, <2>1, <2>2 DEF HistoryOK, Cleanup
  <1>11. CASE ShutdownMemory
    BY <1>11 DEF HistoryOK, ShutdownMemory
  <1>12. CASE UNCHANGED memoryVars
    BY <1>12 DEF HistoryOK, memoryVars
  <1> QED BY <1>2, <1>3, <1>4, <1>5, <1>6, <1>7, <1>8, <1>9, <1>10, <1>11, <1>12 DEF MemoryNext

\* The indexes file records under known ids, and what is chosen for the clean-up and
\* what the subscribers believe in are ids of records.
THEOREM MemoryTypes == MemorySpec => []MemoryTypeOK
  <1>1. ASSUME MemoryInit PROVE HistoryOK
    <2>1. \A c \in Calls : ~ event[c].present
      BY <1>1 DEF MemoryInit, NoEvent
    <2>2. candidates \in [Calls -> SUBSET MemoryIds] /\ seen \in SUBSET MemoryIds
      BY <1>1 DEF MemoryInit
    <2> QED BY <1>1, <2>1, <2>2 DEF MemoryInit, HistoryOK
  <1>2. MemoryInv /\ HistoryOK /\ [MemoryNext]_memoryVars => HistoryOK'
    BY HistoryStep
  <1>3. MemoryInv /\ HistoryOK => MemoryTypeOK
    BY DEF MemoryInv, EngineOK, HistoryOK, MemoryTypeOK
  <1> QED BY <1>1, <1>2, <1>3, MemoryInvHolds, PTL DEF MemorySpec

-----------------------------------------------------------------------------
(***************************************************************************)
(* The registry of identities.                                             *)
(***************************************************************************)
RegistryOK ==
    /\ by_id \in [IdentityIds -> Identities \cup {None}]
    /\ by_username \in [Usernames -> Identities \cup {None}]

RegistryInv == RegistryOK /\ IdentitiesAgree

\* What the other operations do to the registry: nothing.
RegistryRest ==
    \/ \E id \in IdentityIds : DropLapsedOf(id)
    \/ ShutdownIdentity
    \/ \E x \in Contexts, s \in Sessions :
          \/ Logout(x, s)
          \/ \E i \in Identities : Authenticate(x, i, s)
    \/ \E s \in Sessions : Lapse(s)
    \/ \E x \in Contexts :
          \/ DropLapsed(x) \/ \E y \in Contexts : Spawn(x, y)
          \/ \E o \in Overrides : SetContext(x, o)
    \/ \E i \in Identities, p \in Permissions : Grant(i, p) \/ Revoke(i, p)
    \/ UNCHANGED identityVars

LEMMA RegistryRestKeeps == RegistryRest => UNCHANGED registryVars
  BY DEF RegistryRest, DropLapsedOf, ShutdownIdentity, Logout, Authenticate, SetContext, Lapse,
         DropLapsed, Spawn, Grant, Revoke, identityVars, registryVars

LEMMA RegistryInvInit == IdentityInit => RegistryInv
  BY IdentityAssumption DEF IdentityInit, RegistryInv, RegistryOK, IdentitiesAgree

LEMMA RegistryInvStep == RegistryInv /\ [IdentityNext]_identityVars => RegistryInv'
  <1> SUFFICES ASSUME RegistryInv, [IdentityNext]_identityVars
               PROVE  RegistryInv'
    OBVIOUS
  <1> USE IdentityAssumption DEF RegistryInv, RegistryOK, IdentitiesAgree
  <1>1. ASSUME NEW i \in Identities, RegisterIdentity(i) PROVE RegistryInv'
    <2>1. i.id \in IdentityIds /\ i.username \in Usernames /\ i # None
      OBVIOUS
    <2>2. RegistryOK'
      BY <1>1, <2>1 DEF RegisterIdentity
    <2>3. \A id \in IdentityIds : by_id'[id] # None =>
             by_id'[id].id = id /\ by_username'[by_id'[id].username] = by_id'[id]
      BY <1>1, <2>1 DEF RegisterIdentity
    <2>4. \A u \in Usernames : by_username'[u] # None =>
             by_username'[u].username = u /\ by_id'[by_username'[u].id] = by_username'[u]
      BY <1>1, <2>1 DEF RegisterIdentity
    <2> QED BY <2>2, <2>3, <2>4
  <1>2. ASSUME NEW i \in Identities, ReplaceIdentity(i) PROVE RegistryInv'
    <2> DEFINE old == by_id[i.id]
    <2>1. /\ i.id \in IdentityIds /\ i.username \in Usernames /\ i # None
          /\ old \in Identities /\ old.id = i.id /\ by_username[old.username] = old
      BY <1>2 DEF ReplaceIdentity
    <2>2. RegistryOK'
      BY <1>2, <2>1 DEF ReplaceIdentity, Renamed
    <2>3. \A id \in IdentityIds : by_id'[id] # None =>
             by_id'[id].id = id /\ by_username'[by_id'[id].username] = by_id'[id]
      BY <1>2, <2>1 DEF ReplaceIdentity, Renamed
    <2>4. \A u \in Usernames : by_username'[u] # None =>
             by_username'[u].username = u /\ by_id'[by_username'[u].id] = by_username'[u]
      BY <1>2, <2>1 DEF ReplaceIdentity, Renamed
    <2> QED BY <2>2, <2>3, <2>4
  <1>3. ASSUME NEW id \in IdentityIds, RemoveIdentity(id) PROVE RegistryInv'
    <2>1. by_id[id] \in Identities /\ by_id[id].username \in Usernames
      BY <1>3 DEF RemoveIdentity
    <2> QED BY <1>3, <2>1 DEF RemoveIdentity
  <1>4. CASE ClearIdentities
    BY <1>4 DEF ClearIdentities
  <1>5. CASE RegistryRest
    BY <1>5, RegistryRestKeeps DEF registryVars
  <1> QED
    BY <1>1, <1>2, <1>3, <1>4, <1>5 DEF IdentityNext, RegistryRest

\* An id leads to a username that leads back, whatever is registered, replaced,
\* renamed and removed in whatever order (identity/registry.py:17-49).
THEOREM LookupsAgree == IdentitySpec => []IdentitiesAgree
  <1>1. IdentitySpec => []RegistryInv
    BY RegistryInvInit, RegistryInvStep, PTL DEF IdentitySpec
  <1>2. RegistryInv => IdentitiesAgree
    BY DEF RegistryInv
  <1> QED BY <1>1, <1>2, PTL

-----------------------------------------------------------------------------
(***************************************************************************)
(* The contexts.                                                           *)
(***************************************************************************)
Currents == [session : Sessions \cup {None}, identity : Identities \cup {None}]
Frames == [set : Currents, before : Currents, made_in : Contexts]
CloseOrders == {"nested", "holed", "restored"}

ContextsOK ==
    /\ sessions \subseteq {s \in Sessions : issued[s] # None}
    /\ issued \in [Sessions -> IdentityIds \cup {None}]
    /\ stack \in [Contexts -> Seq(Frames)]
    /\ current \in [Contexts -> Currents]
    /\ order \in [Contexts -> CloseOrders]

\* As long as frames are closed innermost first, every frame remembers what the frame
\* below it has set.
Chained(st) ==
    \A n \in 1..Len(st) : st[n].before = IF n = 1 THEN Nobody ELSE st[n - 1].set

TopPair(st) == IF st = << >> THEN Nobody ELSE Last(st).set

ContextInv(st, cur, o) ==
    /\ o = "nested" => Chained(st)
    /\ o # "restored" => cur = TopPair(st)

CurrentInv ==
    /\ ContextsOK
    /\ \A x \in Contexts : ContextInv(stack[x], current[x], order[x])

\* The latest of several frames exists: natural numbers have no infinite descent.
Less == {p \in Nat \X Nat : p[1] < p[2]}

LEMMA LessIsWellFounded == IsWellFoundedOn(Less, Nat)
  BY NatLessThanWellFounded DEF OpToRel, Less

LEMMA BoundedSetHasMax ==
  ASSUME NEW n \in Nat, NEW S \in SUBSET (1..n), S # {}
  PROVE  \E k \in S : \A m \in S : m <= k
  <1> DEFINE T == {n - k : k \in S}
  <1>1. T \subseteq Nat /\ T # {}
    <2>1. \A k \in S : n - k \in Nat
      OBVIOUS
    <2>2. PICK k \in S : TRUE
      OBVIOUS
    <2>3. n - k \in T
      BY <2>2
    <2> QED BY <2>1, <2>3
  <1>2. PICK t \in T : \A u \in T : ~(<<u, t>> \in Less)
    BY <1>1, LessIsWellFounded, WFMin
  <1>3. PICK k \in S : t = n - k
    BY <1>2
  <1>4. ASSUME NEW m \in S PROVE m <= k
    <2>1. n - m \in T /\ n - m \in Nat /\ n - k \in Nat
      OBVIOUS
    <2>2. <<n - m, n - k>> \notin Less
      BY <1>2, <1>3, <2>1
    <2>3. ~(n - m < n - k)
      BY <2>1, <2>2 DEF Less
    <2> QED BY <2>3
  <1> QED BY <1>4

LEMMA WithoutFrame ==
  ASSUME NEW q \in Seq(Frames), NEW n \in 1..Len(q)
  PROVE  /\ Without(q, n) \in Seq(Frames)
         /\ Len(Without(q, n)) = Len(q) - 1
         /\ \A m \in 1..(Len(q) - 1) : Without(q, n)[m] = IF m < n THEN q[m] ELSE q[m + 1]
  <1> DEFINE a == SubSeq(q, 1, n - 1)
             b == SubSeq(q, n + 1, Len(q))
  <1>1. Len(q) \in Nat /\ n \in Int /\ \A i \in 1..Len(q) : q[i] \in Frames
    BY ElementOfSeq
  <1>2. /\ a \in Seq(Frames) /\ Len(a) = n - 1
        /\ \A i \in 1..(n - 1) : a[i] = q[i]
    <2>1. \A i \in 1..(n - 1) : q[i] \in Frames
      BY <1>1
    <2>2. 1 \in Int /\ n - 1 \in Int
      BY <1>1
    <2> HIDE DEF a
    <2>3. /\ a \in Seq(Frames) /\ Len(a) = IF 1 <= n - 1 THEN (n - 1) - 1 + 1 ELSE 0
          /\ \A i \in 1..((n - 1) - 1 + 1) : a[i] = q[1 + i - 1]
      BY <2>1, <2>2, SubSeqProperties DEF a
    <2> QED BY <2>3, <1>1
  <1>3. /\ b \in Seq(Frames) /\ Len(b) = Len(q) - n
        /\ \A i \in 1..(Len(q) - n) : b[i] = q[n + i]
    <2>1. \A i \in (n + 1)..Len(q) : q[i] \in Frames
      BY <1>1
    <2>2. n + 1 \in Int /\ Len(q) \in Int
      BY <1>1
    <2> HIDE DEF b
    <2>3. /\ b \in Seq(Frames) /\ Len(b) = IF n + 1 <= Len(q) THEN Len(q) - (n + 1) + 1 ELSE 0
          /\ \A i \in 1..(Len(q) - (n + 1) + 1) : b[i] = q[(n + 1) + i - 1]
      BY <2>1, <2>2, SubSeqProperties DEF b
    <2> QED BY <2>3, <1>1
  <1> HIDE DEF a, b
  <1>4. /\ a \o b \in Seq(Frames)
        /\ Len(a \o b) = Len(a) + Len(b)
        /\ \A i \in 1..(Len(a) + Len(b)) : (a \o b)[i] = IF i <= Len(a) THEN a[i] ELSE b[i - Len(a)]
    BY <1>2, <1>3, ConcatProperties
  <1>5. Without(q, n) = a \o b
    BY DEF Without, a, b
  <1>6. ASSUME NEW m \in 1..(Len(q) - 1) PROVE Without(q, n)[m] = IF m < n THEN q[m] ELSE q[m + 1]
    <2>1. CASE m < n
      BY <2>1, <1>1, <1>2, <1>3, <1>4, <1>5
    <2>2. CASE n <= m
      <3>1. m - (n - 1) \in 1..(Len(q) - n)
        BY <2>2, <1>1
      <3>2. b[m - (n - 1)] = q[n + (m - (n - 1))]
        BY <3>1, <1>3
      <3>3. n + (m - (n - 1)) = m + 1
        BY <1>1
      <3> QED BY <2>2, <3>2, <3>3, <1>1, <1>2, <1>3, <1>4, <1>5
    <2> QED BY <2>1, <2>2, <1>1
  <1>7. Len(a) + Len(b) = Len(q) - 1
    BY <1>1, <1>2, <1>3
  <1> QED BY <1>4, <1>5, <1>6, <1>7

LEMMA TopIsLast ==
  ASSUME NEW q \in Seq(Frames)
  PROVE  TopPair(q) = IF Len(q) = 0 THEN Nobody ELSE q[Len(q)].set
  BY EmptySeq DEF TopPair, Last

\* Closing a session takes the invariant along, in the middle of the stack and on
\* top of it.
LEMMA ClosingKeepsInv ==
  ASSUME NEW st \in Seq(Frames), NEW cur \in Currents, NEW o \in CloseOrders,
         ContextInv(st, cur, o), NEW n \in 1..Len(st),
         NEW cur2, cur2 = IF n = Len(st) THEN Last(st).before ELSE cur,
         NEW o2, o2 = IF n < Len(st) /\ o = "nested" THEN "holed"
                      ELSE IF n = Len(st) /\ o = "holed" THEN "restored" ELSE o
  PROVE  ContextInv(Without(st, n), cur2, o2) /\ cur2 \in Currents /\ o2 \in CloseOrders
  <1> DEFINE w == Without(st, n)
  <1>1. /\ w \in Seq(Frames) /\ Len(w) = Len(st) - 1 /\ Len(st) \in Nat \ {0}
        /\ \A m \in 1..(Len(st) - 1) : w[m] = IF m < n THEN st[m] ELSE st[m + 1]
    BY WithoutFrame
  <1> HIDE DEF w
  <1>2. \A m \in 1..Len(st) : st[m] \in Frames /\ st[m].before \in Currents
    <2> TAKE m \in 1..Len(st)
    <2>1. st[m] \in Frames
      BY ElementOfSeq
    <2> QED BY <2>1 DEF Frames
  <1>3. cur2 \in Currents
    BY <1>1, <1>2 DEF Last
  <1>5. o2 \in CloseOrders
    BY DEF CloseOrders
  <1>6. ASSUME o2 = "nested" PROVE Chained(w)
    <2>1. n = Len(st) /\ Chained(st)
      BY <1>6, <1>1 DEF ContextInv, CloseOrders
    <2> QED BY <2>1, <1>1 DEF Chained
  <1>7. ASSUME o2 # "restored" PROVE cur2 = TopPair(w)
    <2>1. CASE n < Len(st)
      <3>1. cur2 = cur /\ cur = TopPair(st)
        BY <1>7, <2>1 DEF ContextInv
      <3>2. w[Len(w)] = st[Len(st)] /\ Len(w) # 0
        BY <1>1, <2>1
      <3> QED BY <3>1, <3>2, <1>1, TopIsLast
    <2>2. CASE n = Len(st)
      <3>1. cur2 = st[Len(st)].before /\ Chained(st)
        BY <1>7, <2>2, <1>1 DEF ContextInv, CloseOrders, Last
      <3>2. CASE Len(st) = 1
        <4>0. Len(w) = 0
          BY <3>2, <1>1
        <4>1. TopPair(w) = Nobody
          BY <4>0, <1>1, TopIsLast
        <4>2. st[1].before = Nobody
          BY <3>1, <3>2 DEF Chained
        <4> QED BY <3>1, <3>2, <4>1, <4>2
      <3>3. CASE Len(st) # 1
        <4>1. w[Len(w)] = st[Len(st) - 1] /\ Len(w) # 0
          BY <1>1, <2>2, <3>3
        <4>2. st[Len(st)].before = st[Len(st) - 1].set
          BY <3>1, <3>3, <1>1 DEF Chained
        <4> QED BY <3>1, <4>1, <4>2, <1>1, TopIsLast
      <3> QED BY <3>2, <3>3
    <2> QED BY <2>1, <2>2, <1>1
  <1> QED BY <1>3, <1>5, <1>6, <1>7 DEF ContextInv, w

\* _push_context: the new frame remembers what was current.
LEMMA PushingKeepsInv ==
  ASSUME NEW st \in Seq(Frames), NEW cur \in Currents, NEW o \in CloseOrders,
         ContextInv(st, cur, o), NEW s \in Sessions, NEW i \in Identities, NEW x \in Contexts
  PROVE  LET now == [session |-> s, identity |-> i]
             frame == [set |-> now, before |-> cur, made_in |-> x]
         IN ContextInv(Append(st, frame), now, o) /\ Append(st, frame) \in Seq(Frames) /\ now \in Currents
  <1> DEFINE now == [session |-> s, identity |-> i]
             frame == [set |-> now, before |-> cur, made_in |-> x]
             w == Append(st, frame)
  <1>1. frame \in Frames /\ now \in Currents
    BY DEF Frames, Currents
  <1>2. /\ w \in Seq(Frames) /\ Len(w) = Len(st) + 1 /\ Len(st) \in Nat
        /\ w[Len(st) + 1] = frame
        /\ \A m \in 1..Len(st) : w[m] = st[m]
    BY <1>1, AppendProperties
  <1>3. frame.before = cur /\ frame.set = now
    OBVIOUS
  <1> HIDE DEF w, frame
  <1>6. ASSUME o = "nested" PROVE Chained(w)
    <2>1. Chained(st) /\ cur = TopPair(st)
      BY <1>6 DEF ContextInv
    <2> SUFFICES ASSUME NEW m \in 1..Len(w)
                 PROVE  w[m].before = IF m = 1 THEN Nobody ELSE w[m - 1].set
      BY DEF Chained
    <2>2. CASE m = Len(st) + 1
      BY <2>1, <2>2, <1>2, <1>3, TopIsLast
    <2>3. CASE m \in 1..Len(st)
      BY <2>1, <2>3, <1>2 DEF Chained
    <2> QED BY <2>2, <2>3, <1>2
  <1>7. now = TopPair(w)
    BY <1>2, <1>3, TopIsLast
  <1> QED BY <1>1, <1>2, <1>6, <1>7 DEF ContextInv, w, frame

\* Dropping sessions from the registry changes no context.
LEMMA UnchangedKeepsCurrentInv ==
  CurrentInv /\ UNCHANGED <<issued, stack, current, order>> /\ sessions' \subseteq sessions => CurrentInv'
  BY DEF CurrentInv, ContextsOK

\* Closing a session in a context: the latest frame goes, or nothing happens.
LEMMA RestoreKeepsInv ==
  ASSUME CurrentInv, NEW x \in Contexts, NEW s, Restore(x, s), UNCHANGED issued, sessions' \subseteq sessions
  PROVE  CurrentInv'
  <1>1. CASE UNCHANGED contextVars
    BY <1>1, UnchangedKeepsCurrentInv DEF contextVars
  <1>2. CASE ~UNCHANGED contextVars
    <2>1. FramesOf(x, s) # {}
      BY <1>2 DEF Restore
    <2> DEFINE n == CHOOSE n \in FramesOf(x, s) : \A m \in FramesOf(x, s) : m <= n
    <2>2. /\ stack' = [stack EXCEPT ![x] = Without(@, n)]
          /\ current' = IF n = Len(stack[x]) THEN [current EXCEPT ![x] = Last(stack[x]).before] ELSE current
          /\ order' = [order EXCEPT ![x] = IF n < Len(stack[x]) /\ @ = "nested" THEN "holed"
                                           ELSE IF n = Len(stack[x]) /\ @ = "holed" THEN "restored" ELSE @]
      BY <1>2, <2>1 DEF Restore, Unwinds
    <2>3. n \in 1..Len(stack[x])
      <3>1. FramesOf(x, s) \subseteq 1..Len(stack[x]) /\ Len(stack[x]) \in Nat
        BY DEF FramesOf, CurrentInv, ContextsOK
      <3>2. \E k \in FramesOf(x, s) : \A m \in FramesOf(x, s) : m <= k
        BY <2>1, <3>1, BoundedSetHasMax
      <3> QED BY <3>1, <3>2
    <2> HIDE DEF n
    <2>4. /\ stack[x] \in Seq(Frames) /\ current[x] \in Currents /\ order[x] \in CloseOrders
          /\ ContextInv(stack[x], current[x], order[x])
      BY DEF CurrentInv, ContextsOK
    <2>5. /\ stack'[x] = Without(stack[x], n)
          /\ current'[x] = IF n = Len(stack[x]) THEN Last(stack[x]).before ELSE current[x]
          /\ order'[x] = IF n < Len(stack[x]) /\ order[x] = "nested" THEN "holed"
                         ELSE IF n = Len(stack[x]) /\ order[x] = "holed" THEN "restored" ELSE order[x]
      BY <2>2 DEF CurrentInv, ContextsOK
    <2>6. ContextInv(stack'[x], current'[x], order'[x]) /\ current'[x] \in Currents /\ order'[x] \in CloseOrders
      BY <2>3, <2>4, <2>5, ClosingKeepsInv
    <2>7. stack'[x] \in Seq(Frames)
      BY <2>3, <2>4, <2>5, WithoutFrame
    <2>8. \A y \in Contexts \ {x} : stack'[y] = stack[y] /\ current'[y] = current[y] /\ order'[y] = order[y]
      BY <2>2 DEF CurrentInv, ContextsOK
    <2>9. ContextsOK'
      BY <2>2, <2>6, <2>7 DEF CurrentInv, ContextsOK
    <2>10. \A y \in Contexts : ContextInv(stack'[y], current'[y], order'[y])
      BY <2>6, <2>8 DEF CurrentInv
    <2> QED BY <2>9, <2>10 DEF CurrentInv
  <1> QED BY <1>1, <1>2

\* Making a session current, new or not.
LEMMA PushKeepsInv ==
  ASSUME CurrentInv, NEW x \in Contexts, NEW s \in Sessions, NEW i \in Identities, Push(x, s, i),
         issued' \in [Sessions -> IdentityIds \cup {None}],
         sessions' \subseteq {r \in Sessions : issued'[r] # None}
  PROVE  CurrentInv'
  <1> DEFINE now == [session |-> s, identity |-> i]
             frame == [set |-> now, before |-> current[x], made_in |-> x]
  <1>1. /\ stack' = [stack EXCEPT ![x] = Append(stack[x], frame)]
        /\ current' = [current EXCEPT ![x] = now]
        /\ order' = order
    BY DEF Push
  <1>2. /\ \A y \in Contexts : stack[y] \in Seq(Frames) /\ current[y] \in Currents /\ order[y] \in CloseOrders
        /\ ContextInv(stack[x], current[x], order[x])
    BY DEF CurrentInv, ContextsOK
  <1>4. /\ ContextInv(Append(stack[x], frame), now, order[x])
        /\ Append(stack[x], frame) \in Seq(Frames) /\ now \in Currents
    BY <1>2, PushingKeepsInv
  <1>5. ContextsOK'
    BY <1>1, <1>2, <1>4 DEF CurrentInv, ContextsOK
  <1>6. \A y \in Contexts : ContextInv(stack'[y], current'[y], order'[y])
    BY <1>1, <1>2, <1>4 DEF CurrentInv, ContextsOK
  <1> QED BY <1>5, <1>6 DEF CurrentInv

LEMMA CurrentInvInit == IdentityInit => CurrentInv
  <1> SUFFICES ASSUME IdentityInit PROVE CurrentInv
    OBVIOUS
  <1>1. Nobody \in Currents
    BY DEF Nobody, Currents
  <1>2. /\ << >> \in Seq(Frames) /\ Len(<< >>) = 0
        /\ "nested" \in CloseOrders
    BY DEF CloseOrders
  <1>3. ContextsOK
    BY <1>1, <1>2 DEF IdentityInit, ContextsOK
  <1>4. \A x \in Contexts : ContextInv(<< >>, Nobody, "nested")
    BY <1>1, <1>2 DEF ContextInv, Chained, TopPair
  <1> QED BY <1>3, <1>4 DEF IdentityInit, CurrentInv

LEMMA CurrentInvStep == CurrentInv /\ [IdentityNext]_identityVars => CurrentInv'
  <1> SUFFICES ASSUME CurrentInv, [IdentityNext]_identityVars
               PROVE  CurrentInv'
    OBVIOUS
  <1>1. ASSUME NEW i \in Identities, RegisterIdentity(i) \/ ReplaceIdentity(i) PROVE CurrentInv'
    BY <1>1, UnchangedKeepsCurrentInv DEF RegisterIdentity, ReplaceIdentity, contextVars
  <1>2. ASSUME NEW id \in IdentityIds, RemoveIdentity(id) PROVE CurrentInv'
    BY <1>2, UnchangedKeepsCurrentInv DEF RemoveIdentity, contextVars
  <1>3. CASE ClearIdentities
    BY <1>3, UnchangedKeepsCurrentInv DEF ClearIdentities, contextVars
  <1>4. ASSUME NEW i \in Identities, NEW p \in Permissions, Grant(i, p) \/ Revoke(i, p) PROVE CurrentInv'
    BY <1>4, UnchangedKeepsCurrentInv DEF Grant, Revoke, contextVars
  <1>5. ASSUME NEW id \in IdentityIds, DropLapsedOf(id) PROVE CurrentInv'
    BY <1>5, UnchangedKeepsCurrentInv DEF DropLapsedOf, contextVars
  <1>6. CASE ShutdownIdentity
    BY <1>6, UnchangedKeepsCurrentInv DEF ShutdownIdentity, contextVars
  <1>7. ASSUME NEW s \in Sessions, Lapse(s) PROVE CurrentInv'
    BY <1>7, UnchangedKeepsCurrentInv DEF Lapse, contextVars
  <1>8. ASSUME NEW x \in Contexts, NEW s \in Sessions, Logout(x, s) PROVE CurrentInv'
    BY <1>8, RestoreKeepsInv DEF Logout
  <1>9. ASSUME NEW x \in Contexts, DropLapsed(x) PROVE CurrentInv'
    BY <1>9, RestoreKeepsInv DEF DropLapsed
  <1>10. ASSUME NEW x \in Contexts, NEW s \in Sessions, NEW i \in Identities, Authenticate(x, i, s)
         PROVE  CurrentInv'
    <2>1. i.id \in IdentityIds /\ i.id # None
      BY IdentityAssumption
    <2>2. issued' = [issued EXCEPT ![s] = i.id] /\ sessions' = sessions \cup {s} /\ Push(x, s, i)
      BY <1>10 DEF Authenticate
    <2>3. /\ issued' \in [Sessions -> IdentityIds \cup {None}] /\ issued'[s] = i.id
          /\ \A r \in Sessions \ {s} : issued'[r] = issued[r]
      BY <2>1, <2>2 DEF CurrentInv, ContextsOK
    <2>4. sessions' \subseteq {r \in Sessions : issued'[r] # None}
      BY <2>1, <2>2, <2>3 DEF CurrentInv, ContextsOK
    <2> QED BY <2>1, <2>2, <2>3, <2>4, PushKeepsInv
  <1>11. ASSUME NEW x \in Contexts, NEW o \in Overrides, SetContext(x, o)
         PROVE  CurrentInv'
    <2>1. o.session \in Sessions /\ o.identity \in Identities
      BY IdentityAssumption
    <2>2. issued' = issued /\ sessions' = sessions /\ Push(x, o.session, o.identity)
      BY <1>11 DEF SetContext
    <2>3. /\ issued' \in [Sessions -> IdentityIds \cup {None}]
          /\ sessions' \subseteq {r \in Sessions : issued'[r] # None}
      BY <2>2 DEF CurrentInv, ContextsOK
    <2> QED BY <2>1, <2>2, <2>3, PushKeepsInv
  <1>12. ASSUME NEW x \in Contexts, NEW y \in Contexts, Spawn(x, y) PROVE CurrentInv'
    <2>1. /\ stack' = [stack EXCEPT ![y] = stack[x]] /\ current' = [current EXCEPT ![y] = current[x]]
          /\ order' = [order EXCEPT ![y] = order[x]] /\ sessions' = sessions /\ issued' = issued
      BY <1>12 DEF Spawn
    <2>2. ContextsOK'
      BY <2>1 DEF CurrentInv, ContextsOK
    <2>3. \A z \in Contexts : ContextInv(stack'[z], current'[z], order'[z])
      BY <2>1 DEF CurrentInv, ContextsOK
    <2> QED BY <2>2, <2>3 DEF CurrentInv
  <1>13. CASE UNCHANGED identityVars
    BY <1>13, UnchangedKeepsCurrentInv DEF identityVars
  <1> QED
    BY <1>1, <1>2, <1>3, <1>4, <1>5, <1>6, <1>7, <1>8, <1>9, <1>10, <1>11, <1>12, <1>13 DEF IdentityNext

-----------------------------------------------------------------------------
\* Token-based restoration brings back, session and identity together, what the latest
\* frame left has set, for every nesting and repetition of log-ins, contexts set by
\* middlewares and spawned tasks, as long as frames are not closed inside out
\* (identity/authentication.py:151-173).
THEOREM LatestSetIsCurrent == IdentitySpec => []CurrentIsLatestSet
  <1>1. IdentitySpec => []CurrentInv
    BY CurrentInvInit, CurrentInvStep, PTL DEF IdentitySpec
  <1>2. CurrentInv => CurrentIsLatestSet
    BY DEF CurrentInv, ContextInv, TopPair, CurrentIsLatestSet
  <1> QED BY <1>1, <1>2, PTL

\* The contexts that are alive, and the permissions that are granted, are known ones.
LivesOK ==
    /\ living \subseteq Contexts
    /\ grants \in [IdentityIds -> SUBSET Permissions]

LEMMA LivesStep == ASSUME LivesOK, [IdentityNext]_identityVars PROVE LivesOK'
  <1>1. ASSUME NEW i \in Identities, NEW p \in Permissions, Grant(i, p) \/ Revoke(i, p) PROVE LivesOK'
    <2>1. i.id \in IdentityIds
      BY IdentityAssumption
    <2> QED BY <1>1, <2>1 DEF LivesOK, Grant, Revoke
  <1>2. ASSUME NEW x \in Contexts, NEW y \in Contexts, Spawn(x, y) PROVE LivesOK'
    BY <1>2 DEF LivesOK, Spawn
  <1>3. CASE UNCHANGED <<living, grants>>
    BY <1>3 DEF LivesOK
  <1> QED BY <1>1, <1>2, <1>3 DEF IdentityNext, RegisterIdentity, ReplaceIdentity, RemoveIdentity, DropLapsedOf,
             ClearIdentities, ShutdownIdentity, Logout, Authenticate, SetContext, Lapse, DropLapsed, identityVars

\* A session that is registered was issued to somebody, and identities, contexts and
\* grants are known ones.
THEOREM IdentityTypes == IdentitySpec => []IdentityTypeOK
  <1>1. IdentityInit => LivesOK
    BY DEF IdentityInit, LivesOK
  <1>2. LivesOK /\ [IdentityNext]_identityVars => LivesOK'
    BY LivesStep
  <1>3. RegistryInv /\ CurrentInv /\ LivesOK => IdentityTypeOK
    BY DEF RegistryInv, RegistryOK, CurrentInv, ContextsOK, CloseOrders, LivesOK, IdentityTypeOK
  <1> QED BY <1>1, <1>2, <1>3, RegistryInvInit, RegistryInvStep, CurrentInvInit, CurrentInvStep, PTL
          DEF IdentitySpec

-----------------------------------------------------------------------------
(***************************************************************************)
(* The plugin framework.                                                   *)
(***************************************************************************)
Discoveries == [id : Plugins, valid : BOOLEAN]
Operations == {"discover", "load", "enable", "disable", "unload", "unloading"}
PluginWaits == {NoWait} \cup [op : Operations, id : Plugins]

PluginsOK ==
    /\ plugin \in [Plugins -> PluginStates \cup {None}]
    /\ pluginPc \in [Calls -> PluginWaits]
    /\ undiscovered \in [Calls -> Seq(Discoveries)]

LEMMA WaitKeepsType ==
  ASSUME pluginPc \in [Calls -> PluginWaits], NEW c \in Calls, NEW op \in Operations, NEW p \in Plugins,
         Waits(c, op, p)
  PROVE  pluginPc' \in [Calls -> PluginWaits]
  <1>1. [op |-> op, id |-> p] \in PluginWaits
    BY DEF PluginWaits
  <1> QED BY <1>1 DEF Waits

LEMMA NoWaitKeepsType ==
  ASSUME pluginPc \in [Calls -> PluginWaits], NEW c \in Calls, Waits(c, None, None)
  PROVE  pluginPc' \in [Calls -> PluginWaits]
  BY DEF Waits, PluginWaits, NoWait

\* What disable writes, alone and as the first half of unload.
LEMMA DisabledKeepsType ==
  ASSUME PluginsOK, NEW c \in Calls, NEW p \in Plugins, NEW op \in Operations, Disabled(c, p, op)
  PROVE  PluginsOK'
  <1>1. pluginPc' \in [Calls -> PluginWaits]
    BY WaitKeepsType DEF PluginsOK, Disabled, Announces
  <1> QED BY <1>1 DEF PluginsOK, Disabled, PluginStates

\* What unload writes last, whatever became of the plugin meanwhile.
LEMMA UndiscoverKeepsType ==
  ASSUME PluginsOK, NEW c \in Calls, NEW p \in Plugins, Undiscover(c, p)
  PROVE  PluginsOK'
  <1>1. pluginPc' \in [Calls -> PluginWaits]
    BY WaitKeepsType DEF PluginsOK, Undiscover, Announces, Operations
  <1> QED BY <1>1 DEF PluginsOK, Undiscover, PluginStates

LEMMA PluginsOKInit == PluginInit => PluginsOK
  BY PluginAssumption DEF PluginInit, PluginsOK, PluginWaits

LEMMA PluginsOKStep == PluginsOK /\ [PluginNext]_pluginVars => PluginsOK'
  <1> SUFFICES ASSUME PluginsOK, [PluginNext]_pluginVars
               PROVE  PluginsOK'
    OBVIOUS
  <1>1. ASSUME NEW c \in Calls, Discover(c)
        PROVE  PluginsOK'
    <2>1. undiscovered' \in [Calls -> Seq(Discoveries)]
      BY <1>1, PluginAssumption DEF PluginsOK, Discover, Discoveries
    <2> QED BY <1>1, <2>1 DEF PluginsOK, Discover
  <1>2. ASSUME NEW c \in Calls, DiscoverNext(c)
        PROVE  PluginsOK'
    <2> DEFINE m == Head(undiscovered[c])
    <2>1. m \in Discoveries /\ Tail(undiscovered[c]) \in Seq(Discoveries)
      BY <1>2 DEF PluginsOK, DiscoverNext
    <2>2. m.id \in Plugins
      BY <2>1 DEF Discoveries
    <2>3. pluginPc' \in [Calls -> PluginWaits]
      BY <1>2, <2>2, WaitKeepsType DEF PluginsOK, DiscoverNext, Announces, Operations
    <2>4. undiscovered' \in [Calls -> Seq(Discoveries)]
      BY <1>2, <2>1 DEF PluginsOK, DiscoverNext
    <2>5. plugin' \in [Plugins -> PluginStates \cup {None}]
      BY <1>2, <2>2 DEF PluginsOK, DiscoverNext, PluginStates
    <2> QED BY <2>3, <2>4, <2>5 DEF PluginsOK
  <1>3. ASSUME NEW c \in Calls, NEW p \in Plugins, Load(c, p)
        PROVE  PluginsOK'
    <2>1. pluginPc' \in [Calls -> PluginWaits]
      BY <1>3, WaitKeepsType DEF PluginsOK, Load, Announces, Operations
    <2> QED BY <1>3, <2>1 DEF PluginsOK, Load, PluginStates
  <1>4. ASSUME NEW c \in Calls, NEW p \in Plugins, Enable(c, p)
        PROVE  PluginsOK'
    <2>1. pluginPc' \in [Calls -> PluginWaits]
      BY <1>4, WaitKeepsType DEF PluginsOK, Enable, Announces, Operations
    <2> QED BY <1>4, <2>1 DEF PluginsOK, Enable, PluginStates
  <1>5. ASSUME NEW c \in Calls, NEW p \in Plugins, Disable(c, p)
        PROVE  PluginsOK'
    BY <1>5, DisabledKeepsType DEF Disable, Operations
  <1>6. ASSUME NEW c \in Calls, NEW p \in Plugins, Unload(c, p)
        PROVE  PluginsOK'
    <2>1. CASE plugin[p] = "ENABLED"
      BY <1>6, <2>1, DisabledKeepsType DEF Unload, Operations
    <2>2. CASE plugin[p] # "ENABLED"
      BY <1>6, <2>2, UndiscoverKeepsType DEF Unload
    <2> QED BY <2>1, <2>2
  <1>7. ASSUME NEW c \in Calls, UnloadGoesOn(c)
        PROVE  PluginsOK'
    <2>1. pluginPc[c].id \in Plugins
      BY <1>7, PluginAssumption DEF PluginsOK, UnloadGoesOn, PluginWaits, NoWait, Operations
    <2> QED BY <1>7, <2>1, UndiscoverKeepsType DEF UnloadGoesOn
  <1>8. ASSUME NEW c \in Calls, PluginPublished(c)
        PROVE  PluginsOK'
    BY <1>8, NoWaitKeepsType DEF PluginsOK, PluginPublished
  <1>9. ASSUME NEW c \in Calls, PluginPublishRaised(c)
        PROVE  PluginsOK'
    <2>1. undiscovered' \in [Calls -> Seq(Discoveries)]
      BY <1>9 DEF PluginsOK, PluginPublishRaised
    <2> QED BY <1>9, <2>1, NoWaitKeepsType DEF PluginsOK, PluginPublishRaised
  <1>10. ASSUME NEW a \in BOOLEAN, SetAvailable(a)
         PROVE  PluginsOK'
    BY <1>10 DEF PluginsOK, SetAvailable
  <1>11. CASE UNCHANGED pluginVars
    BY <1>11 DEF PluginsOK, pluginVars
  <1> QED
    BY <1>1, <1>2, <1>3, <1>4, <1>5, <1>6, <1>7, <1>8, <1>9, <1>10, <1>11 DEF PluginNext

\* A call only ever waits for the publish of an operation on a known plugin, and the
\* health that is reported is that of the tracker.
THEOREM PluginTypes == PluginSpec => []PluginTypeOK
  <1> DEFINE Rest == available \in BOOLEAN
  <1>1. PluginInit => Rest
    BY DEF PluginInit
  <1>2. ASSUME Rest, [PluginNext]_pluginVars PROVE Rest'
    BY <1>2 DEF PluginNext, Discover, DiscoverNext, Load, Enable, Disable, Disabled, Unload, UnloadGoesOn,
       Undiscover, PluginPublished, PluginPublishRaised, SetAvailable, pluginVars
  <1>3. ASSUME PluginsOK, Rest PROVE PluginTypeOK
    <2>1. \A c \in Calls : pluginPc[c].id \in Plugins \cup {None}
      BY <1>3 DEF PluginsOK, PluginWaits, NoWait
    <2>2. CheckHealth = "RUNNING" <=> available
      BY <1>3 DEF CheckHealth
    <2> QED BY <1>3, <2>1, <2>2 DEF PluginsOK, PluginTypeOK
  <1> HIDE DEF Rest
  <1> QED BY <1>1, <1>2, <1>3, PluginsOKInit, PluginsOKStep, PTL DEF PluginSpec
=============================================================================
