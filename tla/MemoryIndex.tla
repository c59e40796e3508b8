----------------------------- MODULE MemoryIndex -----------------------------
(***************************************************************************)
(* The store of the memory engine (core/memory): records by id, and the    *)
(* indexes by namespace, owner and tag, with the look-ups that trust them. *)
(***************************************************************************)
EXTENDS EventLoop

CONSTANTS MemoryIds, Namespaces, MemoryOwners, Tags

MemoryRecord ==
    [id : MemoryIds, namespace : Namespaces, owner : MemoryOwners, tags : SUBSET Tags,
     importance : Int, updated : Int, accessed : Int, count : Int]

ASSUME MemoryAssumption == None \notin MemoryIds /\ None \notin MemoryRecord

MemoryIndexes ==
    [by_id : [MemoryIds -> MemoryRecord \cup {None}],
     by_namespace : [Namespaces -> SUBSET MemoryIds],
     by_owner : [MemoryOwners -> SUBSET MemoryIds],
     by_tag : [Tags -> SUBSET MemoryIds]]

EmptyIndex ==
    [by_id |-> [i \in MemoryIds |-> None],
     by_namespace |-> [n \in Namespaces |-> {}],
     by_owner |-> [o \in MemoryOwners |-> {}],
     by_tag |-> [t \in Tags |-> {}]]

\* MemoryIndex.add.
IndexAdd(x, r) ==
    [by_id |-> [x.by_id EXCEPT ![r.id] = r],
     by_namespace |-> [x.by_namespace EXCEPT ![r.namespace] = @ \cup {r.id}],
     by_owner |-> [x.by_owner EXCEPT ![r.owner] = @ \cup {r.id}],
     by_tag |-> [t \in Tags |-> IF t \in r.tags THEN x.by_tag[t] \cup {r.id} ELSE x.by_tag[t]]]

\* Mutant: the tags of a removed record are left behind.
IndexRemove_KeepsTags(x, i) ==
    LET r == x.by_id[i] IN
    IF r = None THEN x
    ELSE [by_id |-> [x.by_id EXCEPT ![i] = None],
          by_namespace |-> [x.by_namespace EXCEPT ![r.namespace] = @ \ {i}],
          by_owner |-> [x.by_owner EXCEPT ![r.owner] = @ \ {i}],
          by_tag |-> x.by_tag]

\* MemoryIndex.remove: the record tells under which keys it is filed. A key
\* without records is dropped from its dictionary: the empty set here.
IndexRemove(x, i) ==
    LET r == x.by_id[i] IN
    IF r = None THEN x
    ELSE [by_id |-> [x.by_id EXCEPT ![i] = None],
          by_namespace |-> [x.by_namespace EXCEPT ![r.namespace] = @ \ {i}],
          by_owner |-> [x.by_owner EXCEPT ![r.owner] = @ \ {i}],
          by_tag |-> [t \in Tags |-> IF t \in r.tags THEN x.by_tag[t] \ {i} ELSE x.by_tag[t]]]

\* MemoryIndex.update: the new record may carry another id than the old one.
IndexUpdate(x, old, new) == IndexAdd(IndexRemove(x, old.id), new)

\* all_ids, and the look-ups of MemoryStore.list and of the search engine.
AllIds(x) == {i \in MemoryIds : x.by_id[i] # None}
InNamespace(x, n) == IF n = None THEN AllIds(x) ELSE x.by_namespace[n]
OfOwner(x, o) == IF o = None THEN AllIds(x) ELSE x.by_owner[o]
Listed(x, n, o) == AllIds(x) \cap InNamespace(x, n) \cap OfOwner(x, o)
SearchTags(x, tags, n) == AllIds(x) \cap InNamespace(x, n) \cap {i \in MemoryIds : \A t \in tags : i \in x.by_tag[t]}

\* Every index files exactly the records that carry its key, under their id.
Consistent(x) ==
    /\ \A i \in MemoryIds : x.by_id[i] # None => x.by_id[i].id = i
    /\ \A n \in Namespaces : x.by_namespace[n] = {i \in AllIds(x) : x.by_id[i].namespace = n}
    /\ \A o \in MemoryOwners : x.by_owner[o] = {i \in AllIds(x) : x.by_id[i].owner = o}
    /\ \A t \in Tags : x.by_tag[t] = {i \in AllIds(x) : t \in x.by_id[i].tags}

=============================================================================
