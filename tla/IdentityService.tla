--------------------------- MODULE IdentityService ---------------------------
(***************************************************************************)
(* Identity (core/identity): the registry of identities, the sessions, the *)
(* stack of current sessions each asyncio context keeps in context         *)
(* variables, and the permissions of an identity.                          *)
(***************************************************************************)
EXTENDS EventLoop

CONSTANTS
    IdentityIds, Usernames,
    Identities,     \* Identity objects the callers hold
    Sessions,       \* session ids that can be issued
    Contexts,       \* asyncio contexts
    Overrides,      \* what middlewares set: [session, identity]
    MaxFrames,      \* bound on how deep middlewares nest contexts
    Permissions,
    RolePermissions \* DefaultPermissionPolicy: the permissions of each role

ASSUME IdentityAssumption ==
    /\ \A i \in Identities : i.id \in IdentityIds /\ i.username \in Usernames
    /\ Overrides \subseteq [session : Sessions, identity : Identities]
    /\ None \notin Identities /\ None \notin IdentityIds /\ None \notin Sessions

VARIABLES
    by_id, by_username, \* IdentityRegistry
    sessions,     \* SessionRegistry
    issued,       \* whose session an issued session is
    lapsed,       \* sessions past their expires_at
    stack,        \* _context_stack, by context
    current,      \* _current_session and _current_identity, by context
    living,       \* contexts that have been created
    grants,       \* _explicit_grants
    order         \* history: whether a context closed sessions innermost first, by context

identityVars == <<by_id, by_username, sessions, issued, lapsed, stack, current, living, grants, order>>
registryVars == <<by_id, by_username>>
contextVars == <<stack, current, order>>

Nobody == [session |-> None, identity |-> None]

IdentityInit ==
    /\ by_id = [i \in IdentityIds |-> None]
    /\ by_username = [u \in Usernames |-> None]
    /\ sessions = {}
    /\ issued = [s \in Sessions |-> None]
    /\ lapsed = {}
    /\ stack = [x \in Contexts |-> << >>]
    /\ current = [x \in Contexts |-> Nobody]
    /\ \E x \in Contexts : living = {x}
    /\ grants = [i \in IdentityIds |-> {}]
    /\ order = [x \in Contexts |-> "nested"]

-----------------------------------------------------------------------------
\* IdentityRegistry: each method under its lock, a duplicate raises.
RegisterIdentity(i) ==
    /\ by_id[i.id] = None /\ by_username[i.username] = None
    /\ by_id' = [by_id EXCEPT ![i.id] = i]
    /\ by_username' = [by_username EXCEPT ![i.username] = i]
    /\ UNCHANGED <<sessions, issued, lapsed, living, grants>> /\ UNCHANGED contextVars

\* Sessions and grants of a removed identity stay.
RemoveIdentity(id) ==
    /\ by_id[id] # None
    /\ by_username' = [by_username EXCEPT ![by_id[id].username] = None]
    /\ by_id' = [by_id EXCEPT ![id] = None]
    /\ UNCHANGED <<sessions, issued, lapsed, living, grants>> /\ UNCHANGED contextVars

\* Mutant: the former username still leads to the old identity.
Renamed_KeepsFormer(existing, i) == [by_username EXCEPT ![i.username] = i]

\* The former username is given up.
Renamed(existing, i) == [by_username EXCEPT ![existing.username] = None, ![i.username] = i]

ReplaceIdentity(i) ==
    /\ by_id[i.id] # None
    /\ i.username # by_id[i.id].username => by_username[i.username] = None
    /\ by_username' = Renamed(by_id[i.id], i)
    /\ by_id' = [by_id EXCEPT ![i.id] = i]
    /\ UNCHANGED <<sessions, issued, lapsed, living, grants>> /\ UNCHANGED contextVars

ClearIdentities ==
    /\ \E id \in IdentityIds : by_id[id] # None
    /\ by_id' = [id \in IdentityIds |-> None]
    /\ by_username' = [u \in Usernames |-> None]
    /\ UNCHANGED <<sessions, issued, lapsed, living, grants>> /\ UNCHANGED contextVars

-----------------------------------------------------------------------------
\* _push_context: the tokens can only be reset in the context that made them. Of what
\* it sets, the frame itself keeps the id of the session.
Push(x, s, i) ==
    LET pair == [session |-> s, identity |-> i] IN
    /\ stack' = [stack EXCEPT ![x] = Append(@, [set |-> pair, before |-> current[x], made_in |-> x])]
    /\ current' = [current EXCEPT ![x] = pair]
    /\ UNCHANGED order

FramesOf(x, s) == {n \in DOMAIN stack[x] : stack[x][n].set.session = s}
Without(q, n) == SubSeq(q, 1, n - 1) \o SubSeq(q, n + 1, Len(q))
Last(q) == q[Len(q)]

\* Mutant: the variables are reset whichever frame goes.
Unwinds_Always(x, n) == TRUE

Unwinds(x, n) == n = Len(stack[x])

\* _restore_context_for_session: the latest frame of the session goes, and the
\* variables are reset if it is the innermost one. A task that inherited the
\* frame gets a ValueError from the reset: its frames stay as they are.
Restore(x, s) ==
    IF FramesOf(x, s) = {} THEN UNCHANGED contextVars
    ELSE LET n == CHOOSE n \in FramesOf(x, s) : \A m \in FramesOf(x, s) : m <= n IN
         IF Unwinds(x, n) /\ stack[x][n].made_in # x THEN UNCHANGED contextVars
         ELSE /\ stack' = [stack EXCEPT ![x] = Without(@, n)]
              /\ current' = IF Unwinds(x, n) THEN [current EXCEPT ![x] = Last(stack[x]).before] ELSE current
              /\ order' = [order EXCEPT ![x] = IF n < Len(stack[x]) /\ @ = "nested" THEN "holed"
                                               ELSE IF n = Len(stack[x]) /\ @ = "holed" THEN "restored" ELSE @]

\* A new session has an id nobody has seen.
New(s) == issued[s] = None /\ s \notin lapsed /\ \A x \in Contexts : FramesOf(x, s) = {} /\ current[x].session # s

\* authenticate: the identity object is the caller's, the registry is only asked
\* whether there is one with its id. A session that has lapsed by the time it is
\* registered is removed at once: nothing has changed.
Authenticate(x, i, s) ==
    /\ x \in living /\ i.active /\ by_id[i.id] # None /\ New(s)
    /\ issued' = [issued EXCEPT ![s] = i.id]
    /\ sessions' = sessions \cup {s}
    /\ Push(x, s, i)
    /\ UNCHANGED <<lapsed, living, grants>> /\ UNCHANGED registryVars

Lapse(s) ==
    /\ s \notin lapsed
    /\ lapsed' = lapsed \cup {s}
    /\ UNCHANGED <<sessions, issued, living, grants>> /\ UNCHANGED contextVars /\ UNCHANGED registryVars

\* logout closes a registered session in whatever context it is called.
Logout(x, s) ==
    /\ x \in living /\ s \in sessions
    /\ sessions' = sessions \ {s}
    /\ Restore(x, s)
    /\ UNCHANGED <<issued, lapsed, living, grants>> /\ UNCHANGED registryVars

\* current_session drops a lapsed session, and answers None even when an outer
\* session has become current by that.
DropLapsed(x) ==
    /\ x \in living /\ current[x].session \in lapsed
    /\ sessions' = sessions \ {current[x].session}
    /\ Restore(x, current[x].session)
    /\ UNCHANGED <<issued, lapsed, living, grants>> /\ UNCHANGED registryVars

\* active_sessions removes the lapsed sessions it comes across.
ActiveSessions(id) == {s \in sessions : issued[s] = id /\ s \notin lapsed}
DropLapsedOf(id) ==
    /\ {s \in sessions \cap lapsed : issued[s] = id} # {}
    /\ sessions' = {s \in sessions : issued[s] = id => s \in ActiveSessions(id)}
    /\ UNCHANGED <<issued, lapsed, living, grants>> /\ UNCHANGED contextVars /\ UNCHANGED registryVars

\* set_context: a middleware makes any session current with any identity, closed and
\* lapsed sessions too, and the same one again; without one of them nothing changes.
SetContext(x, o) ==
    /\ x \in living
    /\ Len(stack[x]) < MaxFrames
    /\ Push(x, o.session, o.identity)
    /\ UNCHANGED <<sessions, issued, lapsed, living, grants>> /\ UNCHANGED registryVars

\* asyncio.create_task: the new task starts with a copy of the context.
Spawn(x, y) ==
    /\ x \in living /\ y \notin living
    /\ living' = living \cup {y}
    /\ stack' = [stack EXCEPT ![y] = stack[x]]
    /\ current' = [current EXCEPT ![y] = current[x]]
    /\ order' = [order EXCEPT ![y] = order[x]]
    /\ UNCHANGED <<sessions, issued, lapsed, grants>> /\ UNCHANGED registryVars

\* IdentityManager.shutdown.
ShutdownIdentity ==
    /\ sessions # {}
    /\ sessions' = {}
    /\ UNCHANGED <<issued, lapsed, living, grants>> /\ UNCHANGED contextVars /\ UNCHANGED registryVars

-----------------------------------------------------------------------------
\* AuthorizationManager.
EffectivePermissions(i) == UNION {RolePermissions[r] : r \in i.roles} \cup grants[i.id]
HasPermission(i, p) == i.active /\ p \in EffectivePermissions(i)

Grant(i, p) ==
    /\ p \notin grants[i.id]
    /\ grants' = [grants EXCEPT ![i.id] = @ \cup {p}]
    /\ UNCHANGED <<sessions, issued, lapsed, living>> /\ UNCHANGED contextVars /\ UNCHANGED registryVars

\* What the roles of an identity permit cannot be revoked.
Revoke(i, p) ==
    /\ p \in grants[i.id]
    /\ grants' = [grants EXCEPT ![i.id] = @ \ {p}]
    /\ UNCHANGED <<sessions, issued, lapsed, living>> /\ UNCHANGED contextVars /\ UNCHANGED registryVars

IdentityNext ==
    \/ \E i \in Identities : RegisterIdentity(i) \/ ReplaceIdentity(i)
    \/ \E id \in IdentityIds : RemoveIdentity(id) \/ DropLapsedOf(id)
    \/ ClearIdentities \/ ShutdownIdentity
    \/ \E x \in Contexts, s \in Sessions :
          \/ Logout(x, s)
          \/ \E i \in Identities : Authenticate(x, i, s)
    \/ \E s \in Sessions : Lapse(s)
    \/ \E x \in Contexts :
          \/ DropLapsed(x) \/ \E y \in Contexts : Spawn(x, y)
          \/ \E o \in Overrides : SetContext(x, o)
    \/ \E i \in Identities, p \in Permissions : Grant(i, p) \/ Revoke(i, p)

IdentitySpec == IdentityInit /\ [][IdentityNext]_identityVars

-----------------------------------------------------------------------------
(***************************************************************************)
(* What must hold.                                                         *)
(***************************************************************************)
IdentityTypeOK ==
    /\ by_id \in [IdentityIds -> Identities \cup {None}]
    /\ by_username \in [Usernames -> Identities \cup {None}]
    /\ sessions \subseteq {s \in Sessions : issued[s] # None}
    /\ living \subseteq Contexts /\ order \in [Contexts -> {"nested", "holed", "restored"}]
    /\ grants \in [IdentityIds -> SUBSET Permissions]

\* Whatever is registered, replaced, renamed and removed, both look-ups know the
\* same identities: an id leads to a username that leads back, and no former
\* username leads anywhere (registry.py:17-49).
IdentitiesAgree ==
    /\ \A id \in IdentityIds : by_id[id] # None =>
          by_id[id].id = id /\ by_username[by_id[id].username] = by_id[id]
    /\ \A u \in Usernames : by_username[u] # None =>
          by_username[u].username = u /\ by_id[by_username[u].id] = by_username[u]

\* In every context, current is what the latest login or set_context set that has not
\* been closed in that context, session and identity together, and nobody when all are
\* closed: in tasks that inherited frames, whatever sessions middlewares set and set
\* again, when an outer frame is closed first, up to the moment an inner one is closed
\* after it. What happens elsewhere takes nothing away: a session that was closed in
\* another context or by shutdown stays current here (authentication.py:122-173).
CurrentIsLatestSet ==
    \A x \in Contexts :
        order[x] # "restored" =>
            current[x] = IF stack[x] = << >> THEN Nobody ELSE Last(stack[x]).set

=============================================================================
