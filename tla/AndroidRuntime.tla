---------------------------- MODULE AndroidRuntime ----------------------------
(***************************************************************************)
(* The Android runtime (core/android): its registry, which bridges each    *)
(* capability into the registry of tools through an adapter, and the       *)
(* manager that registers the capabilities when it is started.  An adapter *)
(* is represented by the capability it adapts.                             *)
(***************************************************************************)
EXTENDS ToolRuntime

CONSTANTS
    AndroidCapabilities, \* capability objects; aliases carry the same id
    Packs                \* the capabilities the manager is built with, in order

ASSUME AndroidAssumption ==
    /\ AndroidCapabilities \cap Tools = {} /\ None \notin AndroidCapabilities
    /\ \A a \in AndroidCapabilities : a.id \in ToolIds
    /\ Packs \in Seq(AndroidCapabilities)

VARIABLES
    android,   \* InMemoryAndroidRegistry, by id
    started,   \* AndroidRuntimeManager._started
    status,    \* AndroidHealthTracker._status
    loading    \* a running start(): None, or what it has yet to register

androidVars == <<android, started, status, loading>>

AndroidInit ==
    /\ android = [i \in ToolIds |-> None]
    /\ started = FALSE
    /\ status = "STOPPED"
    /\ loading = [c \in Calls |-> None]

\* Mutant: an id that is taken is registered again.
Registrable_AnyId(a) == TRUE

Registrable(a) == android[a.id] = None

\* register: the entry is made first and stays when the registry of tools refuses
\* the adapter. Nothing is awaited in between.
AndroidRegistered(a) ==
    /\ android' = [android EXCEPT ![a.id] = a]
    /\ tool' = IF tool[a.id] = None THEN [tool EXCEPT ![a.id] = a] ELSE tool

AndroidRegister(a) ==
    /\ Registrable(a)
    /\ ToolChange
    /\ AndroidRegistered(a)
    /\ UNCHANGED <<started, status, loading>>

\* unregister removes the tool with the id, whoever registered it.
AndroidUnregister(i) ==
    /\ android[i] # None
    /\ ToolChange
    /\ android' = [android EXCEPT ![i] = None]
    /\ tool' = [tool EXCEPT ![i] = None]
    /\ UNCHANGED <<started, status, loading>>

-----------------------------------------------------------------------------
\* AndroidHealthTracker.health_check looks for STOPPED only.
AndroidHealth == IF status = "STOPPED" THEN "STOPPED" ELSE "RUNNING"

\* start: the flag is tested here and set after the last registration.
StartAndroid(c) ==
    /\ ~started /\ loading[c] = None
    /\ status' = "INITIALIZING"
    /\ loading' = [loading EXCEPT ![c] = [announced |-> FALSE, left |-> Packs]]
    /\ UNCHANGED <<android, started, tool, toolChanges>>

\* The publish of update_status ends or raises; a start that fails stays INITIALIZING.
StartAnnounced(c) ==
    /\ loading[c] # None /\ ~loading[c].announced
    /\ \/ loading' = [loading EXCEPT ![c].announced = TRUE]
       \/ loading' = [loading EXCEPT ![c] = None]
    /\ UNCHANGED <<android, started, status, tool, toolChanges>>

\* Every error of a registration is logged and the loop goes on.
StartNext(c) ==
    /\ loading[c] # None /\ loading[c].announced /\ loading[c].left # << >>
    /\ LET a == Head(loading[c].left) IN
       IF Registrable(a) THEN AndroidRegistered(a) ELSE UNCHANGED <<android, tool>>
    /\ loading' = [loading EXCEPT ![c].left = Tail(@)]
    /\ UNCHANGED <<started, status, toolChanges>>

\* Mutant: the health tracker is not told that the start has ended.
StartEnds_Silently(c) ==
    /\ loading[c] # None /\ loading[c].announced /\ loading[c].left = << >>
    /\ started' = TRUE
    /\ loading' = [loading EXCEPT ![c] = None]
    /\ UNCHANGED <<android, status, tool, toolChanges>>

StartEnds(c) ==
    /\ loading[c] # None /\ loading[c].announced /\ loading[c].left = << >>
    /\ started' = TRUE
    /\ status' = "RUNNING"
    /\ loading' = [loading EXCEPT ![c] = None]
    /\ UNCHANGED <<android, tool, toolChanges>>

\* shutdown returns at once while a start is under way, and unregisters nothing.
ShutdownAndroid ==
    /\ started
    /\ started' = FALSE
    /\ status' = "STOPPED"
    /\ UNCHANGED <<android, loading, tool, toolChanges>>

\* Executions read the registry of tools and change nothing of it, so what changes
\* it is followed by itself here, and beside the executions in ToolRuntime.
AndroidNext ==
    /\ \/ /\ \E t \in Tools : ToolRegister(t)
          /\ ToolChange /\ UNCHANGED androidVars
       \/ /\ \E i \in ToolIds : ToolUnregister(i)
          /\ ToolChange /\ UNCHANGED androidVars
       \/ \E a \in AndroidCapabilities : AndroidRegister(a)
       \/ \E i \in ToolIds : AndroidUnregister(i)
       \/ \E c \in Calls : StartAndroid(c) \/ StartAnnounced(c) \/ StartNext(c) \/ StartEnds(c)
       \/ ShutdownAndroid
    /\ UNCHANGED <<busVars, requestVars, dispatched, ran>>

AndroidSpec ==
    /\ BusInit /\ RequestInit /\ ToolInit /\ AndroidInit
    /\ [][AndroidNext]_<<busVars, requestVars, toolVars, androidVars>>

-----------------------------------------------------------------------------
(***************************************************************************)
(* What must hold.                                                         *)
(***************************************************************************)
AndroidTypeOK ==
    /\ android \in [ToolIds -> AndroidCapabilities \cup {None}]
    /\ tool \in [ToolIds -> Tools \cup AndroidCapabilities \cup {None}]
    /\ AndroidHealth \in {"STOPPED", "RUNNING"}
    /\ started <=> status = "RUNNING"

\* An adapter is a tool only while its capability is registered with the Android
\* runtime: whatever is registered twice under one id, refused, removed on either
\* side or loaded by overlapping starts, no command reaches a capability the
\* runtime does not know (registry.py:22-58).
NoOrphanAdapters ==
    \A i \in ToolIds : tool[i] \in AndroidCapabilities => android[i] = tool[i]

=============================================================================
