----------------------------- MODULE ToolRuntime -----------------------------
(***************************************************************************)
(* The tool runtime (core/runtime): the registry of tools, whose methods   *)
(* change it and then await a publish, and RuntimeManager.execute.         *)
(***************************************************************************)
EXTENDS RequestProtocol

CONSTANTS
    ToolIds,
    Tools,          \* capability objects; several may carry one id
    ToolRequests,   \* execution requests: a tool id, or None for an invalid one
    MaxRegistrations \* bound on the changes of the registry

ASSUME ToolAssumption ==
    /\ \A t \in Tools : t.id \in ToolIds
    /\ ToolRequests \subseteq ToolIds \cup {None}

VARIABLES
    tool,        \* InMemoryCapabilityRegistry, by id
    dispatched,  \* the tool execute has looked up for a call
    ran,         \* history: how often the tool of a call was executed
    toolChanges  \* number of changes of the registry

toolVars == <<tool, dispatched, ran, toolChanges>>

ToolInit ==
    /\ tool = [i \in ToolIds |-> None]
    /\ dispatched = [c \in Calls |-> None]
    /\ ran = [c \in Calls |-> 0]
    /\ toolChanges = 0

\* The publish after a change delivers no verdict: it is not followed here.
ToolChange ==
    /\ toolChanges < MaxRegistrations
    /\ toolChanges' = toolChanges + 1

ToolRegister(t) ==
    /\ tool[t.id] = None
    /\ tool' = [tool EXCEPT ![t.id] = t]

ToolUnregister(i) ==
    /\ tool[i] # None
    /\ tool' = [tool EXCEPT ![i] = None]

\* RuntimeManager.execute up to its first publish: the request is invalid or the tool
\* unknown, or what the tool is given are not its arguments, or it is about to start.
Execute(c, r) ==
    /\ At(c, "idle")
    /\ request' = [request EXCEPT ![c] = r]
    /\ \/ /\ Goes(c, "failing") /\ Publish(c, "Failed")
          /\ UNCHANGED dispatched
       \/ /\ r # None /\ tool[r] # None
          /\ Goes(c, "starting") /\ Publish(c, "Started")
          /\ dispatched' = [dispatched EXCEPT ![c] = tool[r]]
    /\ UNCHANGED <<reply, announced, tool, ran, toolChanges>>

\* The object that was looked up runs, registered or not by now.
RunTool(c) ==
    /\ At(c, "starting") /\ Returned(c)
    /\ Goes(c, "waiting")
    /\ ran' = [ran EXCEPT ![c] = @ + 1]
    /\ publish' = [publish EXCEPT ![c] = None]
    /\ UNCHANGED <<request, reply, announced, tool, dispatched, toolChanges>>

StartRefused(c) ==
    /\ At(c, "starting") /\ Raised(c)
    /\ FailWith(c)
    /\ UNCHANGED <<tool, dispatched, ran, toolChanges>>

ToolReturns(c) ==
    /\ At(c, "waiting") /\ dispatched[c] # None
    /\ CompleteWith(c)
    /\ UNCHANGED <<tool, dispatched, ran, toolChanges>>

ToolRaises(c) ==
    /\ At(c, "waiting") /\ dispatched[c] # None
    /\ FailWith(c)
    /\ UNCHANGED <<tool, dispatched, ran, toolChanges>>

ExecutionNext(c) ==
    \/ \E r \in ToolRequests : Execute(c, r)
    \/ RunTool(c) \/ StartRefused(c) \/ ToolReturns(c) \/ ToolRaises(c)

ToolNext ==
    \/ VerdictNext /\ UNCHANGED toolVars
    \/ BusNext /\ UNCHANGED <<requestVars, toolVars>>
    \/ \E c \in Calls : ExecutionNext(c) /\ UNCHANGED <<subscribed, heard, listened>>
    \/ /\ \/ \E t \in Tools : ToolRegister(t)
          \/ \E i \in ToolIds : ToolUnregister(i)
       /\ ToolChange
       /\ UNCHANGED <<busVars, requestVars, dispatched, ran>>

ToolSpec == BusInit /\ RequestInit /\ ToolInit /\ [][ToolNext]_<<busVars, requestVars, toolVars>>

ToolTypeOK ==
    /\ \A i \in ToolIds : tool[i] # None => tool[i].id = i
    /\ \A c \in Calls : dispatched[c] # None => dispatched[c].id = request[c]
    /\ \A c \in Calls : ran[c] <= 1 /\ (reply[c] = "success" /\ dispatched[c] # None => ran[c] = 1)

=============================================================================
