---------------------------- MODULE BrainRequests ----------------------------
(***************************************************************************)
(* The brain (core/brain): BrainManager.process_request with the stages of *)
(* the pipeline, which search the memory and have the planner build and    *)
(* store a plan, while goals and tasks change.                             *)
(***************************************************************************)
EXTENDS RequestProtocol, PlannerGoals

CONSTANTS
    BrainCalls,        \* calls that carry a request to the brain
    BrainRequestsMade  \* [valid, goal]: whether the stages before the memory accept it, and its goal or None

ASSUME BrainAssumption ==
    /\ BrainCalls \subseteq Calls
    /\ \A r \in BrainRequestsMade \ {None} : r.goal \in GoalIds \cup {None}
    /\ None \notin {"search", "remember", "planFailed", "planCreated"}

VARIABLES
    stage,     \* what the pipeline of a call awaits
    kept       \* goals of the plans stored in the memory, by call

brainVars == <<stage, kept>>

BrainInit ==
    /\ stage = [c \in Calls |-> None]
    /\ kept = [c \in Calls |-> None]

\* A request that is none fails at once; another is announced, outside the try.
ProcessRequest(c, r) ==
    /\ At(c, "idle")
    /\ request' = [request EXCEPT ![c] = r]
    /\ IF r = None THEN Goes(c, "failing") /\ Publish(c, "Failed")
       ELSE Goes(c, "starting") /\ Publish(c, "Started")
    /\ UNCHANGED <<reply, announced, stage, kept>>

AnnouncingRaises(c) ==
    /\ At(c, "starting") /\ Raised(c)
    /\ Answer(c, "raised", {})
    /\ UNCHANGED <<stage, kept>>

\* validate, conversation context, identity and analysis run without an await;
\* the memory is searched.
RunPipeline(c) ==
    /\ At(c, "starting") /\ Returned(c)
    /\ IF request[c].valid
       THEN /\ Goes(c, "waiting")
            /\ stage' = [stage EXCEPT ![c] = "search"]
            /\ publish' = [publish EXCEPT ![c] = None]
            /\ UNCHANGED <<request, reply, announced>>
       ELSE FailWith(c) /\ UNCHANGED stage
    /\ UNCHANGED kept

\* The search or the store of the memory raises.
MemoryRaises(c) ==
    /\ stage[c] \in {"search", "remember"}
    /\ FailWith(c)
    /\ stage' = [stage EXCEPT ![c] = None]
    /\ UNCHANGED kept

\* The planner's input needs a goal; the plan is made of the goals and tasks as
\* they are when the search has ended.
BuildPlan(c) ==
    /\ stage[c] = "search"
    /\ LET p == PlanOf(request[c].goal) IN
       IF request[c].goal = None THEN
          /\ FailWith(c)
          /\ stage' = [stage EXCEPT ![c] = None]
       ELSE /\ IF p = None
               THEN stage' = [stage EXCEPT ![c] = "planFailed"] /\ Publish(c, "PlanFailed")
               ELSE stage' = [stage EXCEPT ![c] = "remember"] /\ UNCHANGED publish
            /\ UNCHANGED <<requestPc, request, reply, announced>>
    /\ UNCHANGED kept

PlanRemembered(c) ==
    /\ stage[c] = "remember"
    /\ kept' = [kept EXCEPT ![c] = request[c].goal]
    /\ stage' = [stage EXCEPT ![c] = "planCreated"]
    /\ Publish(c, "PlanCreated")
    /\ UNCHANGED requestVars

\* A plan that could not be made, or whose event a middleware refuses, fails the
\* request; what was stored stays.
PlanningFails(c) ==
    /\ \/ stage[c] = "planFailed" /\ Ended(c)
       \/ stage[c] = "planCreated" /\ Raised(c)
    /\ FailWith(c)
    /\ stage' = [stage EXCEPT ![c] = None]
    /\ UNCHANGED kept

\* The decision has all it needs. The goal may have been cancelled by now.
Decide(c) ==
    /\ stage[c] = "planCreated" /\ Returned(c)
    /\ CompleteWith(c)
    /\ stage' = [stage EXCEPT ![c] = None]
    /\ UNCHANGED kept

BrainStep(c) ==
    \/ \E r \in BrainRequestsMade : ProcessRequest(c, r)
    \/ AnnouncingRaises(c) \/ RunPipeline(c) \/ MemoryRaises(c) \/ BuildPlan(c)
    \/ PlanRemembered(c) \/ PlanningFails(c) \/ Decide(c)

BrainNext ==
    \/ VerdictNext /\ UNCHANGED <<brainVars, plannerVars>>
    \/ BusNext /\ UNCHANGED <<requestVars, brainVars, plannerVars>>
    \/ PlannerNext /\ UNCHANGED <<busVars, requestVars, brainVars>>
    \/ \E c \in BrainCalls : BrainStep(c) /\ UNCHANGED <<subscribed, heard, listened, plannerVars>>

BrainSpec ==
    /\ BusInit /\ RequestInit /\ PlannerInit /\ BrainInit
    /\ [][BrainNext]_<<busVars, requestVars, plannerVars, brainVars>>

-----------------------------------------------------------------------------
(***************************************************************************)
(* What must hold.                                                         *)
(***************************************************************************)
\* Beside the types: a request succeeds only with a plan of its goal in the memory.
BrainTypeOK ==
    /\ stage \in [Calls -> {None, "search", "remember", "planFailed", "planCreated"}]
    /\ \A c \in Calls : stage[c] # None => At(c, "waiting")
    /\ kept \in [Calls -> GoalIds \cup {None}]
    /\ \A c \in Calls : reply[c] = "success" => kept[c] # None /\ kept[c] = request[c].goal

=============================================================================
