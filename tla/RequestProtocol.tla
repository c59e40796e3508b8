--------------------------- MODULE RequestProtocol ---------------------------
(***************************************************************************)
(* What BrainManager.process_request and RuntimeManager.execute share:     *)
(* they announce a request, work on it, and announce one verdict.  An      *)
(* exception of the work, and one of the publish that announces success,   *)
(* end in _fail; one raised by the publish of _fail escapes.               *)
(***************************************************************************)
EXTENDS EventBus

ASSUME RequestAssumption == None \notin {"success", "failed", "raised"}

VARIABLES
    requestPc,    \* what a call does
    request,      \* the request of a call
    reply,        \* "success", "failed", or "raised" when an exception escaped
    announced     \* history: the verdicts of a call that reached the dispatcher

requestVars == <<requestPc, request, reply, announced>>

RequestInit ==
    /\ requestPc = [c \in Calls |-> "idle"]
    /\ request = [c \in Calls |-> None]
    /\ reply = [c \in Calls |-> None]
    /\ announced = [c \in Calls |-> {}]

Goes(c, label) == requestPc' = [requestPc EXCEPT ![c] = label]
At(c, label) == requestPc[c] = label

\* _fail: publish the failure, then answer with it.
Fail(c) ==
    /\ Goes(c, "failing")
    /\ Publish(c, "Failed")
    /\ UNCHANGED <<request, reply>>

FailWith(c) == Fail(c) /\ UNCHANGED announced

CompleteWith(c) ==
    /\ Goes(c, "completing")
    /\ Publish(c, "Completed")
    /\ UNCHANGED <<request, reply, announced>>

Answer(c, r, verdicts) ==
    /\ Goes(c, "over")
    /\ reply' = [reply EXCEPT ![c] = r]
    /\ announced' = [announced EXCEPT ![c] = @ \cup verdicts]
    /\ publish' = [publish EXCEPT ![c] = None]
    /\ UNCHANGED request

Verdict(c) == IF publish[c].passed THEN {publish[c].event} ELSE {}

Completed(c) == At(c, "completing") /\ Returned(c) /\ Answer(c, "success", Verdict(c))

\* The work is done and its result is lost: the caller is told it failed, even if
\* the subscribers have heard of its success.
CompletedRaised(c) ==
    /\ At(c, "completing") /\ Raised(c)
    /\ announced' = [announced EXCEPT ![c] = @ \cup Verdict(c)]
    /\ Fail(c)

Failed(c) == At(c, "failing") /\ Returned(c) /\ Answer(c, "failed", Verdict(c))
FailedRaised(c) == At(c, "failing") /\ Raised(c) /\ Answer(c, "raised", Verdict(c))

VerdictNext ==
    \E c \in Calls :
        /\ Completed(c) \/ CompletedRaised(c) \/ Failed(c) \/ FailedRaised(c)
        /\ UNCHANGED <<subscribed, heard, listened>>

-----------------------------------------------------------------------------
(***************************************************************************)
(* What must hold.                                                         *)
(***************************************************************************)
RequestTypeOK ==
    /\ requestPc \in [Calls -> {"idle", "starting", "waiting", "completing", "failing", "over"}]
    /\ reply \in [Calls -> {None, "success", "failed", "raised"}]
    /\ \A c \in Calls : reply[c] # None <=> At(c, "over")
    /\ subscribed \subseteq (EventTypes \cup {Wildcard}) \X Handlers
    /\ \A t \in heard : t[1] \in Handlers /\ t[2] \in Calls

\* A success was announced, and then taken back because a middleware raised after it
\* had passed the announcement on.
Recanted(c) == "Completed" \in announced[c] /\ reply[c] # "success"

\* Subscribers and the caller are told the same: nobody hears of a failure of a request
\* that is answered with success, and only a recanted success is heard of beside its
\* failure or by the caller of a failed request. A verdict that passed the middlewares
\* is heard by everyone who listens, however many of the handlers fail, so a listener
\* hears both verdicts of a recanted one (dispatcher.py:39-76, bus.py:38-48,
\* brain/manager.py:83-106, runtime/manager.py:83-158).
OneVerdict ==
    \A c \in Calls :
        LET told(h) == {e \in Verdicts : <<h, c, e>> \in heard} IN
        /\ reply[c] = "success" => \A h \in Handlers : "Failed" \notin told(h)
        /\ ~Recanted(c) =>
              /\ \A h \in Handlers : Cardinality(told(h)) <= 1
              /\ reply[c] \in {"failed", "raised"} => \A h \in Handlers : "Completed" \notin told(h)
        /\ \A h \in listened : announced[c] \subseteq told(h)

=============================================================================
