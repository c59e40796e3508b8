---------------------------- MODULE RequestProofs ----------------------------
(***************************************************************************)
(* Proofs about RequestProtocol as the tool runtime and the brain fill it  *)
(* in, for every set of calls, subscribers and events, and any timing of   *)
(* deliveries; about AndroidRuntime, which registers its adapters with the *)
(* tool runtime; about the planner, whose plans the brain asks for; and    *)
(* about what a tool has run, and a plan been stored for, at the answer.   *)
(***************************************************************************)
EXTENDS AndroidRuntime, BrainRequests, FiniteSetTheorems, WellFoundedInduction, TLAPS

-----------------------------------------------------------------------------
(***************************************************************************)
(* The invariant.                                                          *)
(***************************************************************************)
\* What is published for a call.
Announced == {"Started", "PlanFailed", "PlanCreated", "Completed", "Failed"}

Deliveries == [event : Announced, left : SUBSET Handlers, raised : BOOLEAN, passed : BOOLEAN]
Labels == {"idle", "starting", "waiting", "completing", "failing", "over"}
Working == {"idle", "starting", "waiting"}

ProtocolOK ==
    /\ requestPc \in [Calls -> Labels]
    /\ publish \in [Calls -> Deliveries \cup {None}]
    /\ reply \in [Calls -> {None, "success", "failed", "raised"}]
    /\ announced \in [Calls -> SUBSET Verdicts]
    /\ \A h \in listened : h \in Handlers /\ <<Wildcard, h>> \in subscribed

WasTold(c, h, e) == <<h, c, e>> \in heard
Unanswered(c) == reply[c] = None /\ announced[c] = {}

\* A verdict on its way: who listens has heard it or will, if the middlewares passed it.
OnItsWay(c, e) ==
    /\ publish[c] \in Deliveries /\ publish[c].event = e
    /\ publish[c].passed => \A h \in listened : h \in publish[c].left \/ WasTold(c, h, e)
    /\ ~ publish[c].passed => publish[c].left = {} /\ \A h \in Handlers : ~ WasTold(c, h, e)

\* Nobody has heard of a failure, of a success nobody but of an announced one, and
\* everyone who listens of what was announced.
NoFailure(c) == \A h \in Handlers : ~ WasTold(c, h, "Failed")
OnlyRecanted(c) == \A h \in Handlers : WasTold(c, h, "Completed") => "Completed" \in announced[c]
AllHeard(c) == \A e \in announced[c], h \in listened : WasTold(c, h, e)

CallInv(c) ==
    /\ requestPc[c] \in Working =>
          /\ Unanswered(c) /\ \A h \in Handlers, e \in Verdicts : ~ WasTold(c, h, e)
          /\ publish[c] # None => publish[c].event \notin Verdicts
    /\ requestPc[c] = "completing" => Unanswered(c) /\ OnItsWay(c, "Completed") /\ NoFailure(c)
    /\ requestPc[c] = "failing" =>
          /\ reply[c] = None /\ OnItsWay(c, "Failed")
          /\ announced[c] \subseteq {"Completed"} /\ OnlyRecanted(c) /\ AllHeard(c)
    /\ requestPc[c] = "over" =>
          /\ publish[c] = None
          /\ reply[c] = "success" => NoFailure(c)
          /\ reply[c] # "success" => OnlyRecanted(c)
          /\ AllHeard(c)

ProtocolInv == ProtocolOK /\ \A c \in Calls : CallInv(c)

-----------------------------------------------------------------------------
(***************************************************************************)
(* Steps of one call.                                                      *)
(***************************************************************************)
\* A step of call c leaves the other calls, and what anybody heard.
OnlyCall(c) ==
    /\ UNCHANGED <<subscribed, heard, listened>>
    /\ requestPc' = [requestPc EXCEPT ![c] = requestPc'[c]]
    /\ publish' = [publish EXCEPT ![c] = publish'[c]]
    /\ reply' = [reply EXCEPT ![c] = reply'[c]]
    /\ announced' = [announced EXCEPT ![c] = announced'[c]]

LEMMA CallKeeps ==
  ASSUME ProtocolInv, NEW c \in Calls, OnlyCall(c), CallInv(c)',
         requestPc'[c] \in Labels, publish'[c] \in Deliveries \cup {None},
         reply'[c] \in {None, "success", "failed", "raised"}, announced'[c] \in SUBSET Verdicts
  PROVE  ProtocolInv'
  <1>1. ProtocolOK'
    BY DEF ProtocolInv, ProtocolOK, OnlyCall
  <1>2. ASSUME NEW d \in Calls, d # c PROVE CallInv(d)'
    <2>1. /\ requestPc'[d] = requestPc[d] /\ publish'[d] = publish[d] /\ reply'[d] = reply[d]
          /\ announced'[d] = announced[d] /\ heard' = heard /\ listened' = listened
      BY <1>2 DEF OnlyCall, ProtocolInv, ProtocolOK
    <2>2. CallInv(d)
      BY DEF ProtocolInv
    <2> QED BY <2>1, <2>2 DEF CallInv, WasTold, Unanswered, OnItsWay, NoFailure, OnlyRecanted, AllHeard
  <1> QED BY <1>1, <1>2 DEF ProtocolInv

\* What a publish makes of the call that awaits it.
LEMMA PublishStarts ==
  ASSUME ProtocolOK, NEW c \in Calls, NEW e \in Announced, Publish(c, e)
  PROVE  /\ publish' = [publish EXCEPT ![c] = publish'[c]]
         /\ publish'[c] \in Deliveries /\ publish'[c].event = e
         /\ publish'[c].passed => publish'[c].left = Matching(e)
         /\ ~ publish'[c].passed => publish'[c].left = {}
  <1>1. PICK passes \in BOOLEAN, raises \in BOOLEAN :
            publish' = [publish EXCEPT ![c] =
                [event |-> e, left |-> IF passes THEN Matching(e) ELSE {}, raised |-> raises,
                 passed |-> passes]]
    BY DEF Publish
  <1> DEFINE p == [event |-> e, left |-> IF passes THEN Matching(e) ELSE {}, raised |-> raises,
                   passed |-> passes]
  <1>2. p \in Deliveries
    BY DEF Deliveries, Matching
  <1>3. publish' = [publish EXCEPT ![c] = p] /\ publish'[c] = p
    BY <1>1 DEF ProtocolOK
  <1>4. /\ p.event = e
        /\ p.passed => p.left = Matching(e)
        /\ ~ p.passed => p.left = {}
    OBVIOUS
  <1> HIDE DEF p
  <1> QED BY <1>2, <1>3, <1>4

\* The call goes on with its work: the verdict is not known.
LEMMA WorkKeeps ==
  ASSUME ProtocolInv, NEW c \in Calls, OnlyCall(c), requestPc[c] \in Working, requestPc'[c] \in Working,
         UNCHANGED <<reply, announced>>, publish'[c] \in Deliveries \cup {None},
         publish'[c] # None => publish'[c].event \notin Verdicts
  PROVE  ProtocolInv'
  <1>1. CallInv(c)'
    BY DEF ProtocolInv, CallInv, OnlyCall, Unanswered, WasTold, Working
  <1> QED BY <1>1, CallKeeps DEF ProtocolInv, ProtocolOK, Working, Labels

\* A verdict nobody has heard is published.
LEMMA VerdictLeaves ==
  ASSUME ProtocolInv, NEW c \in Calls, OnlyCall(c), NEW e \in Verdicts, Publish(c, e),
         \A h \in Handlers : ~ WasTold(c, h, e)
  PROVE  OnItsWay(c, e)' /\ publish'[c] \in Deliveries
  <1>1. ProtocolOK /\ e \in Announced
    BY DEF ProtocolInv, Verdicts, Announced
  <1>2. /\ publish'[c] \in Deliveries /\ publish'[c].event = e
        /\ publish'[c].passed => publish'[c].left = Matching(e)
        /\ ~ publish'[c].passed => publish'[c].left = {}
    BY <1>1, PublishStarts
  <1>3. listened' \subseteq Matching(e)
    BY <1>1 DEF OnlyCall, ProtocolOK, Matching
  <1> QED BY <1>1, <1>2, <1>3 DEF OnItsWay, OnlyCall, WasTold

\* The call announces its success, of which nobody has heard, nor of a failure.
LEMMA SuccessKeeps ==
  ASSUME ProtocolInv, NEW c \in Calls, OnlyCall(c), requestPc'[c] = "completing", Publish(c, "Completed"),
         UNCHANGED <<reply, announced>>, Unanswered(c),
         \A h \in Handlers, v \in Verdicts : ~ WasTold(c, h, v)
  PROVE  ProtocolInv'
  <1>1. OnItsWay(c, "Completed")' /\ publish'[c] \in Deliveries
    BY VerdictLeaves DEF Verdicts
  <1>2. Unanswered(c)' /\ NoFailure(c)'
    BY DEF Unanswered, NoFailure, OnlyCall, WasTold, Verdicts
  <1>3. CallInv(c)'
    BY <1>1, <1>2 DEF CallInv, Working
  <1> QED BY <1>1, <1>3, CallKeeps DEF ProtocolInv, ProtocolOK, Labels

\* The call announces its failure, of which nobody has heard, perhaps after a success.
LEMMA FailureKeeps ==
  ASSUME ProtocolInv, NEW c \in Calls, OnlyCall(c), requestPc'[c] = "failing", Publish(c, "Failed"),
         reply' = reply, reply[c] = None, announced'[c] \subseteq {"Completed"}, NoFailure(c),
         \A h \in Handlers : WasTold(c, h, "Completed") => "Completed" \in announced'[c],
         \A e \in announced'[c], h \in listened : WasTold(c, h, e)
  PROVE  ProtocolInv'
  <1>1. OnItsWay(c, "Failed")' /\ publish'[c] \in Deliveries
    BY VerdictLeaves DEF Verdicts, NoFailure
  <1>2. OnlyRecanted(c)' /\ AllHeard(c)'
    BY DEF OnlyRecanted, AllHeard, OnlyCall, WasTold
  <1>3. CallInv(c)'
    BY <1>1, <1>2 DEF CallInv, Working
  <1> QED BY <1>1, <1>3, CallKeeps DEF ProtocolInv, ProtocolOK, Labels, Verdicts

\* The await of a verdict is over.
LEMMA AnswerKeeps ==
  ASSUME ProtocolInv, NEW c \in Calls, OnlyCall(c), NEW r \in {"success", "failed", "raised"},
         NEW verdicts \in SUBSET Verdicts, Answer(c, r, verdicts),
         r = "success" => NoFailure(c),
         r # "success" => \A h \in Handlers : WasTold(c, h, "Completed") => "Completed" \in announced[c] \cup verdicts,
         \A e \in announced[c] \cup verdicts, h \in listened : WasTold(c, h, e)
  PROVE  ProtocolInv'
  <1>1. /\ requestPc'[c] = "over" /\ reply'[c] = r /\ announced'[c] = announced[c] \cup verdicts
        /\ publish'[c] = None /\ heard' = heard /\ listened' = listened
        /\ announced'[c] \in SUBSET Verdicts
    BY DEF Answer, Goes, ProtocolInv, ProtocolOK, OnlyCall
  <1>2. CallInv(c)'
    BY <1>1 DEF CallInv, WasTold, Working, NoFailure, OnlyRecanted, AllHeard
  <1> QED BY <1>1, <1>2, CallKeeps DEF Labels

-----------------------------------------------------------------------------
(***************************************************************************)
(* Steps the brain and the tool runtime share.                             *)
(***************************************************************************)
restOfBus == <<subscribed, heard, listened>>

\* _fail, from whatever the call was at.
LEMMA FailingKeeps ==
  ASSUME ProtocolInv, NEW c \in Calls, requestPc[c] \in Working,
         Goes(c, "failing"), Publish(c, "Failed"), UNCHANGED <<reply, announced>>, UNCHANGED restOfBus
  PROVE  ProtocolInv'
  <1>1. OnlyCall(c) /\ requestPc'[c] = "failing"
    BY PublishStarts DEF Goes, OnlyCall, restOfBus, ProtocolInv, ProtocolOK, Announced
  <1>2. Unanswered(c) /\ \A h \in Handlers, v \in Verdicts : ~ WasTold(c, h, v)
    BY DEF ProtocolInv, CallInv
  <1> QED BY <1>1, <1>2, FailureKeeps DEF Unanswered, NoFailure, Verdicts

LEMMA CompletingKeeps ==
  ASSUME ProtocolInv, NEW c \in Calls, requestPc[c] \in Working,
         CompleteWith(c), UNCHANGED restOfBus
  PROVE  ProtocolInv'
  <1>1. OnlyCall(c) /\ requestPc'[c] = "completing" /\ Publish(c, "Completed") /\ UNCHANGED <<reply, announced>>
    BY PublishStarts DEF CompleteWith, Goes, OnlyCall, restOfBus, ProtocolInv, ProtocolOK, Announced
  <1>2. Unanswered(c) /\ \A h \in Handlers, v \in Verdicts : ~ WasTold(c, h, v)
    BY DEF ProtocolInv, CallInv
  <1> QED BY <1>1, <1>2, SuccessKeeps

\* The call publishes something else and goes on, or stays.
LEMMA AnnouncingKeeps ==
  ASSUME ProtocolInv, NEW c \in Calls, requestPc[c] \in Working, NEW label \in Working,
         requestPc' = [requestPc EXCEPT ![c] = label],
         NEW e \in Announced \ Verdicts, Publish(c, e), UNCHANGED <<reply, announced>>, UNCHANGED restOfBus
  PROVE  ProtocolInv'
  <1>1. OnlyCall(c) /\ requestPc'[c] = label
    BY PublishStarts DEF OnlyCall, restOfBus, ProtocolInv, ProtocolOK
  <1>2. publish'[c] \in Deliveries /\ publish'[c].event = e
    BY PublishStarts DEF ProtocolInv
  <1> QED BY <1>1, <1>2, WorkKeeps

\* The call goes on without a publish.
LEMMA WorkingKeeps ==
  ASSUME ProtocolInv, NEW c \in Calls, requestPc[c] \in Working,
         Goes(c, "waiting"), publish' = [publish EXCEPT ![c] = None],
         UNCHANGED <<reply, announced>>, UNCHANGED restOfBus
  PROVE  ProtocolInv'
  <1>1. OnlyCall(c) /\ requestPc'[c] = "waiting" /\ publish'[c] = None
    BY DEF Goes, OnlyCall, restOfBus, ProtocolInv, ProtocolOK
  <1> QED BY <1>1, WorkKeeps DEF Working

\* The announcement of the request raises, and nothing more is said.
LEMMA RaisingKeeps ==
  ASSUME ProtocolInv, NEW c \in Calls, requestPc[c] \in Working, Answer(c, "raised", {}), UNCHANGED restOfBus
  PROVE  ProtocolInv'
  <1>1. OnlyCall(c)
    BY DEF Answer, Goes, OnlyCall, restOfBus, ProtocolInv, ProtocolOK
  <1>2. Unanswered(c) /\ \A h \in Handlers, v \in Verdicts : ~ WasTold(c, h, v)
    BY DEF ProtocolInv, CallInv
  <1> QED BY <1>1, <1>2, AnswerKeeps DEF Unanswered, Verdicts, NoFailure

LEMMA VerdictStep == ASSUME ProtocolInv, VerdictNext PROVE ProtocolInv'
  <1>1. PICK c \in Calls : Completed(c) \/ CompletedRaised(c) \/ Failed(c) \/ FailedRaised(c)
    BY DEF VerdictNext
  <1>2. UNCHANGED restOfBus
    BY DEF VerdictNext, restOfBus
  <1>3. ASSUME NEW r, NEW verdicts, Answer(c, r, verdicts) PROVE OnlyCall(c)
    BY <1>2, <1>3 DEF Answer, Goes, OnlyCall, restOfBus, ProtocolInv, ProtocolOK
  <1>4. CASE Completed(c)
    <2>1. Unanswered(c) /\ OnItsWay(c, "Completed") /\ NoFailure(c) /\ publish[c].left = {}
      BY <1>4 DEF Completed, At, Returned, Ended, ProtocolInv, CallInv
    <2>2. Answer(c, "success", Verdict(c)) /\ Verdict(c) = IF publish[c].passed THEN {"Completed"} ELSE {}
      BY <1>4, <2>1 DEF Completed, Verdict, OnItsWay
    <2>3. \A e \in Verdict(c), h \in listened : WasTold(c, h, e)
      BY <2>1, <2>2 DEF OnItsWay
    <2>4. Verdict(c) \in SUBSET Verdicts
      BY <2>2 DEF Verdicts
    <2> QED BY <1>3, <2>1, <2>2, <2>3, <2>4, AnswerKeeps DEF Unanswered
  <1>5. CASE CompletedRaised(c)
    <2>1. Unanswered(c) /\ OnItsWay(c, "Completed") /\ NoFailure(c) /\ publish[c].left = {}
      BY <1>5 DEF CompletedRaised, At, Raised, Ended, ProtocolInv, CallInv
    <2>2. Verdict(c) = IF publish[c].passed THEN {"Completed"} ELSE {}
      BY <2>1 DEF Verdict, OnItsWay
    <2>3. /\ Goes(c, "failing") /\ Publish(c, "Failed") /\ reply' = reply
          /\ announced' = [announced EXCEPT ![c] = @ \cup Verdict(c)]
      BY <1>5 DEF CompletedRaised, Fail
    <2>4. OnlyCall(c) /\ requestPc'[c] = "failing" /\ announced'[c] = Verdict(c)
      BY <1>2, <2>1, <2>3, PublishStarts
         DEF Goes, OnlyCall, restOfBus, ProtocolInv, ProtocolOK, Announced, Unanswered
    <2>5. \A h \in Handlers : WasTold(c, h, "Completed") => "Completed" \in announced'[c]
      BY <2>1, <2>2, <2>4 DEF OnItsWay
    <2>6. \A e \in announced'[c], h \in listened : WasTold(c, h, e)
      BY <2>1, <2>2, <2>4 DEF OnItsWay
    <2> QED BY <2>1, <2>2, <2>3, <2>4, <2>5, <2>6, FailureKeeps DEF Unanswered
  <1>6. CASE Failed(c) \/ FailedRaised(c)
    <2>1. OnItsWay(c, "Failed") /\ OnlyRecanted(c) /\ AllHeard(c) /\ publish[c].left = {}
      BY <1>6 DEF Failed, FailedRaised, At, Returned, Raised, Ended, ProtocolInv, CallInv
    <2>2. PICK r \in {"failed", "raised"} : Answer(c, r, Verdict(c))
      BY <1>6 DEF Failed, FailedRaised
    <2>3. Verdict(c) = IF publish[c].passed THEN {"Failed"} ELSE {}
      BY <2>1 DEF Verdict, OnItsWay
    <2>4. \A e \in announced[c] \cup Verdict(c), h \in listened : WasTold(c, h, e)
      BY <2>1, <2>3 DEF OnItsWay, AllHeard
    <2>5. Verdict(c) \in SUBSET Verdicts
      BY <2>3 DEF Verdicts
    <2> QED BY <1>3, <2>1, <2>2, <2>4, <2>5, AnswerKeeps DEF OnlyRecanted
  <1> QED BY <1>1, <1>4, <1>5, <1>6

-----------------------------------------------------------------------------
(***************************************************************************)
(* Steps of the bus.                                                       *)
(***************************************************************************)
LEMMA HandlingKeeps ==
  ASSUME ProtocolInv, NEW c \in Calls, NEW h \in Handlers,
         publish[c] # None, h \in publish[c].left,
         publish' = [publish EXCEPT ![c] = publish'[c]], publish'[c] \in Deliveries,
         publish'[c].event = publish[c].event, publish'[c].passed = publish[c].passed,
         publish'[c].raised = publish[c].raised, publish'[c].left = publish[c].left \ {h},
         heard' = Hears(h, c), UNCHANGED <<subscribed, listened, requestPc, reply, announced>>
  PROVE  ProtocolInv'
  <1>1. ProtocolOK'
    BY DEF ProtocolInv, ProtocolOK
  <1>2. ASSUME NEW d \in Calls, d # c PROVE CallInv(d)'
    <2>1. publish'[d] = publish[d] /\ \A g \in Handlers, e \in Verdicts : WasTold(d, g, e)' <=> WasTold(d, g, e)
      BY <1>2 DEF ProtocolInv, ProtocolOK, Hears, WasTold
    <2>2. CallInv(d) /\ listened \subseteq Handlers /\ announced[d] \subseteq Verdicts
      BY DEF ProtocolInv, ProtocolOK
    <2> QED BY <2>1, <2>2 DEF CallInv, Unanswered, OnItsWay, Verdicts, NoFailure, OnlyRecanted, AllHeard
  <1>3. CallInv(c)'
    <2>1. CallInv(c) /\ requestPc[c] \in Labels /\ listened \subseteq Handlers
      BY DEF ProtocolInv, ProtocolOK
    <2>2. CASE publish[c].event \notin Verdicts
      <3>1. heard' = heard
        BY <2>2 DEF Hears
      <3>2. requestPc[c] \in Working
        BY <2>1, <2>2 DEF CallInv, OnItsWay, Labels, Working, Verdicts
      <3> QED BY <2>1, <2>2, <3>1, <3>2 DEF CallInv, Unanswered, WasTold, Working
    <2>3. CASE publish[c].event \in Verdicts
      <3>1. \A g \in Handlers, e \in Verdicts :
                WasTold(c, g, e)' <=> (WasTold(c, g, e) \/ (g = h /\ e = publish[c].event))
        BY <2>3 DEF Hears, WasTold
      <3>2. requestPc[c] \in {"completing", "failing"}
        BY <2>1, <2>3 DEF CallInv, Labels, Working
      <3>3. ASSUME NEW e \in Verdicts, OnItsWay(c, e)
            PROVE  OnItsWay(c, e)' /\ publish[c].event = e
        BY <2>1, <3>1, <3>3 DEF OnItsWay
      <3>4. CASE requestPc[c] = "completing"
        <4>1. NoFailure(c)'
          BY <2>1, <3>1, <3>3, <3>4 DEF CallInv, NoFailure, Verdicts
        <4> QED BY <2>1, <3>3, <3>4, <4>1 DEF CallInv, Unanswered, Working, Verdicts
      <3>5. CASE requestPc[c] = "failing"
        <4>1. announced[c] \subseteq {"Completed"} /\ OnlyRecanted(c) /\ AllHeard(c) /\ reply[c] = None
          BY <2>1, <3>5 DEF CallInv
        <4>2. OnItsWay(c, "Failed")' /\ publish[c].event = "Failed"
          BY <2>1, <3>3, <3>5 DEF CallInv, Verdicts
        <4>3. OnlyRecanted(c)' /\ AllHeard(c)'
          BY <2>1, <3>1, <4>1, <4>2 DEF OnlyRecanted, AllHeard, Verdicts
        <4> QED BY <3>5, <4>1, <4>2, <4>3 DEF CallInv, Working
      <3> QED BY <3>2, <3>4, <3>5
    <2> QED BY <2>2, <2>3
  <1> QED BY <1>1, <1>2, <1>3 DEF ProtocolInv

LEMMA SubscriptionKeeps ==
  ASSUME ProtocolInv, UNCHANGED <<publish, heard, requestPc, reply, announced>>,
         listened' \subseteq listened, \A h \in listened' : <<Wildcard, h>> \in subscribed'
  PROVE  ProtocolInv'
  <1>1. ProtocolOK'
    BY DEF ProtocolInv, ProtocolOK
  <1>2. ASSUME NEW d \in Calls PROVE CallInv(d)'
    BY DEF ProtocolInv, CallInv, Unanswered, OnItsWay, WasTold, NoFailure, OnlyRecanted, AllHeard
  <1> QED BY <1>1, <1>2 DEF ProtocolInv

LEMMA BusStep == ASSUME ProtocolInv, BusNext, UNCHANGED requestVars PROVE ProtocolInv'
  <1>0. UNCHANGED <<requestPc, reply, announced>>
    BY DEF requestVars
  <1>1. ASSUME NEW c \in Calls, NEW h \in Handlers, Handle(c, h) PROVE ProtocolInv'
    <2>1. publish[c] # None /\ h \in publish[c].left /\ publish[c] \in Deliveries
      BY <1>1 DEF Handle, ProtocolInv, ProtocolOK
    <2>2. publish'[c] = [publish[c] EXCEPT !.left = @ \ {h}] /\ publish' = [publish EXCEPT ![c] = publish'[c]]
      BY <1>1 DEF Handle, ProtocolInv, ProtocolOK
    <2>3. /\ publish'[c] \in Deliveries
          /\ publish'[c].event = publish[c].event /\ publish'[c].passed = publish[c].passed
          /\ publish'[c].raised = publish[c].raised /\ publish'[c].left = publish[c].left \ {h}
      BY <2>1, <2>2 DEF Deliveries
    <2> QED BY <1>0, <1>1, <2>1, <2>2, <2>3, HandlingKeeps DEF Handle
  <1>2. ASSUME NEW c \in Calls, NEW h \in Handlers, HandlerRaises(c, h) PROVE ProtocolInv'
    BY <1>1, <1>2 DEF HandlerRaises
  <1>3. ASSUME NEW h \in Handlers, NEW e \in EventTypes \cup {Wildcard}, Subscribe(e, h) \/ Unsubscribe(e, h)
        PROVE  ProtocolInv'
    BY <1>0, <1>3, SubscriptionKeeps DEF Subscribe, Unsubscribe, ProtocolInv, ProtocolOK
  <1> QED BY <1>1, <1>2, <1>3 DEF BusNext

-----------------------------------------------------------------------------
(***************************************************************************)
(* The tool runtime and the brain.                                         *)
(***************************************************************************)
LEMMA ProtocolInit == BusInit /\ RequestInit => ProtocolInv
  <1> SUFFICES ASSUME BusInit, RequestInit PROVE ProtocolInv
    OBVIOUS
  <1>1. ProtocolOK
    BY DEF BusInit, RequestInit, ProtocolOK, Labels
  <1>2. ASSUME NEW c \in Calls PROVE CallInv(c)
    BY DEF BusInit, RequestInit, CallInv, Unanswered, WasTold, Working
  <1> QED BY <1>1, <1>2 DEF ProtocolInv

\* Nothing the protocol knows has changed.
LEMMA ProtocolRests == ASSUME ProtocolInv, UNCHANGED <<busVars, requestVars>> PROVE ProtocolInv'
  BY DEF busVars, requestVars, ProtocolInv, ProtocolOK, CallInv, Unanswered, OnItsWay, WasTold, NoFailure, OnlyRecanted, AllHeard

LEMMA ToolStep == ProtocolInv /\ [ToolNext]_<<busVars, requestVars, toolVars>> => ProtocolInv'
  <1> SUFFICES ASSUME ProtocolInv, [ToolNext]_<<busVars, requestVars, toolVars>> PROVE ProtocolInv'
    OBVIOUS
  <1> USE DEF Working
  <1>1. ASSUME NEW c \in Calls, NEW r \in ToolRequests, Execute(c, r), UNCHANGED restOfBus PROVE ProtocolInv'
    <2>1. requestPc[c] = "idle" /\ UNCHANGED <<reply, announced>>
      BY <1>1 DEF Execute, At
    <2>2. CASE Goes(c, "failing") /\ Publish(c, "Failed")
      BY <1>1, <2>1, <2>2, FailingKeeps
    <2>3. CASE Goes(c, "starting") /\ Publish(c, "Started")
      BY <1>1, <2>1, <2>3, AnnouncingKeeps DEF Goes, Announced, Verdicts
    <2> QED BY <1>1, <2>2, <2>3 DEF Execute
  <1>2. ASSUME NEW c \in Calls, RunTool(c), UNCHANGED restOfBus PROVE ProtocolInv'
    BY <1>2, WorkingKeeps DEF RunTool, At
  <1>3. ASSUME NEW c \in Calls, StartRefused(c) \/ ToolRaises(c), UNCHANGED restOfBus PROVE ProtocolInv'
    BY <1>3, FailingKeeps DEF StartRefused, ToolRaises, At, Fail, FailWith
  <1>4. ASSUME NEW c \in Calls, ToolReturns(c), UNCHANGED restOfBus PROVE ProtocolInv'
    BY <1>4, CompletingKeeps DEF ToolReturns, At
  <1>5. CASE VerdictNext
    BY <1>5, VerdictStep
  <1>6. CASE BusNext /\ UNCHANGED requestVars
    BY <1>6, BusStep
  <1>7. CASE UNCHANGED <<busVars, requestVars>>
    BY <1>7, ProtocolRests
  <1> QED
    BY <1>1, <1>2, <1>3, <1>4, <1>5, <1>6, <1>7 DEF ToolNext, ExecutionNext, restOfBus

\* The pipeline of the brain works for a call that has no verdict yet.
PipelineStages == {"search", "remember", "planFailed", "planCreated"}

BrainInv ==
    /\ ProtocolInv
    /\ stage \in [Calls -> PipelineStages \cup {None}]
    /\ \A c \in Calls : stage[c] \in PipelineStages => requestPc[c] = "waiting"

LEMMA BrainStepKeeps ==
  ASSUME BrainInv, NEW c \in BrainCalls, BrainStep(c), UNCHANGED restOfBus
  PROVE  /\ ProtocolInv' /\ stage' \in [Calls -> PipelineStages \cup {None}]
         /\ stage'[c] \in PipelineStages => requestPc'[c] = "waiting"
         /\ \A d \in Calls \ {c} : stage'[d] = stage[d] /\ requestPc'[d] = requestPc[d]
  <1> USE DEF Working
  <1>w. /\ ProtocolInv /\ stage \in [Calls -> PipelineStages \cup {None}] /\ c \in Calls
        /\ stage[c] \in PipelineStages => requestPc[c] = "waiting"
        /\ None \notin PipelineStages /\ requestPc \in [Calls -> Labels]
    BY BrainAssumption DEF BrainInv, PipelineStages, ProtocolInv, ProtocolOK
  <1> DEFINE Clears == /\ \A d \in Calls \ {c} : stage'[d] = stage[d] /\ requestPc'[d] = requestPc[d]
                       /\ stage' \in [Calls -> PipelineStages \cup {None}]
                       /\ stage'[c] \in PipelineStages => requestPc'[c] = "waiting"
  <1>c. ASSUME NEW label, Goes(c, label), stage' = [stage EXCEPT ![c] = None] PROVE Clears
    BY <1>w, <1>c DEF Goes
  <1>1. ASSUME NEW r \in BrainRequestsMade, ProcessRequest(c, r) PROVE ProtocolInv' /\ Clears
    <2>1. requestPc[c] = "idle" /\ UNCHANGED <<reply, announced, stage>>
      BY <1>1 DEF ProcessRequest, At
    <2>2. CASE Goes(c, "failing") /\ Publish(c, "Failed")
      BY <1>w, <2>1, <2>2, FailingKeeps DEF Goes
    <2>3. CASE Goes(c, "starting") /\ Publish(c, "Started")
      BY <1>w, <2>1, <2>3, AnnouncingKeeps DEF Goes, Announced, Verdicts
    <2> QED BY <1>1, <2>2, <2>3 DEF ProcessRequest
  <1>2. CASE AnnouncingRaises(c)
    <2>1. requestPc[c] = "starting" /\ Answer(c, "raised", {}) /\ UNCHANGED stage
      BY <1>2 DEF AnnouncingRaises, At
    <2>2. ProtocolInv'
      BY <1>w, <2>1, RaisingKeeps
    <2>3. Clears
      BY <1>w, <2>1 DEF Answer, Goes
    <2> QED BY <2>2, <2>3
  <1>3. CASE RunPipeline(c)
    <2>1. requestPc[c] = "starting"
      BY <1>3 DEF RunPipeline, At
    <2>2. CASE FailWith(c) /\ UNCHANGED stage
      BY <1>w, <2>1, <2>2, FailingKeeps DEF Fail, FailWith, Goes
    <2>3. CASE /\ Goes(c, "waiting") /\ stage' = [stage EXCEPT ![c] = "search"]
               /\ publish' = [publish EXCEPT ![c] = None] /\ UNCHANGED <<reply, announced>>
      BY <1>w, <2>1, <2>3, WorkingKeeps DEF Goes, PipelineStages
    <2> QED BY <1>3, <2>2, <2>3 DEF RunPipeline
  <1>4. CASE stage[c] \in PipelineStages /\ FailWith(c) /\ stage' = [stage EXCEPT ![c] = None]
    <2>1. requestPc[c] = "waiting"
      BY <1>w, <1>4
    <2> QED BY <1>w, <1>c, <1>4, <2>1, FailingKeeps DEF Fail, FailWith
  <1>5. ASSUME stage[c] \in PipelineStages, NEW e \in {"PlanFailed", "PlanCreated"}, NEW next \in PipelineStages,
               Publish(c, e), UNCHANGED requestVars, stage' = [stage EXCEPT ![c] = next]
        PROVE  ProtocolInv' /\ Clears
    <2>1. requestPc[c] = "waiting" /\ requestPc' = [requestPc EXCEPT ![c] = "waiting"]
      BY <1>w, <1>5 DEF requestVars
    <2>2. e \in Announced \ Verdicts /\ UNCHANGED <<reply, announced>>
      BY <1>5 DEF Announced, Verdicts, requestVars
    <2> QED BY <1>w, <1>5, <2>1, <2>2, AnnouncingKeeps
  <1>6. CASE BuildPlan(c)
    <2>1. stage[c] \in PipelineStages /\ requestPc[c] = "waiting"
      BY <1>w, <1>6 DEF BuildPlan, PipelineStages
    <2>2. CASE stage' = [stage EXCEPT ![c] = "remember"] /\ UNCHANGED publish /\ UNCHANGED requestVars
      <3>1. ProtocolInv'
        BY <1>w, <2>2, ProtocolRests DEF busVars, restOfBus
      <3> QED BY <1>w, <2>1, <2>2, <3>1 DEF requestVars, PipelineStages
    <2>3. CASE stage' = [stage EXCEPT ![c] = "planFailed"] /\ Publish(c, "PlanFailed") /\ UNCHANGED requestVars
      BY <1>5, <2>1, <2>3 DEF PipelineStages
    <2>4. CASE FailWith(c) /\ stage' = [stage EXCEPT ![c] = None]
      BY <1>4, <2>1, <2>4
    <2> QED BY <1>6, <2>2, <2>3, <2>4 DEF BuildPlan, requestVars
  <1>7. CASE PlanRemembered(c)
    BY <1>5, <1>7 DEF PlanRemembered, PipelineStages
  <1>8. CASE MemoryRaises(c) \/ PlanningFails(c)
    BY <1>4, <1>8 DEF MemoryRaises, PlanningFails, PipelineStages
  <1>9. CASE Decide(c)
    <2>1. requestPc[c] = "waiting" /\ CompleteWith(c) /\ stage' = [stage EXCEPT ![c] = None]
      BY <1>w, <1>9 DEF Decide, PipelineStages
    <2>2. ProtocolInv'
      BY <1>w, <2>1, CompletingKeeps
    <2>3. Clears
      BY <1>c, <2>1 DEF CompleteWith
    <2> QED BY <2>2, <2>3
  <1> QED BY <1>1, <1>2, <1>3, <1>6, <1>7, <1>8, <1>9 DEF BrainStep

LEMMA BrainInvStep ==
    BrainInv /\ [BrainNext]_<<busVars, requestVars, plannerVars, brainVars>> => BrainInv'
  <1> SUFFICES ASSUME BrainInv, [BrainNext]_<<busVars, requestVars, plannerVars, brainVars>> PROVE BrainInv'
    OBVIOUS
  <1>0. ProtocolInv /\ stage \in [Calls -> PipelineStages \cup {None}] /\ requestPc \in [Calls -> Labels]
    BY DEF BrainInv, ProtocolInv, ProtocolOK
  <1>1. CASE VerdictNext /\ UNCHANGED stage
    <2>1. \A c \in Calls : requestPc[c] = "waiting" => requestPc'[c] = "waiting"
      BY <1>0, <1>1 DEF VerdictNext, Completed, CompletedRaised, Failed, FailedRaised, At, Fail, FailWith, Answer, Goes
    <2> QED BY <1>0, <1>1, <2>1, VerdictStep DEF BrainInv
  <1>2. CASE BusNext /\ UNCHANGED <<requestVars, stage>>
    BY <1>0, <1>2, BusStep DEF BrainInv, requestVars
  <1>3. CASE UNCHANGED <<busVars, requestVars, stage>>
    BY <1>0, <1>3, ProtocolRests DEF BrainInv, requestVars
  <1>4. ASSUME NEW c \in BrainCalls, BrainStep(c), UNCHANGED restOfBus PROVE BrainInv'
    BY <1>4, BrainStepKeeps DEF BrainInv
  <1> QED BY <1>1, <1>2, <1>3, <1>4 DEF BrainNext, brainVars, restOfBus

-----------------------------------------------------------------------------
(***************************************************************************)
(* The theorems.                                                           *)
(***************************************************************************)
LEMMA VerdictIsOne == ProtocolInv => OneVerdict
  <1> SUFFICES ASSUME ProtocolInv, NEW c \in Calls
               PROVE  LET told(h) == {e \in Verdicts : <<h, c, e>> \in heard} IN
                      /\ reply[c] = "success" => \A h \in Handlers : "Failed" \notin told(h)
                      /\ ~Recanted(c) =>
                            /\ \A h \in Handlers : Cardinality(told(h)) <= 1
                            /\ reply[c] \in {"failed", "raised"} => \A h \in Handlers : "Completed" \notin told(h)
                      /\ \A h \in listened : announced[c] \subseteq told(h)
    BY DEF OneVerdict
  <1> DEFINE told(h) == {e \in Verdicts : <<h, c, e>> \in heard}
  <1>1. CallInv(c) /\ requestPc[c] \in Labels /\ listened \subseteq Handlers /\ announced[c] \subseteq Verdicts
        /\ reply[c] \in {None, "success", "failed", "raised"}
    BY DEF ProtocolInv, ProtocolOK
  <1>2. ASSUME NEW h \in Handlers, ~ Recanted(c) PROVE ~ (WasTold(c, h, "Completed") /\ WasTold(c, h, "Failed"))
    BY <1>1, <1>2, RequestAssumption DEF CallInv, Recanted, OnlyRecanted, NoFailure, Working, Labels, Verdicts
  <1>3. ASSUME NEW h \in Handlers, ~ Recanted(c) PROVE Cardinality(told(h)) <= 1
    <2>1. told(h) = {} \/ told(h) = {"Completed"} \/ told(h) = {"Failed"}
      BY <1>2, <1>3 DEF WasTold, Verdicts
    <2>2. Cardinality({}) = 0 /\ Cardinality({"Completed"}) = 1 /\ Cardinality({"Failed"}) = 1
      <3>1. Cardinality({}) = 0
        BY FS_EmptySet, Zenon
      <3>2. Cardinality({"Completed"}) = 1 /\ Cardinality({"Failed"}) = 1
        BY FS_Singleton, Zenon
      <3> QED BY <3>1, <3>2
    <2> HIDE DEF told
    <2> QED BY <2>1, <2>2
  <1>4. reply[c] = "success" => \A h \in Handlers : "Failed" \notin told(h)
    BY <1>1, RequestAssumption DEF CallInv, NoFailure, Unanswered, WasTold, Working, Labels
  <1>5. ASSUME ~ Recanted(c), reply[c] \in {"failed", "raised"}, NEW h \in Handlers PROVE "Completed" \notin told(h)
    BY <1>1, <1>5, RequestAssumption DEF CallInv, Recanted, OnlyRecanted, Unanswered, WasTold, Working, Labels
  <1>6. \A h \in listened : announced[c] \subseteq told(h)
    BY <1>1 DEF CallInv, Unanswered, AllHeard, WasTold, Working, Labels
  <1> HIDE DEF told
  <1>7. /\ reply[c] = "success" => \A h \in Handlers : "Failed" \notin told(h)
        /\ ~Recanted(c) =>
              /\ \A h \in Handlers : Cardinality(told(h)) <= 1
              /\ reply[c] \in {"failed", "raised"} => \A h \in Handlers : "Completed" \notin told(h)
        /\ \A h \in listened : announced[c] \subseteq told(h)
    BY <1>3, <1>4, <1>5, <1>6
  <1> QED BY <1>7 DEF told

\* RuntimeManager.execute tells every subscriber at most one verdict on a request, the
\* one the caller gets, however handlers fail, come and go; only a middleware that raises
\* after it has passed the success on makes it tell a failure as well, and then whoever
\* listens hears both (runtime/manager.py:83-158, bus.py:38-48).
THEOREM ToolVerdictsAgree == ToolSpec => []OneVerdict
  BY ProtocolInit, ToolStep, VerdictIsOne, PTL DEF ToolSpec

\* The same holds of BrainManager.process_request, whatever stage of its pipeline fails
\* (brain/manager.py:83-106, bus.py:38-48).
THEOREM BrainVerdictsAgree == BrainSpec => []OneVerdict
  <1>1. BusInit /\ RequestInit /\ BrainInit => BrainInv
    BY ProtocolInit, BrainAssumption DEF BrainInit, BrainInv, PipelineStages
  <1>2. BrainInv => OneVerdict
    BY VerdictIsOne DEF BrainInv
  <1> QED BY <1>1, <1>2, BrainInvStep, PTL DEF BrainSpec

-----------------------------------------------------------------------------
(***************************************************************************)
(* The adapters of the Android runtime.                                    *)
(***************************************************************************)
allVars == <<busVars, requestVars, toolVars, androidVars>>

Loads == [announced : BOOLEAN, left : Seq(AndroidCapabilities)]

RegistriesOK ==
    /\ android \in [ToolIds -> AndroidCapabilities \cup {None}]
    /\ tool \in [ToolIds -> Tools \cup AndroidCapabilities \cup {None}]
    /\ loading \in [Calls -> Loads \cup {None}]

\* An id that the runtime does not know carries no adapter, so the adapter that is
\* registered under it is the first one.
RuntimeInv == RegistriesOK /\ NoOrphanAdapters

LEMMA LoadsAreNotNone == ASSUME NEW l \in Loads \cup {None}, l # None PROVE l \in Loads
  OBVIOUS

-----------------------------------------------------------------------------
\* A registration keeps both registries consistent, whether or not the registry of
\* tools takes the adapter.
LEMMA RegistrationKeepsInv ==
  ASSUME RegistriesOK, NoOrphanAdapters, NEW a \in AndroidCapabilities,
         Registrable(a), AndroidRegistered(a)
  PROVE  /\ android' \in [ToolIds -> AndroidCapabilities \cup {None}]
         /\ tool' \in [ToolIds -> Tools \cup AndroidCapabilities \cup {None}]
         /\ NoOrphanAdapters'
  <1>1. a.id \in ToolIds /\ a # None
    BY AndroidAssumption
  <1>2. tool[a.id] \notin AndroidCapabilities
    BY <1>1, AndroidAssumption DEF RegistriesOK, NoOrphanAdapters, Registrable
  <1>3. /\ android' \in [ToolIds -> AndroidCapabilities \cup {None}]
        /\ tool' \in [ToolIds -> Tools \cup AndroidCapabilities \cup {None}]
    BY <1>1 DEF RegistriesOK, AndroidRegistered
  <1>4. ASSUME NEW i \in ToolIds, tool'[i] \in AndroidCapabilities PROVE android'[i] = tool'[i]
    <2>1. CASE i = a.id
      BY <2>1, <1>1, <1>2, <1>4 DEF RegistriesOK, AndroidRegistered
    <2>2. CASE i # a.id
      BY <2>2, <1>1, <1>4 DEF RegistriesOK, NoOrphanAdapters, AndroidRegistered
    <2> QED BY <2>1, <2>2
  <1> QED BY <1>3, <1>4 DEF NoOrphanAdapters

LEMMA RuntimeInit == BusInit /\ RequestInit /\ ToolInit /\ AndroidInit => RuntimeInv
  BY AndroidAssumption DEF ToolInit, AndroidInit, RuntimeInv, RegistriesOK, NoOrphanAdapters

\* One step per action; those of the tool registry and of the manager leave the
\* other registry alone.
LEMMA RuntimeStep == RuntimeInv /\ [AndroidNext]_allVars => RuntimeInv'
  <1> SUFFICES ASSUME RegistriesOK, NoOrphanAdapters, [AndroidNext]_allVars
               PROVE  RegistriesOK' /\ NoOrphanAdapters'
    BY DEF RuntimeInv
  <1>1. ASSUME NEW t \in Tools, ToolRegister(t), UNCHANGED androidVars
        PROVE  RegistriesOK' /\ NoOrphanAdapters'
    <2>1. t.id \in ToolIds /\ t \notin AndroidCapabilities
      BY ToolAssumption, AndroidAssumption
    <2> QED BY <1>1, <2>1 DEF RegistriesOK, NoOrphanAdapters, ToolRegister, androidVars
  <1>2. ASSUME NEW i \in ToolIds, ToolUnregister(i), UNCHANGED androidVars
        PROVE  RegistriesOK' /\ NoOrphanAdapters'
    BY <1>2, AndroidAssumption DEF RegistriesOK, NoOrphanAdapters, ToolUnregister, androidVars
  <1>3. ASSUME NEW a \in AndroidCapabilities, AndroidRegister(a)
        PROVE  RegistriesOK' /\ NoOrphanAdapters'
    BY <1>3, RegistrationKeepsInv DEF RegistriesOK, AndroidRegister
  <1>4. ASSUME NEW i \in ToolIds, AndroidUnregister(i)
        PROVE  RegistriesOK' /\ NoOrphanAdapters'
    BY <1>4, AndroidAssumption DEF RegistriesOK, NoOrphanAdapters, AndroidUnregister
  <1>5. ASSUME NEW c \in Calls, StartAndroid(c)
        PROVE  RegistriesOK' /\ NoOrphanAdapters'
    <2>1. [announced |-> FALSE, left |-> Packs] \in Loads
      BY AndroidAssumption DEF Loads
    <2> QED BY <1>5, <2>1 DEF RegistriesOK, NoOrphanAdapters, StartAndroid
  <1>6. ASSUME NEW c \in Calls, StartAnnounced(c)
        PROVE  RegistriesOK' /\ NoOrphanAdapters'
    <2>1. loading[c] \in Loads
      BY <1>6, LoadsAreNotNone DEF RegistriesOK, StartAnnounced
    <2>2. [loading[c] EXCEPT !.announced = TRUE] \in Loads
      BY <2>1 DEF Loads
    <2>3. loading' \in [Calls -> Loads \cup {None}]
      BY <1>6, <2>2 DEF RegistriesOK, StartAnnounced
    <2> QED BY <1>6, <2>3 DEF RegistriesOK, NoOrphanAdapters, StartAnnounced
  <1>7. ASSUME NEW c \in Calls, StartNext(c)
        PROVE  RegistriesOK' /\ NoOrphanAdapters'
    <2>1. loading[c] \in Loads /\ loading[c].left # << >>
      BY <1>7, LoadsAreNotNone DEF RegistriesOK, StartNext
    <2>2. Head(loading[c].left) \in AndroidCapabilities /\ Tail(loading[c].left) \in Seq(AndroidCapabilities)
      BY <2>1 DEF Loads
    <2>3. [loading[c] EXCEPT !.left = Tail(loading[c].left)] \in Loads
      BY <2>1, <2>2 DEF Loads
    <2>4. loading' \in [Calls -> Loads \cup {None}]
      BY <1>7, <2>3 DEF RegistriesOK, StartNext
    <2>5. CASE Registrable(Head(loading[c].left))
      BY <1>7, <2>2, <2>4, <2>5, RegistrationKeepsInv DEF RegistriesOK, StartNext
    <2>6. CASE ~Registrable(Head(loading[c].left))
      BY <1>7, <2>4, <2>6 DEF RegistriesOK, NoOrphanAdapters, StartNext
    <2> QED BY <2>5, <2>6
  <1>8. ASSUME NEW c \in Calls, StartEnds(c)
        PROVE  RegistriesOK' /\ NoOrphanAdapters'
    BY <1>8 DEF RegistriesOK, NoOrphanAdapters, StartEnds
  <1>9. CASE ShutdownAndroid
    BY <1>9 DEF RegistriesOK, NoOrphanAdapters, ShutdownAndroid
  <1>10. CASE UNCHANGED allVars
    BY <1>10 DEF RegistriesOK, NoOrphanAdapters, allVars, toolVars, androidVars
  <1> QED
    BY <1>1, <1>2, <1>3, <1>4, <1>5, <1>6, <1>7, <1>8, <1>9, <1>10 DEF AndroidNext

-----------------------------------------------------------------------------
\* No command ever reaches an adapter whose capability the Android runtime does not
\* know, whatever tools and capabilities share ids and however starts overlap
\* (android/registry.py:22-58, android/manager.py:32-61).
THEOREM AdaptersAreKnown == AndroidSpec => []NoOrphanAdapters
  <1>1. AndroidSpec => []RuntimeInv
    BY RuntimeInit, RuntimeStep, PTL DEF AndroidSpec, allVars
  <1>2. RuntimeInv => NoOrphanAdapters
    BY DEF RuntimeInv
  <1> QED BY <1>1, <1>2, PTL

-----------------------------------------------------------------------------
(***************************************************************************)
(* The planner: a plan is an order of the tasks.                           *)
(***************************************************************************)
\* A non-empty set of naturals has a least member: the inductions below are
\* searches for a least counterexample.
LEMMA HasLeast ==
    ASSUME NEW S \in SUBSET Nat, S # {}
    PROVE  \E n \in S : \A m \in S : n <= m
  <1> DEFINE Less == {p \in Nat \X Nat : p[1] < p[2]}
  <1>1. IsWellFoundedOn(Less, Nat)
    BY NatLessThanWellFounded DEF OpToRel
  <1>2. PICK n \in S : \A m \in S : ~ (<<m, n>> \in Less)
    BY <1>1, WFMin
  <1>3. \A m \in S : ~ (m < n) /\ m \in Nat /\ n \in Nat
    BY <1>2
  <1> QED BY <1>3

\* One turn of the search with the answers "f" for longer paths.
SearchBack(ts, f, path) ==
    {t \in ts : t \in path \/ \E d \in Dependencies(t) : d \in f[path \cup {t}]}

\* The more of the tasks a path has, the fewer are left for the search.
LEMMA PathGrows ==
    ASSUME NEW ts, IsFiniteSet(ts), NEW path \in SUBSET ts, NEW t \in ts \ path
    PROVE  /\ path \cup {t} \in SUBSET ts
           /\ Cardinality(ts \ path) \in Nat
           /\ Cardinality(ts \ (path \cup {t})) \in Nat
           /\ Cardinality(ts \ (path \cup {t})) = Cardinality(ts \ path) - 1
  <1>1. IsFiniteSet(ts \ path)
    BY FS_Difference
  <1>2. ts \ (path \cup {t}) = (ts \ path) \ {t} /\ t \in ts \ path
    OBVIOUS
  <1>3. IsFiniteSet((ts \ path) \ {t}) /\ Cardinality((ts \ path) \ {t}) = Cardinality(ts \ path) - 1
    BY <1>1, <1>2, FS_RemoveElement
  <1> QED BY <1>1, <1>2, <1>3, FS_CardinalityType

\* The search ends: the function it computes exists.
LEMMA VisitExists ==
    ASSUME NEW ts, IsFiniteSet(ts)
    PROVE  \E f : f = [path \in SUBSET ts |-> SearchBack(ts, f, path)]
  <1> DEFINE Good(f, n) == \A path \in SUBSET ts :
                 Cardinality(ts \ path) <= n => f[path] = SearchBack(ts, f, path)
             E(n) == \E f \in [SUBSET ts -> SUBSET ts] : Good(f, n)
             Bad == {n \in Nat : ~ E(n)}
  <1>1. Bad = {}
    <2>1. SUFFICES ASSUME Bad # {} PROVE FALSE
      OBVIOUS
    <2>2. PICK n \in Bad : \A m \in Bad : n <= m
      <3> HIDE DEF Bad
      <3>1. Bad \in SUBSET Nat
        BY DEF Bad
      <3> QED BY <2>1, <3>1, HasLeast
    <2>3. n \in Nat /\ ~ E(n)
      BY <2>2
    <2>4. CASE n = 0
      <3> DEFINE f == [path \in SUBSET ts |-> ts]
      <3>1. ASSUME NEW path \in SUBSET ts, Cardinality(ts \ path) <= 0
            PROVE  f[path] = SearchBack(ts, f, path)
        <4>1. IsFiniteSet(ts \ path)
          BY FS_Difference
        <4>2. Cardinality(ts \ path) = 0
          BY <3>1, <4>1, FS_CardinalityType
        <4>3. ts \ path = {}
          BY <4>1, <4>2, FS_EmptySet
        <4> QED BY <4>3 DEF SearchBack
      <3>2. Good(f, 0) /\ f \in [SUBSET ts -> SUBSET ts]
        <4>1. f \in [SUBSET ts -> SUBSET ts]
          OBVIOUS
        <4> HIDE DEF f
        <4> QED BY <3>1, <4>1
      <3> QED BY <2>3, <2>4, <3>2
    <2>5. CASE n # 0
      <3>1. n - 1 \in Nat /\ E(n - 1)
        <4>1. n - 1 \in Nat /\ ~ (n <= n - 1)
          BY <2>3, <2>5
        <4>2. n - 1 \notin Bad
          BY <2>2, <4>1
        <4> QED BY <4>1, <4>2
      <3>2. PICK f \in [SUBSET ts -> SUBSET ts] : Good(f, n - 1)
        BY <3>1
      <3> DEFINE g == [path \in SUBSET ts |-> SearchBack(ts, f, path)]
      <3>3. g \in [SUBSET ts -> SUBSET ts]
        BY DEF SearchBack
      <3>4. ASSUME NEW path \in SUBSET ts, Cardinality(ts \ path) <= n
            PROVE  g[path] = SearchBack(ts, g, path)
        <4>1. ASSUME NEW t \in ts \ path PROVE f[path \cup {t}] = g[path \cup {t}]
          <5>1. path \cup {t} \in SUBSET ts /\ Cardinality(ts \ (path \cup {t})) <= n - 1
            BY <2>3, <3>4, PathGrows
          <5>2. f[path \cup {t}] = SearchBack(ts, f, path \cup {t})
            BY <3>2, <5>1
          <5> QED BY <5>1, <5>2
        <4>2. g[path] = SearchBack(ts, f, path)
          OBVIOUS
        <4> HIDE DEF g
        <4> QED BY <4>1, <4>2 DEF SearchBack
      <3>5. E(n)
        <4> HIDE DEF g
        <4> QED BY <3>3, <3>4
      <3> QED BY <2>3, <3>5
    <2> QED BY <2>4, <2>5
  <1>2. Cardinality(ts) \in Nat
    BY FS_CardinalityType
  <1>3. PICK f \in [SUBSET ts -> SUBSET ts] : Good(f, Cardinality(ts))
    BY <1>1, <1>2
  <1>4. ASSUME NEW path \in SUBSET ts PROVE f[path] = SearchBack(ts, f, path)
    <2>1. Cardinality(ts \ path) <= Cardinality(ts)
      <3>1. ts \ path \in SUBSET ts
        OBVIOUS
      <3> QED BY <3>1, FS_Subset
    <2> QED BY <1>3, <2>1
  <1>5. f = [path \in SUBSET ts |-> SearchBack(ts, f, path)]
    BY <1>3, <1>4
  <1> QED BY <1>5

\* What the search of _validate_no_cycle finds.
LEMMA VisitDef ==
    ASSUME NEW ts, IsFiniteSet(ts)
    PROVE  \A path \in SUBSET ts : Visit(ts)[path] = SearchBack(ts, Visit(ts), path)
  <1>1. \E f : f = [path \in SUBSET ts |->
                      {t \in ts : t \in path \/ \E d \in Dependencies(t) : d \in f[path \cup {t}]}]
    BY VisitExists DEF SearchBack
  <1>2. Visit(ts) = [path \in SUBSET ts |->
                      {t \in ts : t \in path \/ \E d \in Dependencies(t) : d \in Visit(ts)[path \cup {t}]}]
    BY <1>1 DEF Visit
  <1> HIDE DEF Visit
  <1> QED BY <1>2 DEF SearchBack

\* Tasks that can be ordered have no circle: the search only goes down.
LEMMA PossibleHasNoCircle ==
    ASSUME NEW ts, IsFiniteSet(ts), Possible(ts)
    PROVE  ~OnCircle(ts) /\ ~UnknownDependency(ts)
  <1>1. PICK rank \in [ts -> 1..Cardinality(ts)] :
            \A t \in ts : \A d \in Dependencies(t) : d \in ts /\ rank[d] < rank[t]
    BY DEF Possible
  <1>2. ~UnknownDependency(ts)
    BY <1>1 DEF UnknownDependency
  <1> DEFINE Below(n, t, path) == rank[t] = n /\ (\A u \in path : n < rank[u]) /\ t \in Visit(ts)[path]
             Bad == {n \in Nat : \E t \in ts : \E path \in SUBSET ts : Below(n, t, path)}
  <1>3. Bad = {}
    <2>1. SUFFICES ASSUME Bad # {} PROVE FALSE
      OBVIOUS
    <2>2. PICK n \in Bad : \A m \in Bad : n <= m
      <3> HIDE DEF Bad
      <3>1. Bad \in SUBSET Nat
        BY DEF Bad
      <3> QED BY <2>1, <3>1, HasLeast
    <2>3. PICK t \in ts : \E path \in SUBSET ts : Below(n, t, path)
      BY <2>2
    <2>4. PICK path \in SUBSET ts : Below(n, t, path)
      BY <2>3
    <2>5. t \notin path
      BY <2>4, <1>1
    <2>6. PICK d \in Dependencies(t) : d \in Visit(ts)[path \cup {t}]
      <3>1. t \in SearchBack(ts, Visit(ts), path)
        BY <2>4, VisitDef
      <3> QED BY <2>5, <3>1 DEF SearchBack
    <2>7. d \in ts /\ rank[d] < n /\ rank[d] \in Nat /\ path \cup {t} \in SUBSET ts
      <3>1. Cardinality(ts) \in Nat
        BY FS_CardinalityType
      <3> QED BY <1>1, <2>4, <3>1
    <2>8. Below(rank[d], d, path \cup {t})
      <3>1. Cardinality(ts) \in Nat /\ n \in Nat
        BY FS_CardinalityType
      <3>2. \A u \in path \cup {t} : rank[u] \in Nat /\ (u # t => n < rank[u])
        BY <1>1, <2>4, <3>1
      <3> QED BY <2>4, <2>6, <2>7, <3>1, <3>2
    <2>9. rank[d] \in Bad
      BY <2>7, <2>8
    <2> QED BY <2>2, <2>7, <2>9
  <1>4. ASSUME NEW t \in Visit(ts)[{}] PROVE FALSE
    <2>1. t \in ts
      <3>1. t \in SearchBack(ts, Visit(ts), {})
        BY <1>4, VisitDef
      <3> QED BY <3>1 DEF SearchBack
    <2>2. rank[t] \in Nat
      BY <1>1, <2>1, FS_CardinalityType
    <2>3. rank[t] \in Bad
      BY <1>4, <2>1, <2>2
    <2> QED BY <1>3, <2>3
  <1> QED BY <1>2, <1>4 DEF OnCircle

\* Tasks that all wait for one of them are on a circle: the search never gets out.
LEMMA WaitingIsCircle ==
    ASSUME NEW ts, IsFiniteSet(ts), NEW rest \in SUBSET ts, rest # {},
           \A t \in rest : \E d \in rest : d \in Dependencies(t)
    PROVE  OnCircle(ts)
  <1> DEFINE Out(n, path) == n = Cardinality(ts \ path) /\ ~ (rest \subseteq Visit(ts)[path])
             Bad == {n \in Nat : \E path \in SUBSET ts : Out(n, path)}
  <1>1. Bad = {}
    <2>1. SUFFICES ASSUME Bad # {} PROVE FALSE
      OBVIOUS
    <2>2. PICK n \in Bad : \A m \in Bad : n <= m
      <3> HIDE DEF Bad
      <3>1. Bad \in SUBSET Nat
        BY DEF Bad
      <3> QED BY <2>1, <3>1, HasLeast
    <2>3. PICK path \in SUBSET ts : Out(n, path)
      BY <2>2
    <2>4. PICK t \in rest : t \notin Visit(ts)[path]
      BY <2>3
    <2>5. t \notin SearchBack(ts, Visit(ts), path) /\ t \in ts
      BY <2>4, VisitDef
    <2>6. t \notin path /\ \A d \in Dependencies(t) : d \notin Visit(ts)[path \cup {t}]
      BY <2>5 DEF SearchBack
    <2>7. PICK d \in rest : d \in Dependencies(t)
      OBVIOUS
    <2>8. /\ path \cup {t} \in SUBSET ts /\ Cardinality(ts \ (path \cup {t})) \in Nat
          /\ n \in Nat /\ Cardinality(ts \ (path \cup {t})) = n - 1
      BY <2>3, <2>5, <2>6, PathGrows
    <2>9. Cardinality(ts \ (path \cup {t})) \in Bad
      BY <2>6, <2>7, <2>8
    <2>10. n <= Cardinality(ts \ (path \cup {t}))
      <3> HIDE DEF Bad
      <3> QED BY <2>2, <2>9
    <2> QED BY <2>8, <2>10
  <1>2. Cardinality(ts \ {}) \in Nat
    <2>1. ts \ {} = ts
      OBVIOUS
    <2> QED BY <2>1, FS_CardinalityType
  <1>3. rest \subseteq Visit(ts)[{}]
    BY <1>1, <1>2
  <1> QED BY <1>3 DEF OnCircle

-----------------------------------------------------------------------------
\* There are finitely many tasks, with the fields of a task.
PlannerInv ==
    /\ task \in [TaskIds -> TaskRecords \cup {None}]
    /\ IsFiniteSet({t \in TaskIds : task[t] # None})

\* The tasks of a goal.
LEMMA TasksOfGoal ==
    ASSUME PlannerInv, NEW g
    PROVE  IsFiniteSet(TasksOf(g)) /\ \A t \in TasksOf(g) : t \in Int /\ task[t].priority \in Int
  <1>1. TasksOf(g) \in SUBSET {t \in TaskIds : task[t] # None}
    BY DEF TasksOf
  <1>2. IsFiniteSet(TasksOf(g))
    BY <1>1, FS_Subset DEF PlannerInv
  <1>3. ASSUME NEW t \in TasksOf(g) PROVE t \in Int /\ task[t].priority \in Int
    <2>1. t \in TaskIds /\ task[t] \in TaskRecords
      BY <1>1 DEF PlannerInv
    <2>2. PICK d \in TaskDrafts, state \in TaskStates : task[t] = [d EXCEPT !.state = state]
      BY <2>1 DEF TaskRecords
    <2> QED BY <2>1, <2>2, PlannerAssumption
  <1> QED BY <1>2, <1>3

\* The order in which ready tasks are taken.
Sooner(t, u) == task[t].priority > task[u].priority \/ (task[t].priority = task[u].priority /\ t < u)

\* Of any ready tasks one is taken: the one with fewest others before it.
LEMMA FirstIsReady ==
    ASSUME NEW ready, ready # {}, IsFiniteSet(ready), \A t \in ready : t \in Int /\ task[t].priority \in Int
    PROVE  FirstReady(ready) \in ready
  <1> DEFINE Before(x) == {t \in ready : Sooner(t, x)}
             Counts == {Cardinality(Before(x)) : x \in ready}
  <1>1. ASSUME NEW x \in ready PROVE IsFiniteSet(Before(x)) /\ Cardinality(Before(x)) \in Nat
    <2>1. Before(x) \in SUBSET ready
      OBVIOUS
    <2> HIDE DEF Before
    <2> QED BY <2>1, FS_Subset, FS_CardinalityType
  <1>2. PICK k \in Counts : \A n \in Counts : k <= n
    <2>1. Counts \in SUBSET Nat /\ Counts # {}
      BY <1>1
    <2> HIDE DEF Counts
    <2> QED BY <2>1, HasLeast
  <1>3. PICK x \in ready : k = Cardinality(Before(x))
    OBVIOUS
  <1>4. ASSUME NEW y \in ready PROVE ~ Sooner(y, x)
    <2>1. SUFFICES ASSUME Sooner(y, x) PROVE FALSE
      OBVIOUS
    <2>2. Before(y) \subseteq Before(x) /\ y \in Before(x) /\ y \notin Before(y)
      BY <2>1 DEF Sooner
    <2>3. Cardinality(Before(y)) <= Cardinality(Before(x)) /\ Cardinality(Before(y)) # Cardinality(Before(x))
      <3> HIDE DEF Before
      <3> QED BY <1>1, <2>2, FS_Subset
    <2>4. Cardinality(Before(x)) <= Cardinality(Before(y))
      BY <1>2, <1>3
    <2> HIDE DEF Before
    <2> QED BY <1>1, <2>3, <2>4
  <1>5. \E z \in ready : \A u \in ready \ {z} : Sooner(z, u)
    BY <1>4 DEF Sooner
  <1> QED BY <1>5 DEF FirstReady, Sooner

\* The function topological_sort computes exists.
LEMMA OrdersExist ==
    ASSUME NEW ts, NEW N \in Nat
    PROVE  \E f : f = [n \in 0..N |-> IF n = 0 THEN << >> ELSE OrderNext(ts, f[n - 1])]
  <1> DEFINE E(n) == \E f : f = [k \in 0..n |-> IF k = 0 THEN << >> ELSE OrderNext(ts, f[k - 1])]
             Bad == {n \in Nat : ~ E(n)}
  <1>1. SUFFICES ASSUME Bad # {} PROVE FALSE
    OBVIOUS
  <1>2. PICK n \in Bad : \A m \in Bad : n <= m
    <2> HIDE DEF Bad
    <2>1. Bad \in SUBSET Nat
      BY DEF Bad
    <2> QED BY <1>1, <2>1, HasLeast
  <1>3. n # 0
    <2> DEFINE f == [k \in 0..0 |-> << >>]
    <2>1. f = [k \in 0..0 |-> IF k = 0 THEN << >> ELSE OrderNext(ts, f[k - 1])]
      OBVIOUS
    <2> QED BY <2>1
  <1>4. n - 1 \in Nat /\ E(n - 1)
    <2>1. n \in Nat /\ n - 1 \in Nat /\ ~ (n <= n - 1)
      BY <1>2, <1>3
    <2>2. n - 1 \notin Bad
      BY <2>1, <1>2
    <2> QED BY <2>1, <2>2
  <1>5. PICK f : f = [k \in 0..(n - 1) |-> IF k = 0 THEN << >> ELSE OrderNext(ts, f[k - 1])]
    BY <1>4
  <1> DEFINE g == [k \in 0..n |-> IF k = n THEN OrderNext(ts, f[n - 1]) ELSE f[k]]
  <1>6. g = [k \in 0..n |-> IF k = 0 THEN << >> ELSE OrderNext(ts, g[k - 1])]
    <2>1. ASSUME NEW k \in 0..n PROVE g[k] = IF k = 0 THEN << >> ELSE OrderNext(ts, g[k - 1])
      <3>1. CASE k = 0
        BY <3>1, <1>2, <1>3, <1>5
      <3>2. CASE k = n
        <4>1. g[n - 1] = f[n - 1]
          BY <1>2, <1>4
        <4> QED BY <3>2, <1>3, <4>1
      <3>3. CASE k # 0 /\ k # n
        <4>1. g[k - 1] = f[k - 1] /\ g[k] = f[k] /\ k \in 0..(n - 1)
          BY <3>3, <1>2
        <4> QED BY <3>3, <1>5, <4>1
      <3> QED BY <3>1, <3>2, <3>3
    <2> QED BY <2>1
  <1>7. E(n)
    BY <1>6
  <1> QED BY <1>7, <1>2

\* What topological_sort has after each turn.
LEMMA OrdersDef ==
    ASSUME NEW ts, Cardinality(ts) \in Nat
    PROVE  /\ Orders(ts)[0] = << >>
           /\ \A n \in 1..Cardinality(ts) : Orders(ts)[n] = OrderNext(ts, Orders(ts)[n - 1])
  <1>1. \E f : f = [n \in 0..Cardinality(ts) |-> IF n = 0 THEN << >> ELSE OrderNext(ts, f[n - 1])]
    BY OrdersExist
  <1>2. Orders(ts) = [n \in 0..Cardinality(ts) |-> IF n = 0 THEN << >> ELSE OrderNext(ts, Orders(ts)[n - 1])]
    BY <1>1 DEF Orders
  <1> HIDE DEF Orders
  <1> QED BY <1>2

Placed(q) == {q[i] : i \in DOMAIN q}

\* Tasks, each at most once and after what it depends on.
Front(q, ts) ==
    /\ q \in Seq(ts)
    /\ \A i, j \in DOMAIN q : q[i] = q[j] => i = j
    /\ \A i \in DOMAIN q : Dependencies(q[i]) \subseteq {q[j] : j \in 1..(i - 1)}

\* Appending a ready task.
LEMMA AppendFront ==
    ASSUME NEW ts, NEW q, Front(q, ts), NEW x \in ts, x \notin Placed(q), Dependencies(x) \subseteq Placed(q)
    PROVE  Front(Append(q, x), ts) /\ Len(Append(q, x)) = Len(q) + 1
  <1> DEFINE r == Append(q, x)
  <1>0. q \in Seq(ts) /\ Len(q) \in Nat /\ DOMAIN q = 1..Len(q)
    BY DEF Front
  <1>1. /\ r \in Seq(ts) /\ Len(r) = Len(q) + 1 /\ DOMAIN r = 1..(Len(q) + 1)
        /\ r[Len(q) + 1] = x /\ \A i \in 1..Len(q) : r[i] = q[i]
    BY <1>0
  <1> HIDE DEF r
  <1>3. \A i, j \in DOMAIN r : r[i] = r[j] => i = j
    BY <1>0, <1>1 DEF Front, Placed
  <1>4. ASSUME NEW i \in DOMAIN r PROVE Dependencies(r[i]) \subseteq {r[j] : j \in 1..(i - 1)}
    <2>1. CASE i = Len(q) + 1
      <3>1. {r[j] : j \in 1..(i - 1)} = Placed(q)
        BY <2>1, <1>0, <1>1 DEF Placed
      <3> QED BY <3>1, <2>1, <1>1
    <2>2. CASE i # Len(q) + 1
      <3>1. i \in 1..Len(q) /\ r[i] = q[i] /\ {r[j] : j \in 1..(i - 1)} = {q[j] : j \in 1..(i - 1)}
        BY <2>2, <1>0, <1>1
      <3> QED BY <3>1, <1>0 DEF Front
    <2> QED BY <2>1, <2>2
  <1>5. Front(r, ts)
    BY <1>1, <1>3, <1>4 DEF Front
  <1> QED BY <1>1, <1>5 DEF r

\* As many tasks as the list is long.
LEMMA PlacedCount ==
    ASSUME NEW ts, IsFiniteSet(ts), NEW q, Front(q, ts)
    PROVE  /\ Len(q) \in Nat /\ Placed(q) \in SUBSET ts /\ IsFiniteSet(Placed(q))
           /\ Cardinality(Placed(q)) = Len(q)
  <1>1. q \in Seq(ts) /\ Len(q) \in Nat /\ DOMAIN q = 1..Len(q)
    BY DEF Front
  <1>2. Placed(q) \in SUBSET ts
    BY <1>1 DEF Placed
  <1>3. ExistsBijection(1..Len(q), Placed(q))
    <2>1. q \in Bijection(1..Len(q), Placed(q))
      BY <1>1 DEF Front, Placed, Bijection, Injection, Surjection, IsInjective
    <2> QED BY <2>1 DEF ExistsBijection
  <1>4. IsFiniteSet(1..Len(q)) /\ Cardinality(1..Len(q)) = Len(q)
    BY <1>1, FS_Interval
  <1>5. IsFiniteSet(Placed(q))
    BY <1>2, FS_Subset
  <1>6. Cardinality(Placed(q)) = Cardinality(1..Len(q))
    BY <1>3, <1>4, <1>5, FS_Bijection
  <1> QED BY <1>1, <1>2, <1>4, <1>5, <1>6

\* While tasks are left one of them is ready, unless they are on a circle.
LEMMA SomeTaskIsReady ==
    ASSUME NEW ts, IsFiniteSet(ts), ~OnCircle(ts), ~UnknownDependency(ts),
           NEW q, Front(q, ts), Len(q) < Cardinality(ts)
    PROVE  ReadyAfter(ts, Placed(q)) # {}
  <1> DEFINE rest == ts \ Placed(q)
  <1>1. Cardinality(ts) \in Nat /\ Len(q) \in Nat /\ Placed(q) \in SUBSET ts /\ Cardinality(Placed(q)) = Len(q)
    BY PlacedCount, FS_CardinalityType
  <1>2. rest # {}
    <2>1. Placed(q) # ts
      BY <1>1
    <2> QED BY <1>1, <2>1
  <1>3. SUFFICES ASSUME ReadyAfter(ts, Placed(q)) = {} PROVE FALSE
    OBVIOUS
  <1>4. ASSUME NEW t \in rest PROVE \E d \in rest : d \in Dependencies(t)
    <2>1. ~ (Dependencies(t) \subseteq Placed(q))
      BY <1>3 DEF ReadyAfter
    <2>2. Dependencies(t) \subseteq ts
      BY DEF UnknownDependency
    <2> QED BY <2>1, <2>2
  <1>5. rest \in SUBSET ts
    OBVIOUS
  <1> HIDE DEF rest
  <1> QED BY <1>2, <1>4, <1>5, WaitingIsCircle

\* Every turn orders one more task.
LEMMA SortGrows ==
    ASSUME NEW ts, IsFiniteSet(ts), ~OnCircle(ts), ~UnknownDependency(ts),
           \A t \in ts : t \in Int /\ task[t].priority \in Int, NEW n \in 0..Cardinality(ts)
    PROVE  Front(Orders(ts)[n], ts) /\ Len(Orders(ts)[n]) = n
  <1> DEFINE Good(k) == Front(Orders(ts)[k], ts) /\ Len(Orders(ts)[k]) = k
             Bad == {k \in 0..Cardinality(ts) : ~ Good(k)}
  <1>0. Cardinality(ts) \in Nat
    BY FS_CardinalityType
  <1>1. SUFFICES ASSUME Bad # {} PROVE FALSE
    OBVIOUS
  <1>2. PICK k \in Bad : \A m \in Bad : k <= m
    <2>1. Bad \in SUBSET Nat
      BY <1>0
    <2> HIDE DEF Bad
    <2> QED BY <1>1, <2>1, HasLeast
  <1>3. k \in 0..Cardinality(ts) /\ ~ Good(k)
    BY <1>2
  <1>4. k # 0
    <2>1. Orders(ts)[0] = << >>
      BY <1>0, OrdersDef
    <2>2. Front(<< >>, ts) /\ Len(<< >>) = 0
      BY DEF Front
    <2> QED BY <1>3, <2>1, <2>2
  <1>5. k - 1 \in 0..Cardinality(ts) /\ k \in 1..Cardinality(ts) /\ k \in Nat /\ ~ (k <= k - 1)
    BY <1>0, <1>3, <1>4
  <1>6. Good(k - 1)
    <2>1. k - 1 \notin Bad
      <3> HIDE DEF Bad
      <3> QED BY <1>2, <1>5
    <2> QED BY <1>5, <2>1
  <1> DEFINE q == Orders(ts)[k - 1]
             ready == ReadyAfter(ts, Placed(q))
  <1>7. Front(q, ts) /\ Len(q) = k - 1 /\ Len(q) < Cardinality(ts)
    BY <1>0, <1>5, <1>6
  <1>8. Orders(ts)[k] = OrderNext(ts, q)
    BY <1>0, <1>5, OrdersDef
  <1> HIDE DEF q
  <1>9. ready # {} /\ ready \in SUBSET ts
    BY <1>7, SomeTaskIsReady DEF ReadyAfter
  <1>10. OrderNext(ts, q) = Append(q, FirstReady(ready))
    BY <1>9 DEF OrderNext, Placed
  <1>11. FirstReady(ready) \in ready
    <2>1. IsFiniteSet(ready)
      BY <1>9, FS_Subset
    <2> HIDE DEF ready
    <2> QED BY <1>9, <2>1, FirstIsReady
  <1>12. /\ FirstReady(ready) \in ts /\ FirstReady(ready) \notin Placed(q)
         /\ Dependencies(FirstReady(ready)) \subseteq Placed(q)
    <2> DEFINE x == FirstReady(ready)
    <2>1. x \in ReadyAfter(ts, Placed(q))
      BY <1>11
    <2> HIDE DEF x
    <2>2. x \in ts /\ x \notin Placed(q) /\ Dependencies(x) \subseteq Placed(q)
      BY <2>1 DEF ReadyAfter
    <2> QED BY <2>2 DEF x
  <1>13. Front(Append(q, FirstReady(ready)), ts) /\ Len(Append(q, FirstReady(ready))) = Len(q) + 1
    BY <1>7, <1>12, AppendFront
  <1> QED BY <1>3, <1>5, <1>7, <1>8, <1>10, <1>13

\* The sort of tasks without a circle is complete, and ranks them.
LEMMA SortIsOrder ==
    ASSUME NEW ts, IsFiniteSet(ts), ~OnCircle(ts), ~UnknownDependency(ts),
           \A t \in ts : t \in Int /\ task[t].priority \in Int
    PROVE  TopologicalSort(ts) \in Seq(ts) /\ Respects(TopologicalSort(ts), ts) /\ Possible(ts)
  <1> DEFINE q == TopologicalSort(ts)
  <1>1. Cardinality(ts) \in Nat
    BY FS_CardinalityType
  <1>2. Front(q, ts) /\ Len(q) = Cardinality(ts)
    BY <1>1, SortGrows DEF TopologicalSort
  <1> HIDE DEF q
  <1>3. q \in Seq(ts) /\ DOMAIN q = 1..Cardinality(ts)
    BY <1>2 DEF Front
  <1>4. Placed(q) = ts
    <2>1. Placed(q) \in SUBSET ts /\ Cardinality(Placed(q)) = Cardinality(ts)
      BY <1>2, PlacedCount
    <2> QED BY <2>1, FS_Subset
  <1>5. Respects(q, ts)
    BY <1>2, <1>4 DEF Respects, Front, Placed
  <1> DEFINE rank == [t \in ts |-> CHOOSE i \in DOMAIN q : q[i] = t]
  <1>6. ASSUME NEW t \in ts PROVE rank[t] \in DOMAIN q /\ q[rank[t]] = t
    <2>1. \E i \in DOMAIN q : q[i] = t
      BY <1>4 DEF Placed
    <2> QED BY <2>1
  <1>7. rank \in [ts -> 1..Cardinality(ts)]
    <2>1. rank = [t \in ts |-> rank[t]]
      OBVIOUS
    <2> HIDE DEF rank
    <2> QED BY <1>3, <1>6, <2>1
  <1> HIDE DEF rank
  <1>8. ASSUME NEW t \in ts, NEW d \in Dependencies(t) PROVE d \in ts /\ rank[d] < rank[t]
    <2>1. rank[t] \in DOMAIN q /\ q[rank[t]] = t
      BY <1>6
    <2>2. Dependencies(t) \subseteq {q[j] : j \in 1..(rank[t] - 1)}
      BY <1>2, <2>1 DEF Front
    <2>3. PICK j \in 1..(rank[t] - 1) : d = q[j]
      BY <2>2
    <2>4. j \in DOMAIN q /\ j < rank[t]
      BY <1>1, <1>3, <2>1, <2>3
    <2>5. d \in ts
      <3>1. d \in Placed(q)
        BY <2>3, <2>4 DEF Placed
      <3> QED BY <1>4, <3>1
    <2>6. rank[d] = j
      BY <1>2, <1>6, <2>3, <2>4, <2>5 DEF Front
    <2> QED BY <2>4, <2>5, <2>6
  <1>9. Possible(ts)
    BY <1>7, <1>8 DEF Possible
  <1> QED BY <1>3, <1>5, <1>9 DEF q

\* A plan is made exactly where the tasks can be ordered.
LEMMA PlansOrder == ASSUME PlannerInv PROVE PlansAreOrders
  <1> SUFFICES ASSUME NEW g \in GoalIds, goal[g] \notin {None, "CANCELLED"}, TasksOf(g) # {}
               PROVE  IF Possible(TasksOf(g)) THEN PlanOf(g) # None /\ Respects(PlanOf(g), TasksOf(g))
                      ELSE PlanOf(g) = None
    BY DEF PlansAreOrders
  <1> DEFINE ts == TasksOf(g)
  <1>1. IsFiniteSet(ts) /\ (\A t \in ts : t \in Int /\ task[t].priority \in Int) /\ ts \in SUBSET TaskIds
    BY TasksOfGoal DEF TasksOf
  <1>2. PlanOf(g) = IF UnknownDependency(ts) \/ OnCircle(ts) THEN None ELSE TopologicalSort(ts)
    BY DEF PlanOf
  <1> HIDE DEF ts
  <1>3. CASE UnknownDependency(ts) \/ OnCircle(ts)
    <2>1. ~Possible(ts)
      BY <1>1, <1>3, PossibleHasNoCircle
    <2> QED BY <1>2, <1>3, <2>1 DEF ts
  <1>4. CASE ~UnknownDependency(ts) /\ ~OnCircle(ts)
    <2>1. TopologicalSort(ts) \in Seq(ts) /\ Respects(TopologicalSort(ts), ts) /\ Possible(ts)
      BY <1>1, <1>4, SortIsOrder
    <2>2. TopologicalSort(ts) \in Seq(TaskIds)
      BY <1>1, <2>1
    <2>3. TopologicalSort(ts) # None
      BY <2>2, PlannerAssumption
    <2> QED BY <1>2, <1>4, <2>1, <2>3 DEF ts
  <1> QED BY <1>3, <1>4

\* No change of goals and tasks takes a field from a task.
LEMMA PlannerInvStep == ASSUME PlannerInv, [PlannerNext]_plannerVars PROVE PlannerInv'
  <1> DEFINE Made == {t \in TaskIds : task[t] # None}
  <1>1. CASE task' = task
    BY <1>1 DEF PlannerInv
  <1>2. ASSUME NEW d \in TaskDrafts, CreateTask(d) PROVE PlannerInv'
    <2>1. d.id \in TaskIds /\ d \in TaskRecords
      <3>1. /\ d.id \in TaskIds /\ d.state \in TaskStates
            /\ d = [id |-> d.id, goal |-> d.goal, dependencies |-> d.dependencies,
                    priority |-> d.priority, state |-> d.state]
        BY PlannerAssumption
      <3>2. d = [d EXCEPT !.state = d.state]
        <4>1. ASSUME NEW i, NEW g, NEW x, NEW p, NEW u,
                     d = [id |-> i, goal |-> g, dependencies |-> x, priority |-> p, state |-> u]
              PROVE  d = [d EXCEPT !.state = d.state]
          BY <4>1
        <4> HIDE DEF TaskRecords
        <4> QED BY <3>1, <4>1
      <3> QED BY <3>1, <3>2 DEF TaskRecords
    <2>2. task' = [task EXCEPT ![d.id] = d]
      BY <1>2 DEF CreateTask
    <2>3. task' \in [TaskIds -> TaskRecords \cup {None}]
      BY <2>1, <2>2 DEF PlannerInv
    <2>4. {t \in TaskIds : task'[t] # None} \in SUBSET (Made \cup {d.id})
      BY <2>2, <2>3 DEF PlannerInv
    <2>5. IsFiniteSet(Made \cup {d.id})
      BY FS_AddElement DEF PlannerInv
    <2> HIDE DEF Made
    <2>6. IsFiniteSet({t \in TaskIds : task'[t] # None})
      BY <2>4, <2>5, FS_Subset
    <2> QED BY <2>3, <2>6 DEF PlannerInv
  <1>3. ASSUME NEW t \in TaskIds, NEW state \in TaskMoves, SetTask(t, state) PROVE PlannerInv'
    <2>1. task[t] # None /\ task' = [task EXCEPT ![t].state = state] /\ state \in TaskStates
      BY <1>3, PlannerAssumption DEF SetTask
    <2>2. PICK d \in TaskDrafts, old \in TaskStates : task[t] = [d EXCEPT !.state = old]
      BY <2>1 DEF PlannerInv, TaskRecords
    <2>3. [task[t] EXCEPT !.state = state] = [d EXCEPT !.state = state]
      BY <2>2, PlannerAssumption
    <2>4. [task[t] EXCEPT !.state = state] \in TaskRecords
      BY <2>1, <2>3 DEF TaskRecords
    <2>5. task' \in [TaskIds -> TaskRecords \cup {None}]
      BY <2>1, <2>4 DEF PlannerInv
    <2>6. {u \in TaskIds : task'[u] # None} \in SUBSET Made
      BY <2>1, <2>5 DEF PlannerInv
    <2>7. IsFiniteSet(Made)
      BY DEF PlannerInv
    <2> HIDE DEF Made
    <2>8. IsFiniteSet({u \in TaskIds : task'[u] # None})
      BY <2>6, <2>7, FS_Subset
    <2> QED BY <2>5, <2>8 DEF PlannerInv
  <1>4. CASE \E g \in GoalIds : CreateGoal(g) \/ CancelGoal(g) \/ UpdateGoal(g, "READY")
    BY <1>1, <1>4 DEF CreateGoal, CancelGoal, UpdateGoal
  <1> QED BY <1>1, <1>2, <1>3, <1>4 DEF PlannerNext, plannerVars

LEMMA PlannerInvInit == PlannerInit => PlannerInv
  <1> SUFFICES ASSUME PlannerInit PROVE PlannerInv
    OBVIOUS
  <1>1. {t \in TaskIds : task[t] # None} = {}
    BY DEF PlannerInit
  <1>2. task \in [TaskIds -> TaskRecords \cup {None}]
    BY DEF PlannerInit
  <1> QED BY <1>1, <1>2, FS_EmptySet DEF PlannerInv

\* Whatever tasks have been created and moved, also ones that depend on themselves, on
\* each other or on tasks of another goal: a goal gets a plan exactly if its tasks can be
\* ordered, and the plan is such an order (graph.py:11-71).
THEOREM PlansAreOrdered == BrainSpec => []PlansAreOrders
  <1>1. BrainNext => [PlannerNext]_plannerVars
    BY DEF BrainNext
  <1>2. PlannerInv /\ [BrainNext]_<<busVars, requestVars, plannerVars, brainVars>> => PlannerInv'
    <2> SUFFICES ASSUME PlannerInv, [BrainNext]_<<busVars, requestVars, plannerVars, brainVars>> PROVE PlannerInv'
      OBVIOUS
    <2>1. [PlannerNext]_plannerVars
      BY <1>1
    <2> QED BY <2>1, PlannerInvStep
  <1>3. PlannerInv => PlansAreOrders
    BY PlansOrder
  <1> QED BY <1>2, <1>3, PlannerInvInit, PTL DEF BrainSpec

-----------------------------------------------------------------------------
(***************************************************************************)
(* The protocol: who is subscribed, who heard what, who was answered.      *)
(***************************************************************************)
HeardOK ==
    /\ subscribed \subseteq (EventTypes \cup {Wildcard}) \X Handlers
    /\ \A t \in heard : t[1] \in Handlers /\ t[2] \in Calls
    /\ \A c \in Calls : requestPc[c] = "over" => reply[c] # None

LEMMA ProtocolTypes == ASSUME ProtocolInv, HeardOK PROVE RequestTypeOK
  <1>1. ASSUME NEW c \in Calls PROVE reply[c] # None <=> At(c, "over")
    <2>1. requestPc[c] \in Labels /\ CallInv(c)
      BY DEF ProtocolInv, ProtocolOK
    <2>2. requestPc[c] # "over" => reply[c] = None
      BY <2>1 DEF Labels, CallInv, Working, Unanswered
    <2> QED BY <2>2 DEF HeardOK, At
  <1> QED BY <1>1 DEF ProtocolInv, ProtocolOK, Labels, HeardOK, RequestTypeOK

LEMMA HeardInit == ASSUME BusInit, RequestInit PROVE HeardOK
  <1>1. PICK s \in SUBSET Handlers : subscribed = {<<Wildcard, h>> : h \in s}
    BY DEF BusInit
  <1>2. subscribed \subseteq (EventTypes \cup {Wildcard}) \X Handlers
    BY <1>1
  <1> QED BY <1>2 DEF BusInit, RequestInit, HeardOK

\* A call moves on and is not answered, or it is over and is.
LEMMA MovingHeard ==
    ASSUME ProtocolInv, HeardOK, UNCHANGED <<subscribed, heard, reply>>, NEW c \in Calls, NEW label,
           Goes(c, label), label # "over"
    PROVE  HeardOK'
  BY DEF ProtocolInv, ProtocolOK, HeardOK, Goes

LEMMA AnsweringHeard ==
    ASSUME ProtocolInv, HeardOK, UNCHANGED <<subscribed, heard>>, NEW c \in Calls, NEW r, r # None, NEW verdicts,
           Answer(c, r, verdicts)
    PROVE  HeardOK'
  BY DEF ProtocolInv, ProtocolOK, HeardOK, Answer, Goes

LEMMA VerdictHeard == ASSUME ProtocolInv, HeardOK, VerdictNext PROVE HeardOK'
  <1>1. UNCHANGED <<subscribed, heard>>
    BY DEF VerdictNext
  <1>2. PICK c \in Calls : Completed(c) \/ CompletedRaised(c) \/ Failed(c) \/ FailedRaised(c)
    BY DEF VerdictNext
  <1>3. CASE CompletedRaised(c)
    BY <1>1, <1>3, MovingHeard DEF CompletedRaised, Fail, FailWith
  <1>4. \A r \in {"success", "failed", "raised"} : r # None
    BY RequestAssumption
  <1>5. CASE Completed(c) \/ Failed(c) \/ FailedRaised(c)
    BY <1>1, <1>4, <1>5, AnsweringHeard DEF Completed, Failed, FailedRaised
  <1> QED BY <1>2, <1>3, <1>5

LEMMA BusHeard == ASSUME ProtocolInv, HeardOK, BusNext, UNCHANGED requestVars PROVE HeardOK'
  <1>0. UNCHANGED <<requestPc, reply>>
    BY DEF requestVars
  <1>1. ASSUME NEW c \in Calls, NEW h \in Handlers, Handle(c, h) \/ HandlerRaises(c, h) PROVE HeardOK'
    <2>1. subscribed' = subscribed /\ heard' = Hears(h, c)
      BY <1>1 DEF Handle, HandlerRaises
    <2>2. \A t \in heard' : t[1] \in Handlers /\ t[2] \in Calls
      BY <2>1 DEF Hears, HeardOK
    <2> QED BY <1>0, <2>1, <2>2 DEF HeardOK
  <1>2. ASSUME NEW h \in Handlers, NEW e \in EventTypes \cup {Wildcard}, Subscribe(e, h) \/ Unsubscribe(e, h)
        PROVE  HeardOK'
    BY <1>0, <1>2 DEF HeardOK, Subscribe, Unsubscribe
  <1> QED BY <1>1, <1>2 DEF BusNext

LEMMA ToolHeard ==
    ASSUME ProtocolInv, HeardOK, [ToolNext]_<<busVars, requestVars, toolVars>> PROVE HeardOK'
  <1>1. ASSUME NEW c \in Calls, ExecutionNext(c), UNCHANGED <<subscribed, heard, listened>> PROVE HeardOK'
    <2>1. ASSUME NEW r \in ToolRequests, Execute(c, r) PROVE HeardOK'
      BY <1>1, <2>1, MovingHeard DEF Execute
    <2>2. CASE RunTool(c)
      BY <1>1, <2>2, MovingHeard DEF RunTool
    <2>3. CASE StartRefused(c) \/ ToolRaises(c)
      BY <1>1, <2>3, MovingHeard DEF StartRefused, ToolRaises, Fail, FailWith
    <2>4. CASE ToolReturns(c)
      BY <1>1, <2>4, MovingHeard DEF ToolReturns, CompleteWith
    <2> QED BY <1>1, <2>1, <2>2, <2>3, <2>4 DEF ExecutionNext
  <1>2. CASE UNCHANGED <<busVars, requestVars>>
    BY <1>2 DEF HeardOK, busVars, requestVars
  <1> QED BY <1>1, <1>2, VerdictHeard, BusHeard DEF ToolNext

LEMMA BrainHeard ==
    ASSUME BrainInv, HeardOK, [BrainNext]_<<busVars, requestVars, plannerVars, brainVars>> PROVE HeardOK'
  <1>0. ProtocolInv
    BY DEF BrainInv
  <1>1. ASSUME NEW c \in BrainCalls, BrainStep(c), UNCHANGED <<subscribed, heard, listened>> PROVE HeardOK'
    <2>0. c \in Calls /\ UNCHANGED <<subscribed, heard>>
      BY <1>1, BrainAssumption
    <2>1. ASSUME NEW r \in BrainRequestsMade, ProcessRequest(c, r) PROVE HeardOK'
      BY <1>0, <2>0, <2>1, MovingHeard DEF ProcessRequest
    <2>2. CASE AnnouncingRaises(c)
      BY <1>0, <2>0, <2>2, AnsweringHeard, RequestAssumption DEF AnnouncingRaises
    <2>3. ASSUME FailWith(c) \/ CompleteWith(c) PROVE HeardOK'
      BY <1>0, <2>0, <2>3, MovingHeard DEF Fail, FailWith, CompleteWith
    <2>4. ASSUME UNCHANGED <<requestPc, reply>> PROVE HeardOK'
      BY <2>0, <2>4 DEF HeardOK
    <2>5. CASE RunPipeline(c)
      BY <1>0, <2>0, <2>3, <2>5, MovingHeard DEF RunPipeline
    <2>6. CASE BuildPlan(c)
      BY <2>3, <2>4, <2>6 DEF BuildPlan
    <2>7. CASE MemoryRaises(c) \/ PlanningFails(c) \/ Decide(c)
      BY <2>3, <2>7 DEF MemoryRaises, PlanningFails, Decide
    <2>8. CASE PlanRemembered(c)
      BY <2>4, <2>8 DEF PlanRemembered, requestVars
    <2> QED BY <1>1, <2>1, <2>2, <2>5, <2>6, <2>7, <2>8 DEF BrainStep
  <1>2. CASE UNCHANGED <<busVars, requestVars>>
    BY <1>2 DEF HeardOK, busVars, requestVars
  <1> QED BY <1>0, <1>1, <1>2, VerdictHeard, BusHeard DEF BrainNext

-----------------------------------------------------------------------------
(***************************************************************************)
(* The tools: the one that was looked up runs at most once.                *)
(***************************************************************************)
FiledOK == DOMAIN tool = ToolIds /\ \A i \in ToolIds : tool[i] # None => tool[i].id = i

RunOK(c) ==
    /\ ran[c] \in {0, 1}
    /\ requestPc[c] = "idle" => dispatched[c] = None
    /\ requestPc[c] \in {"idle", "starting"} => ran[c] = 0
    /\ requestPc[c] \in {"waiting", "completing"} \/ reply[c] = "success" => ran[c] = 1
    /\ dispatched[c] # None => dispatched[c].id = request[c]

RunsOK ==
    /\ DOMAIN request = Calls /\ DOMAIN dispatched = Calls /\ DOMAIN ran = Calls
    /\ \A c \in Calls : RunOK(c)

LEMMA FiledStep == ASSUME FiledOK, ToolNext PROVE FiledOK'
  <1>1. ASSUME NEW t \in Tools, ToolRegister(t) PROVE FiledOK'
    BY <1>1, ToolAssumption DEF FiledOK, ToolRegister
  <1>2. ASSUME NEW i \in ToolIds, ToolUnregister(i) PROVE FiledOK'
    BY <1>2 DEF FiledOK, ToolUnregister
  <1>3. CASE UNCHANGED tool
    BY <1>3 DEF FiledOK
  <1> QED BY <1>1, <1>2, <1>3 DEF ToolNext, ExecutionNext, Execute, RunTool, StartRefused, ToolReturns, ToolRaises, toolVars

LEMMA RunsStep ==
    ASSUME ProtocolInv, FiledOK, RunsOK, [ToolNext]_<<busVars, requestVars, toolVars>> PROVE RunsOK'
  <1>0. /\ DOMAIN requestPc = Calls /\ DOMAIN reply = Calls /\ DOMAIN request = Calls
        /\ DOMAIN dispatched = Calls /\ DOMAIN ran = Calls
        /\ \A c \in Calls : RunOK(c)
    BY DEF ProtocolInv, ProtocolOK, RunsOK
  <1>1. \A c \in Calls : requestPc[c] \in {"idle", "starting", "waiting", "completing", "failing"} => reply[c] = None
    BY DEF ProtocolInv, CallInv, Working, Unanswered
  <1>2. ASSUME UNCHANGED <<requestVars, dispatched, ran>> PROVE RunsOK'
    BY <1>2 DEF requestVars, RunsOK, RunOK
  <1>3. ASSUME NEW c \in Calls, NEW label, Goes(c, label), UNCHANGED <<request, reply, dispatched, ran>>,
               requestPc[c] # "idle", label \notin {"idle", "starting"},
               label \in {"waiting", "completing"} => ran[c] = 1
        PROVE  RunsOK'
    <2>1. \A d \in Calls : requestPc'[d] = IF d = c THEN label ELSE requestPc[d]
      BY <1>0, <1>3 DEF Goes
    <2>2. \A d \in Calls : RunOK(d)'
      BY <1>0, <1>3, <2>1 DEF RunOK
    <2> QED BY <1>0, <1>3, <2>2 DEF RunsOK
  <1>4. ASSUME NEW c \in Calls, NEW r, NEW verdicts, Answer(c, r, verdicts), UNCHANGED <<dispatched, ran>>,
               requestPc[c] # "idle", r = "success" => ran[c] = 1
        PROVE  RunsOK'
    <2>1. \A d \in Calls : /\ requestPc'[d] = IF d = c THEN "over" ELSE requestPc[d]
                           /\ reply'[d] = IF d = c THEN r ELSE reply[d]
                           /\ request'[d] = request[d]
      BY <1>0, <1>4 DEF Answer, Goes
    <2>2. \A d \in Calls : RunOK(d)'
      BY <1>0, <1>4, <2>1 DEF RunOK
    <2> QED BY <1>0, <1>4, <2>2 DEF RunsOK, Answer
  <1>5. ASSUME VerdictNext, UNCHANGED toolVars PROVE RunsOK'
    <2>1. PICK c \in Calls : Completed(c) \/ CompletedRaised(c) \/ Failed(c) \/ FailedRaised(c)
      BY <1>5 DEF VerdictNext
    <2>2. UNCHANGED <<dispatched, ran>>
      BY <1>5 DEF toolVars
    <2>3. CASE Completed(c)
      <3>1. ran[c] = 1 /\ requestPc[c] # "idle"
        BY <1>0, <2>3 DEF Completed, At, RunOK
      <3> QED BY <1>4, <2>2, <2>3, <3>1 DEF Completed
    <2>4. CASE CompletedRaised(c)
      BY <1>3, <2>2, <2>4 DEF CompletedRaised, At, Fail, FailWith
    <2>5. CASE Failed(c) \/ FailedRaised(c)
      BY <1>4, <2>2, <2>5 DEF Failed, FailedRaised, At
    <2> QED BY <2>1, <2>3, <2>4, <2>5
  <1>6. ASSUME NEW c \in Calls, ExecutionNext(c) PROVE RunsOK'
    <2>1. ASSUME NEW r \in ToolRequests, Execute(c, r) PROVE RunsOK'
      <3>0. /\ requestPc[c] = "idle" /\ request' = [request EXCEPT ![c] = r] /\ UNCHANGED <<reply, ran>>
            /\ reply[c] = None /\ dispatched[c] = None /\ ran[c] = 0
        BY <1>0, <1>1, <2>1 DEF Execute, At, RunOK
      <3>1. CASE Goes(c, "failing") /\ UNCHANGED dispatched
        <4>2. \A d \in Calls \ {c} : RunOK(d)'
          BY <1>0, <3>0, <3>1 DEF Goes, RunOK
        <4>3. RunOK(c)'
          BY <1>0, <3>0, <3>1, RequestAssumption DEF Goes, RunOK
        <4> QED BY <1>0, <3>0, <3>1, <4>2, <4>3 DEF RunsOK
      <3>2. CASE /\ r # None /\ tool[r] # None
                 /\ Goes(c, "starting") /\ dispatched' = [dispatched EXCEPT ![c] = tool[r]]
        <4>2. tool[r].id = r
          BY <3>2, ToolAssumption DEF FiledOK
        <4>3. \A d \in Calls \ {c} : RunOK(d)'
          BY <1>0, <3>0, <3>2 DEF Goes, RunOK
        <4>4. RunOK(c)'
          BY <1>0, <3>0, <3>2, <4>2, RequestAssumption DEF Goes, RunOK
        <4> QED BY <1>0, <3>0, <3>2, <4>3, <4>4 DEF RunsOK
      <3> QED BY <2>1, <3>1, <3>2 DEF Execute
    <2>2. CASE RunTool(c)
      <3>1. /\ requestPc[c] = "starting" /\ ran[c] = 0 /\ requestPc' = [requestPc EXCEPT ![c] = "waiting"]
            /\ ran' = [ran EXCEPT ![c] = 1] /\ UNCHANGED <<request, reply, dispatched>>
        <4>1. requestPc[c] = "starting" /\ ran[c] = 0
          BY <1>0, <2>2 DEF RunTool, At, RunOK
        <4>2. ran' = [ran EXCEPT ![c] = ran[c] + 1] /\ ran[c] + 1 = 1
          BY <2>2, <4>1 DEF RunTool
        <4> QED BY <2>2, <4>1, <4>2 DEF RunTool, Goes
      <3>2. \A d \in Calls : RunOK(d)'
        BY <1>0, <3>1 DEF RunOK
      <3> QED BY <1>0, <3>1, <3>2 DEF RunsOK
    <2>3. CASE StartRefused(c) \/ ToolRaises(c)
      BY <1>3, <2>3 DEF StartRefused, ToolRaises, Fail, FailWith, At
    <2>4. CASE ToolReturns(c)
      <3>1. requestPc[c] = "waiting" /\ ran[c] = 1
        BY <1>0, <2>4 DEF ToolReturns, At, RunOK
      <3> QED BY <1>3, <2>4, <3>1 DEF ToolReturns, CompleteWith
    <2> QED BY <1>6, <2>1, <2>2, <2>3, <2>4 DEF ExecutionNext
  <1>7. CASE UNCHANGED <<busVars, requestVars, toolVars>>
    BY <1>2, <1>7 DEF toolVars
  <1> QED BY <1>2, <1>5, <1>6, <1>7 DEF ToolNext, toolVars

\* RuntimeManager.execute runs the tool it has looked up, which is the one the request
\* names, at most once, and answers with success only if it ran
\* (runtime/manager.py:83-158).
THEOREM ToolTypes == ToolSpec => [](RequestTypeOK /\ ToolTypeOK)
  <1> DEFINE Inv == ProtocolInv /\ HeardOK /\ FiledOK /\ RunsOK
             Init == BusInit /\ RequestInit /\ ToolInit
  <1>1. ASSUME Init PROVE Inv
    <2>1. FiledOK /\ RunsOK
      BY <1>1, RequestAssumption DEF RequestInit, ToolInit, FiledOK, RunsOK, RunOK
    <2> QED BY <1>1, <2>1, ProtocolInit, HeardInit
  <1>2. ASSUME Inv, [ToolNext]_<<busVars, requestVars, toolVars>> PROVE Inv'
    <2>1. FiledOK'
      <3>1. CASE UNCHANGED <<busVars, requestVars, toolVars>>
        BY <1>2, <3>1 DEF FiledOK, toolVars
      <3> QED BY <1>2, <3>1, FiledStep
    <2> QED BY <1>2, <2>1, ToolStep, ToolHeard, RunsStep
  <1>3. ASSUME Inv PROVE RequestTypeOK /\ ToolTypeOK
    <2>1. ToolTypeOK
      BY <1>3 DEF FiledOK, RunsOK, RunOK, ToolTypeOK
    <2> QED BY <1>3, <2>1, ProtocolTypes
  <1> HIDE DEF Inv
  <1> QED BY <1>1, <1>2, <1>3, PTL DEF ToolSpec

-----------------------------------------------------------------------------
(***************************************************************************)
(* The Android runtime: its registries and its health.                     *)
(***************************************************************************)
StatusOK == started \in BOOLEAN /\ (started <=> status = "RUNNING")

LEMMA StatusStep == ASSUME StatusOK, [AndroidNext]_allVars PROVE StatusOK'
  <1>1. CASE UNCHANGED <<started, status>>
    BY <1>1 DEF StatusOK
  <1>2. ASSUME NEW c \in Calls, StartAndroid(c) PROVE StatusOK'
    <2>1. ~ started /\ started' = started /\ status' = "INITIALIZING"
      BY <1>2 DEF StartAndroid
    <2>2. started' = FALSE
      BY <2>1 DEF StatusOK
    <2> QED BY <2>1, <2>2 DEF StatusOK
  <1>3. ASSUME NEW c \in Calls, StartEnds(c) PROVE StatusOK'
    BY <1>3 DEF StatusOK, StartEnds
  <1>4. CASE ShutdownAndroid
    BY <1>4 DEF StatusOK, ShutdownAndroid
  <1> QED BY <1>1, <1>2, <1>3, <1>4 DEF AndroidNext, allVars, androidVars, AndroidRegister, AndroidUnregister,
             StartAnnounced, StartNext

\* Adapters are filed under the id of their capability like every other tool.
LEMMA FiledAndroidStep == ASSUME RuntimeInv, FiledOK, [AndroidNext]_allVars PROVE FiledOK'
  <1>0. RegistriesOK
    BY DEF RuntimeInv
  <1>1. ASSUME NEW a \in AndroidCapabilities, AndroidRegistered(a) PROVE FiledOK'
    BY <1>1, AndroidAssumption DEF FiledOK, AndroidRegistered
  <1>2. CASE UNCHANGED tool
    BY <1>2 DEF FiledOK
  <1>3. ASSUME NEW t \in Tools, ToolRegister(t) PROVE FiledOK'
    BY <1>3, ToolAssumption DEF FiledOK, ToolRegister
  <1>4. ASSUME NEW i \in ToolIds, ToolUnregister(i) \/ AndroidUnregister(i) PROVE FiledOK'
    BY <1>4 DEF FiledOK, ToolUnregister, AndroidUnregister
  <1>5. ASSUME NEW c \in Calls, StartNext(c) PROVE FiledOK'
    <2>1. loading[c] \in Loads /\ loading[c].left # << >>
      BY <1>0, <1>5, LoadsAreNotNone DEF RegistriesOK, StartNext
    <2>2. Head(loading[c].left) \in AndroidCapabilities
      BY <2>1 DEF Loads
    <2> QED BY <1>1, <1>2, <1>5, <2>2 DEF StartNext
  <1> QED BY <1>1, <1>2, <1>3, <1>4, <1>5 DEF AndroidNext, allVars, toolVars, AndroidRegister,
             StartAndroid, StartAnnounced, StartEnds, ShutdownAndroid

\* What the registries hold are capabilities and tools, and the manager counts as started
\* exactly while the health tracker says RUNNING, however starts and shutdowns overlap
\* (android/manager.py:32-77, android/health.py).
THEOREM AndroidTypes == AndroidSpec => []AndroidTypeOK
  <1>1. AndroidInit => StatusOK
    BY DEF AndroidInit, StatusOK
  <1>2. StatusOK /\ [AndroidNext]_allVars => StatusOK'
    BY StatusStep
  <1>3. RuntimeInv /\ StatusOK => AndroidTypeOK
    BY DEF RuntimeInv, RegistriesOK, StatusOK, AndroidHealth, AndroidTypeOK
  <1> QED BY <1>1, <1>2, <1>3, RuntimeInit, RuntimeStep, PTL DEF AndroidSpec, allVars

-----------------------------------------------------------------------------
(***************************************************************************)
(* The brain: a request succeeds with a plan of its goal in the memory.    *)
(***************************************************************************)
GoalsOK ==
    /\ goal \in [GoalIds -> GoalStates \cup {None}]
    /\ \A t \in TaskIds : task[t] # None => task[t].id = t

LEMMA GoalsStep == ASSUME PlannerInv, GoalsOK, [PlannerNext]_plannerVars PROVE GoalsOK'
  <1>1. ASSUME NEW g \in GoalIds, NEW state \in {"NEW", "CANCELLED", "READY"},
               goal' = [goal EXCEPT ![g] = state], UNCHANGED task
        PROVE  GoalsOK'
    BY <1>1 DEF GoalsOK, GoalStates
  <1>2. ASSUME NEW d \in TaskDrafts, CreateTask(d) PROVE GoalsOK'
    BY <1>2, PlannerAssumption DEF GoalsOK, PlannerInv, CreateTask
  <1>3. ASSUME NEW t \in TaskIds, NEW state \in TaskMoves, SetTask(t, state) PROVE GoalsOK'
    <2>1. task[t] # None /\ task' = [task EXCEPT ![t].state = state] /\ UNCHANGED goal
      BY <1>3 DEF SetTask
    <2>2. task'[t].id = task[t].id
      BY <2>1 DEF PlannerInv
    <2>3. \A u \in TaskIds \ {t} : task'[u] = task[u]
      BY <2>1 DEF PlannerInv
    <2> QED BY <2>1, <2>2, <2>3 DEF GoalsOK
  <1>4. CASE UNCHANGED plannerVars
    BY <1>4 DEF GoalsOK, plannerVars
  <1> QED BY <1>1, <1>2, <1>3, <1>4 DEF PlannerNext, CreateGoal, CancelGoal, UpdateGoal

LEMMA PlannerTypes == ASSUME PlannerInv, GoalsOK PROVE PlannerTypeOK
  <1>1. ASSUME NEW t \in TaskIds, task[t] # None PROVE task[t].state \in TaskStates
    <2>1. PICK d \in TaskDrafts, state \in TaskStates : task[t] = [d EXCEPT !.state = state]
      BY <1>1 DEF PlannerInv, TaskRecords
    <2> QED BY <2>1, PlannerAssumption
  <1> QED BY <1>1 DEF GoalsOK, PlannerTypeOK

\* The goal of the plan that is stored is the one the request names, from the moment it
\* is stored to the answer.
KeptOK(c) ==
    /\ requestPc[c] = "starting" \/ stage[c] \in PipelineStages => request[c] \in BrainRequestsMade \ {None}
    /\ stage[c] = "remember" => request[c].goal # None
    /\ stage[c] = "planCreated" \/ requestPc[c] = "completing" \/ reply[c] = "success" =>
          kept[c] # None /\ kept[c] = request[c].goal

PlansOK ==
    /\ DOMAIN request = Calls
    /\ kept \in [Calls -> GoalIds \cup {None}]
    /\ \A c \in Calls : KeptOK(c)

\* The steps of a call leave what the others have kept.
LEMMA OthersKept ==
    ASSUME PlansOK, NEW c \in Calls, DOMAIN request' = Calls, kept' \in [Calls -> GoalIds \cup {None}],
           \A d \in Calls \ {c} : /\ requestPc'[d] = requestPc[d] /\ stage'[d] = stage[d] /\ kept'[d] = kept[d]
                                  /\ request'[d] = request[d] /\ reply'[d] = reply[d],
           KeptOK(c)'
    PROVE  PlansOK'
  BY DEF PlansOK, KeptOK

LEMMA BrainStepPlans ==
    ASSUME BrainInv, PlansOK, NEW c \in Calls, BrainStep(c) PROVE PlansOK'
  <1>0. /\ DOMAIN requestPc = Calls /\ DOMAIN reply = Calls /\ DOMAIN stage = Calls /\ DOMAIN request = Calls
        /\ kept \in [Calls -> GoalIds \cup {None}] /\ KeptOK(c) /\ None \notin PipelineStages
        /\ stage[c] \in PipelineStages => requestPc[c] = "waiting"
        /\ stage[c] \in PipelineStages \cup {None}
    BY BrainAssumption DEF BrainInv, ProtocolInv, ProtocolOK, PlansOK, PipelineStages
  <1>1. requestPc[c] \in {"idle", "starting", "waiting"} => reply[c] = None
    BY DEF BrainInv, ProtocolInv, CallInv, Working, Unanswered
  <1>2. None # "success" /\ "raised" # "success"
    BY RequestAssumption
  <1>3. ASSUME Goes(c, "failing"), UNCHANGED <<request, reply, kept>>, reply[c] # "success",
               stage' = [stage EXCEPT ![c] = None] \/ (UNCHANGED stage /\ stage[c] = None)
        PROVE  PlansOK'
    <2>1. requestPc'[c] = "failing" /\ stage'[c] = None /\ reply'[c] = reply[c]
      BY <1>0, <1>3 DEF Goes
    <2>2. KeptOK(c)'
      BY <1>0, <1>3, <2>1 DEF KeptOK, PipelineStages
    <2> QED BY <1>0, <1>3, <2>2, OthersKept DEF Goes
  <1>4. ASSUME NEW r \in BrainRequestsMade, ProcessRequest(c, r) PROVE PlansOK'
    <2>1. /\ requestPc[c] = "idle" /\ request' = [request EXCEPT ![c] = r] /\ UNCHANGED <<reply, stage, kept>>
          /\ IF r = None THEN Goes(c, "failing") ELSE Goes(c, "starting")
      BY <1>4 DEF ProcessRequest, At
    <2>2. stage[c] = None /\ reply[c] = None
      BY <1>0, <1>1, <2>1
    <2>3. request'[c] = r /\ requestPc'[c] = IF r = None THEN "failing" ELSE "starting"
      BY <1>0, <2>1 DEF Goes
    <2>4. KeptOK(c)'
      BY <1>0, <1>2, <2>1, <2>2, <2>3 DEF KeptOK, PipelineStages
    <2> QED BY <1>0, <2>1, <2>4, OthersKept DEF Goes
  <1>5. CASE AnnouncingRaises(c)
    <2>1. requestPc[c] = "starting" /\ Answer(c, "raised", {}) /\ UNCHANGED <<stage, kept>>
      BY <1>5 DEF AnnouncingRaises, At
    <2>2. stage[c] = None /\ requestPc'[c] = "over" /\ reply'[c] = "raised"
      BY <1>0, <2>1 DEF Answer, Goes
    <2>3. KeptOK(c)'
      BY <1>0, <2>1, <2>2 DEF KeptOK, PipelineStages
    <2> QED BY <1>0, <2>1, <2>3, OthersKept DEF Answer, Goes
  <1>6. CASE RunPipeline(c)
    <2>0. requestPc[c] = "starting" /\ stage[c] = None /\ reply[c] = None
      BY <1>0, <1>1, <1>6 DEF RunPipeline, At
    <2>1. CASE FailWith(c) /\ UNCHANGED stage
      BY <1>2, <1>3, <1>6, <2>0, <2>1 DEF RunPipeline, Fail, FailWith
    <2>2. CASE Goes(c, "waiting") /\ stage' = [stage EXCEPT ![c] = "search"] /\ UNCHANGED <<request, reply>>
      <3>1. requestPc'[c] = "waiting" /\ stage'[c] = "search" /\ UNCHANGED kept
        BY <1>0, <1>6, <2>2 DEF Goes, RunPipeline
      <3>2. KeptOK(c)'
        BY <1>0, <1>2, <2>0, <2>2, <3>1 DEF KeptOK, PipelineStages
      <3> QED BY <1>0, <2>2, <3>1, <3>2, OthersKept DEF Goes
    <2> QED BY <1>6, <2>1, <2>2 DEF RunPipeline
  <1>7. ASSUME stage[c] \in PipelineStages PROVE requestPc[c] = "waiting" /\ reply[c] # "success"
    BY <1>0, <1>1, <1>2, <1>7
  <1>8. CASE MemoryRaises(c) \/ PlanningFails(c)
    <2>1. stage[c] \in PipelineStages
      BY <1>8 DEF MemoryRaises, PlanningFails, PipelineStages
    <2> QED BY <1>3, <1>7, <1>8, <2>1 DEF MemoryRaises, PlanningFails, Fail, FailWith
  <1>9. CASE BuildPlan(c)
    <2>0. stage[c] = "search" /\ stage[c] \in PipelineStages /\ UNCHANGED kept
      BY <1>9 DEF BuildPlan, PipelineStages
    <2>1. CASE request[c].goal = None
      BY <1>3, <1>7, <1>9, <2>0, <2>1 DEF BuildPlan, Fail, FailWith
    <2>2. CASE request[c].goal # None
      <3>1. /\ UNCHANGED <<requestPc, request, reply>>
            /\ \E next \in {"planFailed", "remember"} : stage' = [stage EXCEPT ![c] = next]
        BY <1>9, <2>2 DEF BuildPlan
      <3>2. PICK next \in {"planFailed", "remember"} : stage' = [stage EXCEPT ![c] = next]
        BY <3>1
      <3>3. stage'[c] = next /\ requestPc'[c] = "waiting" /\ reply'[c] # "success"
        BY <1>0, <1>7, <2>0, <3>1, <3>2
      <3>4. KeptOK(c)'
        BY <1>0, <2>0, <2>2, <3>1, <3>3 DEF KeptOK, PipelineStages
      <3> QED BY <1>0, <2>0, <3>1, <3>2, <3>4, OthersKept
    <2> QED BY <2>1, <2>2
  <1>10. CASE PlanRemembered(c)
    <2>1. /\ stage[c] = "remember" /\ stage[c] \in PipelineStages /\ UNCHANGED <<requestPc, request, reply>>
          /\ kept' = [kept EXCEPT ![c] = request[c].goal] /\ stage' = [stage EXCEPT ![c] = "planCreated"]
      BY <1>10 DEF PlanRemembered, PipelineStages, requestVars
    <2>2. request[c] \in BrainRequestsMade \ {None} /\ request[c].goal # None
      BY <1>0, <2>1 DEF KeptOK
    <2>3. request[c].goal \in GoalIds \cup {None}
      BY <2>2, BrainAssumption
    <2>4. /\ kept' \in [Calls -> GoalIds \cup {None}] /\ kept'[c] = request[c].goal /\ stage'[c] = "planCreated"
      BY <1>0, <2>1, <2>3
    <2>5. KeptOK(c)'
      BY <1>7, <2>1, <2>2, <2>4 DEF KeptOK, PipelineStages
    <2> QED BY <1>0, <2>1, <2>4, <2>5, OthersKept
  <1>11. CASE Decide(c)
    <2>1. /\ stage[c] = "planCreated" /\ Goes(c, "completing") /\ UNCHANGED <<request, reply, kept>>
          /\ stage' = [stage EXCEPT ![c] = None]
      BY <1>11 DEF Decide, CompleteWith
    <2>2. requestPc'[c] = "completing" /\ stage'[c] = None
      BY <1>0, <2>1 DEF Goes
    <2>3. KeptOK(c)'
      BY <1>0, <2>1, <2>2 DEF KeptOK, PipelineStages
    <2> QED BY <1>0, <2>1, <2>3, OthersKept DEF Goes
  <1> QED BY <1>4, <1>5, <1>6, <1>8, <1>9, <1>10, <1>11 DEF BrainStep

LEMMA PlansStep ==
    ASSUME BrainInv, PlansOK, [BrainNext]_<<busVars, requestVars, plannerVars, brainVars>> PROVE PlansOK'
  <1>0. /\ DOMAIN requestPc = Calls /\ DOMAIN reply = Calls /\ DOMAIN request = Calls
        /\ kept \in [Calls -> GoalIds \cup {None}]
    BY DEF BrainInv, ProtocolInv, ProtocolOK, PlansOK
  <1>1. CASE UNCHANGED <<requestVars, brainVars>>
    BY <1>1 DEF PlansOK, KeptOK, requestVars, brainVars
  <1>2. CASE VerdictNext /\ UNCHANGED <<brainVars, plannerVars>>
    <2>1. PICK c \in Calls : Completed(c) \/ CompletedRaised(c) \/ Failed(c) \/ FailedRaised(c)
      BY <1>2 DEF VerdictNext
    <2>2. UNCHANGED <<stage, kept, request>> /\ KeptOK(c)
      BY <1>2, <2>1 DEF brainVars, PlansOK, Completed, CompletedRaised, Failed, FailedRaised, Answer, Fail, FailWith
    <2>3. CASE Completed(c)
      <3>1. /\ requestPc[c] = "completing" /\ requestPc' = [requestPc EXCEPT ![c] = "over"]
            /\ reply' = [reply EXCEPT ![c] = "success"]
        BY <2>3 DEF Completed, At, Answer, Goes
      <3>2. KeptOK(c)'
        BY <1>0, <2>2, <3>1 DEF KeptOK
      <3> QED BY <1>0, <2>2, <3>1, <3>2, OthersKept
    <2>4. CASE CompletedRaised(c)
      <3>1. requestPc' = [requestPc EXCEPT ![c] = "failing"] /\ UNCHANGED reply
        BY <2>4 DEF CompletedRaised, Fail, FailWith, Goes
      <3>2. KeptOK(c)'
        BY <1>0, <2>2, <3>1 DEF KeptOK
      <3> QED BY <1>0, <2>2, <3>1, <3>2, OthersKept
    <2>5. CASE Failed(c) \/ FailedRaised(c)
      <3>1. PICK r \in {"failed", "raised"} :
                requestPc' = [requestPc EXCEPT ![c] = "over"] /\ reply' = [reply EXCEPT ![c] = r]
        BY <2>5 DEF Failed, FailedRaised, Answer, Goes
      <3>2. KeptOK(c)'
        BY <1>0, <2>2, <3>1 DEF KeptOK
      <3> QED BY <1>0, <2>2, <3>1, <3>2, OthersKept
    <2> QED BY <2>1, <2>3, <2>4, <2>5
  <1>3. ASSUME NEW c \in BrainCalls, BrainStep(c) PROVE PlansOK'
    BY <1>3, BrainStepPlans, BrainAssumption
  <1> QED BY <1>1, <1>2, <1>3 DEF BrainNext

\* What BrainTypeOK says follows.
LEMMA BrainTyped == ASSUME BrainInv, PlansOK PROVE BrainTypeOK
  <1>1. \A c \in Calls : stage[c] # None => requestPc[c] = "waiting"
    BY DEF BrainInv
  <1> QED BY <1>1 DEF BrainInv, PipelineStages, PlansOK, KeptOK, BrainTypeOK, At

\* BrainManager.process_request answers with success only when a plan of the goal the
\* request names has been stored, whatever happens to goals, tasks and other requests in
\* the meantime (brain/manager.py:83-106, brain/pipeline.py).
THEOREM BrainTypes == BrainSpec => [](RequestTypeOK /\ PlannerTypeOK /\ BrainTypeOK)
  <1> DEFINE Inv == BrainInv /\ HeardOK /\ PlannerInv /\ GoalsOK /\ PlansOK
             Init == BusInit /\ RequestInit /\ PlannerInit /\ BrainInit
  <1>1. ASSUME Init PROVE Inv
    <2>1. BrainInv
      BY <1>1, ProtocolInit, BrainAssumption DEF BrainInit, BrainInv, PipelineStages
    <2>2. PlansOK
      BY <1>1, BrainAssumption, RequestAssumption DEF RequestInit, BrainInit, PlansOK, KeptOK, PipelineStages
    <2>3. PlannerInv /\ GoalsOK
      BY <1>1, PlannerInvInit DEF PlannerInit, GoalsOK
    <2> QED BY <1>1, <2>1, <2>2, <2>3, HeardInit
  <1>2. ASSUME Inv, [BrainNext]_<<busVars, requestVars, plannerVars, brainVars>> PROVE Inv'
    <2>1. [PlannerNext]_plannerVars
      BY <1>2 DEF BrainNext
    <2> QED BY <1>2, <2>1, BrainInvStep, BrainHeard, PlannerInvStep, GoalsStep, PlansStep
  <1>3. ASSUME Inv PROVE RequestTypeOK /\ PlannerTypeOK /\ BrainTypeOK
    BY <1>3, ProtocolTypes, PlannerTypes, BrainTyped DEF BrainInv
  <1> HIDE DEF Inv
  <1> QED BY <1>1, <1>2, <1>3, PTL DEF BrainSpec
=============================================================================
