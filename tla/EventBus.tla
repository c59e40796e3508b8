------------------------------- MODULE EventBus -------------------------------
(***************************************************************************)
(* The event bus (core/events): a publish passes the middlewares, then the *)
(* dispatcher runs the handlers subscribed at that moment concurrently and *)
(* waits for all of them.                                                  *)
(***************************************************************************)
EXTENDS EventLoop

CONSTANTS
    Handlers,        \* subscribers
    EventTypes,
    Wildcard,        \* the base class Event, to which a handler subscribes for everything
    Unsubscribable   \* handlers that come and go

VARIABLES
    subscribed,  \* pairs of an event type, or Wildcard, and a handler
    publish,     \* the publish a call awaits, or None
    heard,       \* history: the verdicts on each call a handler was invoked with
    listened     \* history: handlers subscribed to everything since the start

busVars == <<subscribed, publish, heard, listened>>

BusInit ==
    /\ subscribed \in {{<<Wildcard, h>> : h \in s} : s \in SUBSET Handlers}
    /\ publish = [c \in Calls |-> None]
    /\ heard = {}
    /\ listened = {h \in Handlers : <<Wildcard, h>> \in subscribed}

\* Dispatcher.dispatch: exact and wildcard subscribers, each once.
Matching(e) == {h \in Handlers : <<e, h>> \in subscribed \/ <<Wildcard, h>> \in subscribed}

\* The middlewares pass the event on or keep it to themselves, and may raise in
\* either case: one that has passed it on raises when all handlers have ended.
Publish(c, e) ==
    \E passes \in BOOLEAN, raises \in BOOLEAN :
        publish' = [publish EXCEPT ![c] =
            [event |-> e, left |-> IF passes THEN Matching(e) ELSE {}, raised |-> raises,
             passed |-> passes]]

Verdicts == {"Completed", "Failed"}
Hears(h, c) == IF publish[c].event \in Verdicts THEN heard \cup {<<h, c, publish[c].event>>} ELSE heard

Handle(c, h) ==
    /\ publish[c] # None /\ h \in publish[c].left
    /\ publish' = [publish EXCEPT ![c].left = @ \ {h}]
    /\ heard' = Hears(h, c)
    /\ UNCHANGED <<subscribed, listened>>

\* Mutant: gather without return_exceptions, the first failure is raised.
HandlerRaises_Propagates(c, h) ==
    /\ publish[c] # None /\ h \in publish[c].left
    /\ publish' = [publish EXCEPT ![c].left = {}, ![c].raised = TRUE]
    /\ heard' = Hears(h, c)
    /\ UNCHANGED <<subscribed, listened>>

\* _safe_invoke and gather: a handler that raises is logged, and that is all.
HandlerRaises(c, h) == Handle(c, h)

Subscribe(e, h) ==
    /\ h \in Unsubscribable /\ <<e, h>> \notin subscribed
    /\ subscribed' = subscribed \cup {<<e, h>>}
    /\ UNCHANGED <<publish, heard, listened>>

Unsubscribe(e, h) ==
    /\ h \in Unsubscribable /\ <<e, h>> \in subscribed
    /\ subscribed' = subscribed \ {<<e, h>>}
    /\ listened' = listened \ {h}
    /\ UNCHANGED <<publish, heard>>

BusNext ==
    \/ \E c \in Calls, h \in Handlers : Handle(c, h) \/ HandlerRaises(c, h)
    \/ \E h \in Handlers, e \in EventTypes \cup {Wildcard} : Subscribe(e, h) \/ Unsubscribe(e, h)

\* The await of a publish is over, one way or the other.
Ended(c) == publish[c] # None /\ publish[c].left = {}
Returned(c) == Ended(c) /\ ~publish[c].raised
Raised(c) == Ended(c) /\ publish[c].raised

=============================================================================
