CONSTANTS
  None = None
  Calls = {c1, c2}
  WorkflowIds = {w1, w2}
  Controls = {"cancel", "pause", "resume"}
  QueueShared = TRUE
  MiddlewareMayRaise = TRUE

SPECIFICATION FairSpec

INVARIANTS
  QueueIndexed
  TaskConservation
  HonestReply

PROPERTIES
  ImplementsExchange
  CallsSettle
