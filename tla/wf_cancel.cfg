CONSTANTS
  None = None
  Calls = {c1, c2}
  WorkflowIds = {w1, w2}
  Controls = {"cancel"}
  QueueShared = FALSE
  MiddlewareMayRaise = FALSE

SPECIFICATION FairSpec

PROPERTIES
  CancelledStays
