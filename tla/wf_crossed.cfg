CONSTANTS
  None = None
  Calls = {c1, c2}
  WorkflowIds = {w1, w2}
  Controls = {}
  QueueShared = FALSE
  MiddlewareMayRaise = FALSE

SPECIFICATION Spec

INVARIANTS
  ResultIsOwn
