CONSTANTS
  None = None
  config = config
  logging = logging
  bus = bus
  Names = {config, logging, bus}
  NameOrder <- MCNameOrder
  Registrations <- MCRegistrations
  first = t1
  second = t2
  Calls = {t1, t2}
  Operations = {"boot", "start", "stop", "shutdown", "restart"}

SPECIFICATION MCSpec

INVARIANTS
  TypeOK
  OrderIsTopological
  VisitOrder
  HealthTruthful

PROPERTIES
  ReportIsComplete
  FailedStartupIsUndone
