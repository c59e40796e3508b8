CONSTANTS
  None = None
  torch = torch
  sensor = sensor
  torchUser = torchUser
  torchPin = torchPin
  torchQuiet = torchQuiet
  torchAndroid = torchAndroid
  sensorDriver = sensorDriver
  IdOf <- MCIdOf
  Mutation <- MCMutation
  CapabilityIds = {torch, sensor}
  Capabilities = {torchUser, torchPin, torchQuiet, sensorDriver}
  CanRollBack = {torchUser, torchQuiet}
  ReportsFailure = {sensorDriver}
  Policies <- MCPolicies
  TrustValues <- MCTrustValues
  Injections <- MCInjections
  SupportedLevels = {"USER"}
  Commands = {c1}
  Sinks = {s1, s2}
  ReliableSinks = {s1}
  MiddlewareMayRaise = TRUE

SPECIFICATION Spec

INVARIANTS
  TypeOK
  AuthorizedExecution
  DenialIsInert
  ConfirmedMutation
  RollbackOnlyOfFailure
  RollbackReported
  AuditTrail
  MutationsAudited
  OutcomeMatchesEvents

PROPERTIES
  EarlierPolicyWins
  ImplementsGuardedExecution
