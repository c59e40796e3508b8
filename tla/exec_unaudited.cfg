CONSTANTS
  None = None
  torch = torch
  sensor = sensor
  torchUser = torchUser
  torchPin = torchPin
  torchQuiet = torchQuiet
  torchAndroid = torchAndroid
  sensorDriver = sensorDriver
  IdOf <- MCIdOf
  Mutation <- MCMutation
  CapabilityIds = {torch}
  Capabilities = {torchUser}
  CanRollBack = {torchUser}
  ReportsFailure = {}
  Policies <- MCPolicies
  TrustValues = {"LOW"}
  Injections = {{"MutationManager", "ConfirmationManager"}}
  SupportedLevels = {"USER"}
  Commands = {c1}
  Sinks = {s1}
  ReliableSinks = {s1}
  MiddlewareMayRaise = TRUE

SPECIFICATION Spec

INVARIANTS
  AllMutationsAudited
