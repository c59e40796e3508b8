CONSTANTS
  None = None
  Calls = {t1, t2}
  logger = logger
  bus = bus
  kernel = kernel
  Services = {logger, bus, kernel}
  Scopes = {s1}
  Registrations <- MCRegistrations
  Replacements <- MCReplacements
  MaxChanges = 1
  MemoryIds = {"m1", "m2"}
  Namespaces = {"work", "home"}
  MemoryOwners = {"user"}
  Tags = {"todo"}
  Drafts <- MCDrafts
  Changes <- MCChanges
  Policies <- MCPolicies
  MaxOperations = 4
  IdentityIds = {"i1", "i2"}
  Usernames = {"ann", "bob"}
  Identities <- MCIdentities
  n1 = n1
  Sessions = {n1, n2}
  Overrides <- MCOverrides
  Contexts = {x1, x2}
  MaxFrames = 2
  Permissions = {"READ_MEMORY"}
  RolePermissions <- MCRolePermissions
  Plugins = {"p1", "p2"}
  Manifests <- MCManifests
  MaxPublishes = 6
  Wildcard = Wildcard
  Handlers = {h1, h2}
  Unsubscribable = {h2}
  EventTypes = {"Completed"}
  GoalIds = {"g1"}
  TaskIds = {1, 2, 3}
  TaskDrafts <- MCTaskDrafts
  TaskMoves = {"SUCCESS"}
  MaxPlannerChanges = 4
  BrainCalls = {t1}
  BrainRequestsMade <- MCBrainRequests
  ToolIds = {"call", "sms"}
  Tools <- MCTools
  ToolRequests = {"call", None}
  MaxRegistrations = 2
  AndroidCapabilities <- MCAndroidCapabilities
  Packs <- MCPacks

SPECIFICATION MCSpec

CHECK_DEADLOCK FALSE

INVARIANTS
  ServicesTypeOK
  OneSingleton
  NoDeadlock
  ValidatorAgrees
  IndexesAgree
  SubscribersSeeStore
  IdentitiesAgree
  CurrentIsLatestSet
  PlansAreOrders
  OneVerdict
  NoOrphanAdapters
