CONSTANTS
  None = None
  Commands = {c1, c2}
  MaxLevel = 3
  Levels <- MCLevels
  Steps = {1, 2}
  Timeouts = {"30s", "60s"}
  Ssids = {"home"}
  BtDevices = {"headset"}
  Messages = {"m1", "m2"}
  Contacts = {"k1"}
  Values = {"v1", "v2"}
  Notifications = {"n1", "n2"}
  Numbers = {"911"}
  Paths = {"p1", "p2"}
  Contents = {"x", "y"}
  Focuses = {"volume"}

SPECIFICATION MCSpec
CHECK_DEADLOCK FALSE

PROPERTIES
  CapturedUndoRestores
