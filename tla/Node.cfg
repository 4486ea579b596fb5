SPECIFICATION NodeFairSpec
CONSTANTS
  DeviceId <- MCDeviceId
  SerialNum = {0}
  NoId = NoId
  Absent = Absent
  NULL = NULL
  ESP_MAXIMUM_RETRY = 1
  MaxStarts = 2
INVARIANTS
  NodeTypeOK
  WaitJustified
  HandlersHaveGroup
  NodeIdIsStored
  UndeclaredBeforeDrop
  FieldsLive
  HandlerOnlyWhileStarted
  BootCompletesIdentity
  LeftAfterDestroy
PROPERTIES
  IdentityWriteOnce
  CallsReturn
