CONSTANTS
  Job = {1, 2}
  Key = {"plain"}
  Target = {"ana"}
  TargetOf <- OneKey
  Proc = {"p1", "p2"}
  Worker = {"w1", "w2"}
  ProcOf <- LoopEach
  Requester = {"r1"}
  MaxAttempts = 3
  MaxRequests = 2
  Reconciled = {"plain"}
  None = None
  Faults = {"crash", "stop", "cancel", "clear", "drop_admin"}

SPECIFICATION Spec

INVARIANTS
  TypeOK
  OneQueuedPerDedupe
  OneRunningPerTarget
  SyncedIsCurrent

PROPERTIES
  SupersededHasSuccessor
  DeviceNeverGoesBack
