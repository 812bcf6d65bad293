CONSTANTS
  Job = {1, 2, 3}
  Key = {"plain", "force"}
  Target = {"ana"}
  TargetOf <- TwoKeys
  Proc = {"p1", "p2"}
  Worker = {"w1", "w2"}
  ProcOf <- LoopEach
  Requester = {"r1"}
  MaxAttempts = 3
  MaxRequests = 3
  Reconciled = {}
  None = None
  Faults = {}

SPECIFICATION Spec

PROPERTIES
  DeviceNeverGoesBack
