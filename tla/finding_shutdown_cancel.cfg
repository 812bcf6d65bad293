CONSTANTS
  Job = {1}
  Key = {"plain"}
  Target = {"ana"}
  TargetOf <- OneKey
  Proc = {"p1", "p2"}
  Worker = {"w1", "w2"}
  ProcOf <- LoopEach
  Requester = {"r1"}
  MaxAttempts = 3
  MaxRequests = 1
  Reconciled = {}
  None = None
  Faults = {"stop", "cancel"}

SPECIFICATION Spec

INVARIANTS
  PendingWillSettle
