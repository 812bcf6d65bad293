CONSTANTS
  Job = {1, 2}
  Key = {"plain"}
  Target = {"ana"}
  TargetOf <- OneKey
  Proc = {"p1"}
  Worker = {"w1"}
  ProcOf <- LoopOne
  Requester = {"r1", "r2"}
  MaxAttempts = 3
  MaxRequests = 2
  Reconciled = {}
  None = None
  Faults = {"stall", "cancel", "withdraw"}

SPECIFICATION FairSpec

PROPERTIES
  EndedIsFinal
  PendingIsSettled
