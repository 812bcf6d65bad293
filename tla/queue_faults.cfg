CONSTANTS
  Job = {1, 2}
  Key = {"plain"}
  Target = {"ana"}
  TargetOf <- OneKey
  Proc = {"p1", "p2"}
  Worker = {"w1", "w2"}
  ProcOf <- LoopEach
  Requester = {"r1"}
  MaxAttempts = 2
  MaxRequests = 1
  Reconciled = {"plain"}
  None = None
  Faults = {"crash", "stop", "drop", "retry", "db"}

SPECIFICATION TimerSpec

INVARIANTS
  QueuedIsRunnable

PROPERTIES
  EveryJobEnds
  RegistrationIsSettled
