SPECIFICATION FairSpec
CONSTANTS
  Domain = {"child", "visitor"}
  Adult = {a1}
  Reader = {r1}
  Syncer = {s1}
  Approver = {p1}
  MaxEdits = 2
  Overlap = {}
  None = None
INVARIANTS
  TypeOK
  AccessIsOwed
  ValidAccessKept
  Serialized
PROPERTIES
  FlagFallsWhenDone
  IntentKept
  UnauthorizedFaceLeaves
  AnsweredIsApproved
CHECK_DEADLOCK FALSE
