SPECIFICATION FairSpec
CONSTANTS
  Brand = {"hikvision", "intelbras", "camera"}
  Host = {h1, h2}
  Call = {c1, c2}
  Threshold = 3
  MaxPolls = 2
  MaxEdits = 3
  Faults = {}
  None = None
INVARIANTS TypeOK Tended ShownIsUsed OutageIsMarked
PROPERTIES FollowsRow OutageIsTold
CHECK_DEADLOCK FALSE
