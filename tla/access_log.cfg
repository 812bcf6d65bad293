SPECIFICATION FairSpec
CONSTANTS
  Devices <- Kinds
  MaxAccesses = 2
  MaxResults = 1
  MaxPolls = 2
  MaxEdits = 2
  None = None
  Live = Live
  Missing = Missing
INVARIANTS TypeOK ToldOnce PhotoIsOwn
PROPERTIES AccessIsRecorded
CHECK_DEADLOCK FALSE
