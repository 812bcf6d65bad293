SPECIFICATION FairSpec
CONSTANTS
  Adult = {a1}
  Request = {q1, q2}
  Asker = {i1}
  Sender = {s1, s2}
  MaxTries = 2
  Limited = TRUE
  Overlap = {}
  MaxEdits = 2
  None = None
INVARIANTS
  TypeOK
  LinkRevokes
  ConsentsAreEligible
PROPERTIES
  EveryAdultIsAsked
CHECK_DEADLOCK FALSE
