SPECIFICATION FairSpec
CONSTANTS
  Person = {p1}
  Rekeyed = {p1}
  MaxEvents = 2
  Races = {}
  None = None
INVARIANTS LedgerIsTrue AppliedIsClean
PROPERTIES ReaderSettles
CHECK_DEADLOCK FALSE
