\* One settled account that owns up to two devices: the second must be skipped once
\* the first has been marked, in the same pass and in later ones.  RC's search may
\* list a stranger first.
CONSTANTS
  e1 = e1
  e2 = e2
  m1 = m1
  m2 = m2
  p1 = p1
  p2 = p2
  NoID = NoID
  NoMac = NoMac
  Email = {e1}
  Profile = {e1, p1, p2}
  Mac = {m1, m2}
  SearchHits <- LooseSearch
  Registrable <- AnyRegistration
  MaxDay = 2
  MaxRestarts = 1
SPECIFICATION SettledSpec
INVARIANT VisitsBacked
PROPERTIES
  NoRepeatedPatch
  ImplementsLedger
  EventuallyMarked
