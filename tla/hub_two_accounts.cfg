\* A settled account and one to which everything may happen, each with a device
\* of its own, the second of which the first may register too.
CONSTANTS
  e1 = e1
  e2 = e2
  m1 = m1
  m2 = m2
  p1 = p1
  p2 = p2
  NoID = NoID
  NoMac = NoMac
  Email = {e1, e2}
  Profile = {e1, e2}
  Mac = {m1, m2}
  SearchHits <- ExactSearch
  Registrable <- OneDisputable
  MaxDay = 1
  MaxRestarts = 0
SPECIFICATION KnownSpec
INVARIANT TypeOK
PROPERTIES
  GroundedVisits
  NobodyPassedOver
  SharesTokenTable
  EventuallyMarked
