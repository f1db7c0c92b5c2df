\* A device that moves between two IPv4 addresses, and one that has an IPv6 address
\* and may take over one of the other's.
CONSTANTS
  m1 = m1
  m2 = m2
  a1 = a1
  a2 = a2
  b1 = b1
  Mac = {m1, m2}
  IPv4 = {a1, a2}
  IPv6 = {b1}
  Pool <- PassingPools
  NoMac = NoMac
  NoIP = NoIP
SPECIFICATION NetSpec
INVARIANT
  AbsentMeansSilent
PROPERTIES
  KeepsPresencePromise
  CacheNeverEmptied
