\* Two resets at one time, a browser going, one coming and one more.
SPECIFICATION FairKioskSpec
CONSTANTS
  Reset = {r1, r2}
  Launch = {l1, l2, l3}
  MaxFaults = 2
  SelfMatches = FALSE
  NoLaunch = NoLaunch
INVARIANTS
  OneBrowser
  NothingLeaks
  LogoutHeard
PROPERTIES
  SweepSparesUsed
  KioskReturns
